\* Two devices, three requests each, queues of two bytes, and a program that
\* waits for one of them.
CONSTANTS
  d1 = d1
  d2 = d2
  Devices = {d1, d2}
  MaxBytes = 2
  MaxRequests = 3
  Awaited = {d1}
SPECIFICATION FairSpec
INVARIANTS TypeOK
PROPERTIES DeliversInOrder RequestAnswered RqsReported
