----------------------------- MODULE MCLibrary -----------------------------
(* A thread with a device descriptor, one that opens and closes another    *)
(* device, one with a board descriptor, and what is known not to hold of   *)
(* their calls.                                                            *)
EXTENDS LibraryFlow

CONSTANTS dev, late, brd, other, gpib0, gpib1

Opening == {"ibdev", "ibonl0"}
CallsOfThreads ==
  [t \in Threads |->
     IF t = late THEN Opening
     ELSE DOMAIN OpeningCalls \cup DOMAIN DeviceCalls \cup DOMAIN BoardCalls]
Addressers == {"SendList"}
Lines == {<<"x">>}

\* ibbna.c:49, ibconfig.c:366-372 and ibOnl.c:77: has_lock stays with a descriptor
\* whose board is another one, and ibutil.c:386 asserts that this one can be unlocked.
KnownAborting == {"ibbna", "IbconfigDevice", "IbonlDevice"}

\* pass_control.c:26-29: TCT is not sent.
KnownDeafening == {"ibpct", "PassControl"}

\* ibCmd.c:150-154: the board's address cannot be queried, and the command is
\* sent to nobody.
Unaddressing ==
  { "TriggerList", "SendSetup", "PPollConfig", "PPollUnconfig", "EnableLocal", "EnableRemote",
    "SendList", "SendLLO", "FindLstn", "TestSys", "ResetSys", "ibfind", "ibclr", "ibtrg", "ibwrt",
    "ibwrtf", "ibppc", "ibln" }
\* ibClr.c:112-115: the second exit_library takes the error back.
KnownSilent ==
  Unaddressing \X {"query"}
    \cup {"DevClearList"} \X {"argument", "command", "memory", "not in charge", "query"}
    \* pass_control.c:26 and 33: nobody looks whether InternalReceiveSetup and
    \* internal_ibgts have failed.
    \cup {"ibpct", "PassControl"} \X {"argument", "query", "not in charge", "command", "ioctl"}
    \* ibRd.c:113 and 195: nor is that of iblcleos.
    \cup {"ibrd", "ibrdf"} \X {"eos"}
    \* ibRd.c:124 and ibWrt.c:152 and 257: the result of the transfer is overwritten.
    \cup {<<"ibrd", "read">>, <<"ibwrt", "send">>, <<"ibwrtf", "send">>, <<"ibwrtf", "file">>}
    \cup {<<"ibfind", "send">>}
    \* ibdev.c:172: nor is that of exit_library.
    \cup {<<"ibfind", "status">>}
    \* ibCac.c:46: asynchronously it succeeds.
    \cup {<<"ibcac", "ioctl">>}

\* ibdev.c:139 and 167, ibFind.c:66 and 72: the descriptor or its handle is lost.
\* ibOnl.c:121: board_is_open stays set, so that no handle is opened again.
\* ibbna.c:30, from ibconfig.c:367 and ibOnl.c:77 too: the handle is closed first.
KnownLosing ==
  DeviceThreads \X ({"ibdev", "ibfind"} \cup Movers) \cup BoardThreads \X {"ibonl0"}
=============================================================================
