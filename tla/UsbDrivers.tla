----------------------------- MODULE UsbDrivers -----------------------------
(* The programs of the USB board drivers, the locks that each keeps in the *)
(* private data of its board, and what the board has of an adapter that is *)
(* plugged in.                                                             *)
EXTENDS NiUsb, AgilentUsb, XyphroUsb, LpvoUsb

UsbPrograms ==
  [ni_usb |-> NiUsb, agilent_82357a |-> AgilentUsb, xyphro_ugc |-> XyphroUsb,
   lpvo_usb_gpib |-> LpvoUsb]
PrivateLocks ==
  [ ni_usb |-> {"bulk", "control", "interrupt", "addressed"},
    agilent_82357a |-> {"bulk_transfer", "bulk_alloc", "control_alloc", "interrupt_alloc"},
    xyphro_ugc |-> {"io"}, lpvo_usb_gpib |-> {} ]
AdapterData ==
  [ ni_usb |-> {"slot"}, agilent_82357a |-> {"slot"}, xyphro_ugc |-> {"slot"},
    lpvo_usb_gpib |-> {"slot", "skel", "intfdata"} ]
=============================================================================
