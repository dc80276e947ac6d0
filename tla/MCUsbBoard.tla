----------------------------- MODULE MCUsbBoard -----------------------------
(* The four drivers, each with two operations at a time, and what is known *)
(* not to hold of them.                                                    *)
EXTENDS UsbFlow

AllDrivers == DOMAIN UsbPrograms

\* lpvo_usb_gpib.c:239-268: no lock is held from a command to its answer, and
\* IBLINES calls line_status (652-711) beside another task's transfer.  Detach
\* reads no answer to its command (522).
KnownCrossing == {<<"lpvo_usb_gpib", "line_status">>, <<"lpvo_usb_gpib", "detach">>}

\* An error between a message and its answer, which may be that there is no memory
\* for the answer, leaves it to the next message: ni_usb_gpib.c:655-659 and
\* 785-788, agilent_82357a.c:256-261, lpvo_usb_gpib.c:250-257.
KnownForgetful == {"ni_usb", "agilent_82357a", "lpvo_usb_gpib"}

\* agilent_82357a.c:273-281 and 353-361 return without freeing in_data when
\* the message cannot be sent.  xyphro_ugc.c:813-819 and 1004-1009 return on a
\* signal without freeing the urb.
KnownLeaky == {<<"agilent_82357a", "in">>, <<"xyphro_ugc", "urb">>}

\* A failed attach leaves the interface's driver data set (agilent_82357a.c:
\* 1376-1379, xyphro_ugc.c:1457-1461): no later attach finds the adapter.
\* The returns on a signal of xyphro_ugc.c leave a timer of the freed board.
\* lpvo_usb_gpib.c:413 and 427 take a reference to each adapter looked at.
KnownLittering ==
  {<<"agilent_82357a", "intfdata">>, <<"xyphro_ugc", "intfdata">>, <<"xyphro_ugc", "timer">>,
   <<"lpvo_usb_gpib", "udev">>}

\* The functions of a driver that ibioctl calls.
FileOps == Unlocked \cup Settings \cup Open

\* iblib.c:243-266 takes a board offline in use: what goes on without
\* big_gpib_mutex (gpib_os.c:755-812, 719-723) goes on without the private data.
\* xyphro_ugc.c:1639-1641 takes private_data to be there.
KnownCareless == (AllDrivers \X Unlocked) \cup {<<"xyphro_ugc", "resume">>}

\* xyphro_ugc.c:1540-1578 clears the interface without io_mutex.  The skeleton of
\* lpvo_usb_gpib.c:1333-1350 is released without it.
KnownUnguarded == ({"xyphro_ugc"} \X FileOps) \cup ({"lpvo_usb_gpib"} \X Unlocked)

\* interface_to_usbdev(bus_interface) without a lock: ni_usb_gpib.c:322, 522, 617,
\* 1249 and the like, agilent_82357a.c:216, 290, 370, 445, 694, 921 and the like.
KnownHasty == {"ni_usb", "agilent_82357a"} \X FileOps
=============================================================================
