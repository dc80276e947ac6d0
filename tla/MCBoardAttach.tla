---------------------------- MODULE MCBoardAttach ----------------------------
(* Up to two boards configured for one device, with each driver in turn. *)
EXTENDS BoardFlow, TLC

CONSTANTS b1, b2

AllDrivers == DOMAIN Tables
Symmetry == Permutations(Boards)

(* What is known of the drivers, at these lines:                           *)
(* ni_isa, ni_pcmcia: the region (tnt4882_gpib.c:1114, 1771); fluke: both  *)
(* mappings (fluke_gpib.c:1002, 1036, and fluke_detach); fmh_gpib: the     *)
(* device found (fmh_gpib.c:1387); hp_82341d: isapnp_cfg_mutex             *)
(* (hp_82341.c:743); ines: the bridge's interrupts (ines_gpib.c:928);      *)
(* agilent_82350a, agilent_82350b: the regions and the other mappings, if  *)
(* gpib_base was not mapped (agilent_82350b.c:758).                        *)
KnownLeaky ==
  { "ni_isa", "ni_pcmcia", "fluke", "fmh_gpib", "hp_82341d", "ines_plx", "ines_amcc",
    "agilent_82350a", "agilent_82350b" }
(* A negative interrupt number (gpib_bitbang.c:1090).                      *)
KnownRash == {"gpib_bitbang"}
(* Another board's (mite.c:120 and gpib_bitbang.c:1117).                   *)
KnownGreedy == {"ni_pci", "gpib_bitbang"}
(* An ioremap not checked (agilent_82350b.c:651, 674, hp82335.c:291,       *)
(* fmh_gpib.c:1561), and port 0x38 (cb7210.c:1022).                        *)
KnownWild ==
  {"agilent_82350a", "agilent_82350b", "hp82335", "fmh_gpib_pci", "cbi_quancom"}
=============================================================================
