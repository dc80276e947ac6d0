---------------------------- MODULE DriverTables ----------------------------
(***************************************************************************)
(* What the attach functions of the PCI, ISA, PCMCIA, platform and GPIO    *)
(* board drivers acquire, in which order, and what their detach functions  *)
(* give back, under which tests.  Module BoardAttach executes the tables.  *)
(*                                                                         *)
(* A resource is a memory block, a region, a mapping, a handler, ...; a    *)
(* mark is a field of the driver's structures that is set, and by which    *)
(* detach decides what there is to release.  Which of a resource and its   *)
(* field comes first, and whether detach tests the same field, is the      *)
(* point.  Register contents, firmware and device tables are left out, and *)
(* so is pci_enable_device, which no driver but ni_pci ever undoes.        *)
(***************************************************************************)
EXTENDS Sequences, Naturals

(* A step of attach: it acquires get and sets mark.  It is not tried       *)
(* unless the marks in when are set, and fails if one of absent is.  It    *)
(* accesses the registers behind need, and gives back drop.  When it       *)
(* fails, "error" ends attach and "skip" does not; an error undoes undo,   *)
(* and sets leaves.                                                        *)
Step == [get |-> {}, mark |-> {}, when |-> {}, absent |-> {}, need |-> {},
         drop |-> {}, fail |-> {}, undo |-> {}, leaves |-> {}]
Get(r, fields) == [Step EXCEPT !.get = {r}, !.mark = fields, !.fail = {"error"}]
\* The code goes on without it.
Try(r, fields) == [Get(r, fields) EXCEPT !.fail = {"skip"}]
\* Depends on the configuration.
Option(r, fields) == [Get(r, fields) EXCEPT !.fail = {"error", "skip"}]
Check == [Step EXCEPT !.fail = {"error"}]
Use(registers) == [Step EXCEPT !.need = registers]
EnableBridge(registers) == [Use(registers) EXCEPT !.get = {"bridge_intr"}]
PseudoIrq == [Step EXCEPT !.get = {"pseudo_irq"}]
Private == Get("private", {"private_data"})

(* A step of detach: if these marks are set, access need, release free and *)
(* clear marks that live longer than the driver's private data.            *)
Release(fields, resources) ==
  [if |-> fields, need |-> {}, free |-> resources, clear |-> {}]
Put(field, resource) == Release({field}, {resource})
Reset(field, registers) == [Release({field}, {}) EXCEPT !.need = registers]
DisableBridge(field, registers) == [Reset(field, registers) EXCEPT !.free = {"bridge_intr"}]
FreePseudoIrq == Put("private_data", "pseudo_irq")
FreePrivate == Put("private_data", "private")

-----------------------------------------------------------------------------
(* National Instruments.  The mite structure belongs to the PCI device and *)
(* not to the board: its marks are static.                                 *)

\* Look for a mite that is not in use.
FindMite == [Check EXCEPT !.absent = {"used"}, !.mark = {"mite"}]
MiteSetup ==
  << Check, Get("regions", {"mite_phys_addr"}), Get("mite_io", {"mite_io_addr"}),
     Get("daq", {"daq_io_addr"}),
     [Use({"mite_io"}) EXCEPT !.mark = {"used", "mmiobase"}] >>
MiteUnsetup ==
  << [Release({"mite", "mite_io_addr"}, {"mite_io"}) EXCEPT !.clear = {"mite_io_addr"}],
     [Release({"mite", "daq_io_addr"}, {"daq"}) EXCEPT !.clear = {"daq_io_addr"}],
     [Release({"mite", "mite_phys_addr"}, {"regions"}) EXCEPT !.clear = {"mite_phys_addr"}],
     [Release({"mite"}, {}) EXCEPT !.clear = {"used"}] >>
NiPciAttach ==
  <<Private, FindMite>> \o MiteSetup \o <<Get("irq", {"irq"}), Use({"daq"})>>
NiPciDetach ==
  <<Reset("mmiobase", {"daq"}), Put("irq", "irq")>> \o MiteUnsetup \o <<FreePrivate>>

\* The region is noted in no field.
NiIsaAttach ==
  << Private, Option("pnp", {"pnp_dev"}), Get("region", {}), Get("map", {"mmiobase"}),
     Get("irq", {"irq"}), Use({"region", "map"}) >>
NiIsaDetach ==
  << Reset("iobase", {"region", "map"}), Put("irq", "irq"), Put("mmiobase", "map"),
     Put("iobase", "region"), Put("pnp_dev", "pnp"), FreePrivate >>
NiPcmciaAttach ==
  << Check, Private, Get("region", {}), Get("map", {"mmiobase"}), Get("irq", {"irq"}),
     Use({"region", "map"}) >>
NiPcmciaDetach ==
  << Put("irq", "irq"), Put("mmiobase", "map"), Reset("iobase", {"region", "map"}),
     Put("iobase", "region"), FreePrivate >>

-----------------------------------------------------------------------------
(* Agilent 82350A and B.  ioremap is not checked.                          *)

\* Firmware is loaded if the chip has none and there is some; its bytes go to the
\* chip when it is ready.
LoadFirmware ==
  << [Check EXCEPT !.need = {"borg"}],
     [Use({"plx"}) EXCEPT !.mark = {"loading"}, !.fail = {"skip"}],
     [Check EXCEPT !.when = {"loading"}],
     [Use({"gpib"}) EXCEPT !.when = {"loading"}, !.fail = {"error"}] >>
AgilentMaps(model) ==
  IF model = "82350a"
  THEN << Try("plx", {"plx_base"}), Try("gpib", {"gpib_base"}), Try("sram", {"sram_base"}),
          Try("borg", {"borg_base"}) >> \o LoadFirmware
  ELSE <<Try("gpib", {"gpib_base"}), Try("sram", {"sram_base"}), Try("misc", {"misc_base"})>>
AgilentAttach(model) ==
  <<Private, Get("pci_dev", {"pci_device"}), Check, Get("regions", {})>> \o AgilentMaps(model) \o
  << [Check EXCEPT !.need = {"sram"}], Get("irq", {"irq"}), Use({"gpib"}) >> \o
  IF model = "82350a" THEN <<EnableBridge({"plx"})>> ELSE <<>>
AgilentDetach ==
  << DisableBridge("plx_base", {"plx"}), Put("irq", "irq"), Reset("gpib_base", {"gpib"}),
     Release({"gpib_base", "misc_base"}, {"misc"}), Release({"gpib_base", "borg_base"}, {"borg"}),
     Release({"gpib_base", "sram_base"}, {"sram"}), Put("gpib_base", "gpib"),
     Release({"gpib_base", "plx_base"}, {"plx"}), Put("gpib_base", "regions"),
     Put("pci_device", "pci_dev"), FreePrivate >>

-----------------------------------------------------------------------------
(* Measurement Computing cb7210.  amcc_iobase is 0 for the Quancom board:  *)
(* detach writes to a port that is not the board's.                        *)

Cb7210Init == <<Use({"region"}), PseudoIrq>>
CbPciAttach(chip) ==
  << Private, Get("pci_dev", {"pci_device"}), Check, Get("region", {"iobase"}),
     Get("irq", {"irq"}) >> \o
  (IF chip = "amcc" THEN <<EnableBridge({"region"})>> ELSE <<>>) \o Cb7210Init
CbPciDetach(chip) ==
  << FreePseudoIrq, DisableBridge("irq", IF chip = "amcc" THEN {"region"} ELSE {"port 0x38"}),
     Put("irq", "irq"), Reset("iobase", {"region"}), Put("iobase", "region"),
     Put("pci_device", "pci_dev"), FreePrivate >>
CbIsaAttach == <<Private, Get("region", {"iobase"}), Get("irq", {"irq"})>> \o Cb7210Init
CbIsaDetach ==
  << FreePseudoIrq, Put("irq", "irq"), Reset("iobase", {"region"}),
     Put("iobase", "region"), FreePrivate >>
CbPcmciaAttach == <<Check>> \o CbIsaAttach
CbPcmciaDetach == CbIsaDetach

-----------------------------------------------------------------------------
(* Capital Equipment Corporation.                                          *)

CecPciAttach ==
  << Private, Get("pci_dev", {"pci_device"}), Check, Get("region", {"iobase"}),
     Get("irq", {"irq"}), PseudoIrq, Use({"region"}), EnableBridge({"region"}) >>
CecPciDetach ==
  << FreePseudoIrq, DisableBridge("irq", {"region"}), Put("irq", "irq"),
     Reset("iobase", {"region"}), Put("iobase", "region"), Put("pci_device", "pci_dev"),
     FreePrivate >>

-----------------------------------------------------------------------------
(* Fluke (eastwood) and the fmh_gpib_core.  Fluke never undoes its         *)
(* mappings; fmh_gpib never drops the reference of driver_find_device.     *)

FlukeAttach ==
  << Check, Private, Get("dma_buffer", {"dma_buffer"}), Get("region", {"gpib_iomem_res"}),
     Get("map", {"mmiobase"}), Get("dma_port", {"dma_port_res"}),
     Get("counter", {"write_transfer_counter_res"}),
     Get("counter_map", {"write_transfer_counter"}), Get("irq", {"irq"}),
     Try("dma_channel", {"dma_channel"}), Use({"region", "map"}), PseudoIrq,
     Use({"region", "map"}) >>
FlukeDetach ==
  << Put("dma_channel", "dma_channel"), FreePseudoIrq, Reset("mmiobase", {"region", "map"}),
     Put("irq", "irq"), Put("write_transfer_counter_res", "counter"),
     Put("dma_port_res", "dma_port"), Put("gpib_iomem_res", "region"),
     Put("private_data", "dma_buffer"), FreePrivate >>

\* driver data of the device marks it as in use.
FmhAttach ==
  << [Get("device", {"dev"}) EXCEPT !.absent = {"drvdata"}], [Step EXCEPT !.mark = {"drvdata"}],
     Private, Get("dma_buffer", {"dma_buffer"}), Get("region", {"gpib_iomem_res"}),
     Get("map", {"mmiobase"}), Get("dma_port", {"dma_port_res"}), Get("fifo", {"fifo_base"}),
     Get("irq", {"irq"}), Option("dma_channel", {"dma_channel"}),
     Use({"region", "map", "dma_port", "fifo"}) >>
FmhDetach ==
  << Put("dma_channel", "dma_channel"), Put("irq", "irq"), Reset("fifo_base", {"fifo"}),
     Reset("mmiobase", {"region", "map"}), Put("fifo_base", "fifo"), Put("mmiobase", "map"),
     Put("dma_port_res", "dma_port"), Put("gpib_iomem_res", "region"),
     Put("private_data", "dma_buffer"), FreePrivate,
     [Release({"dev"}, {}) EXCEPT !.clear = {"drvdata"}] >>
FmhPciAttach ==
  << Private, Get("dma_buffer", {"dma_buffer"}), Get("pci_dev", {"dev"}), Check,
     Get("region", {"gpib_iomem_res", "dma_port_res"}), Try("map", {"mmiobase"}),
     Try("fifo", {"fifo_base"}), Option("irq", {"irq"}), Use({"region", "map"}), Check >>
FmhPciDetach ==
  << Put("irq", "irq"), Reset("fifo_base", {"fifo"}), Reset("mmiobase", {"region", "map"}),
     Put("fifo_base", "fifo"), Put("mmiobase", "map"), Put("gpib_iomem_res", "region"),
     Release({"private_data", "dev"}, {"pci_dev"}), Put("private_data", "dma_buffer"),
     FreePrivate >>

-----------------------------------------------------------------------------
(* GPIO lines.  The descriptors are a static array, put back by any board  *)
(* that fails or detaches.  Interrupts stay disabled until the board is in *)
(* use.  A line without an interrupt leaves a negative number in its field.*)

BbGetIrq(irq) == [Get(irq, {irq}) EXCEPT !.undo = {"gpios"}]
BbNoIrq(irq) == [Check EXCEPT !.undo = {"gpios"}, !.leaves = {irq}]
BbIrqs == <<"irq_DAV", "irq_NRFD", "irq_NDAC", "irq_SRQ">>
BbAttach ==
  << Private, Check, [Get("gpios", {"gpios"}) EXCEPT !.undo = {"gpios"}],
     Use({"gpios"}) >> \o
  [i \in 1 .. 8 |-> IF i % 2 = 1 THEN BbNoIrq(BbIrqs[(i + 1) \div 2])
                                 ELSE BbGetIrq(BbIrqs[i \div 2])]
BbDetach ==
  [i \in 1 .. 4 |-> Put(BbIrqs[i], BbIrqs[i])] \o
  << [Release({"private_data", "gpios"}, {"gpios"}) EXCEPT !.clear = {"gpios"}], FreePrivate >>

-----------------------------------------------------------------------------
(* Hewlett Packard 82335 and 82341 C and D.                                *)

Hp82335Attach ==
  << Private, Check, Get("region", {"raw_iobase"}), Try("map", {"mmiobase"}),
     Get("irq", {"irq"}), Use({"region", "map"}) >>
Hp82335Detach ==
  << Put("irq", "irq"), Reset("mmiobase", {"region", "map"}), Put("mmiobase", "map"),
     Put("raw_iobase", "region"), FreePrivate >>

HpRegions == <<"region0", "region1", "region2", "region3">>
\* The PnP configuration is a mutex of the kernel's.  It stays locked when
\* clear_xilinx is interrupted.
Hp82341Attach(version) ==
  <<Private>> \o (IF version = "d" THEN <<Get("pnp", {"pnp_dev"})>> ELSE <<>>) \o
  [i \in 1 .. 4 |-> Get(HpRegions[i], {HpRegions[i]} \cup IF i = 4 THEN {"tms_iobase"} ELSE {})] \o
  (IF version = "d"
   THEN <<Check, Get("isapnp_cfg", {}), Check, [Step EXCEPT !.drop = {"isapnp_cfg"}]>>
   ELSE <<Check>>) \o
  <<Check, Get("irq", {"irq"}), Use({"region0", "region2"})>>
Hp82341Detach ==
  << Reset("region0", {"region0"}), Reset("tms_iobase", {"region2"}),
     Release({"region0", "irq"}, {"irq"}) >> \o
  [i \in 1 .. 4 |-> Put(HpRegions[i], HpRegions[i])] \o <<Put("pnp_dev", "pnp"), FreePrivate>>

-----------------------------------------------------------------------------
(* Ines.  detach tests for the wrong chip, so that only Quancom's          *)
(* interrupts are disabled.                                                *)

InesPciAttach(chip) ==
  << Private, Get("pci_dev", {"pci_device"}), Check, Get("region", {"iobase"}),
     Use({"region"}), Get("irq", {"irq"}),
     IF chip = "quicklogic" THEN Step ELSE EnableBridge({"region"}), Use({"region"}) >>
InesPciDetach(chip) ==
  << IF chip = "quancom" THEN DisableBridge("irq", {"region"}) ELSE Release({"irq"}, {}),
     Put("irq", "irq"), Reset("iobase", {"region"}), Put("iobase", "region"),
     Put("pci_device", "pci_dev"), FreePrivate >>
InesIsaAttach ==
  << Private, Get("region", {"iobase"}), Use({"region"}), Get("irq", {"irq"}),
     Use({"region"}) >>
InesIsaDetach ==
  << Put("irq", "irq"), Reset("iobase", {"region"}), Put("iobase", "region"), FreePrivate >>
InesPcmciaAttach == <<Check>> \o InesIsaAttach
InesPcmciaDetach == InesIsaDetach

-----------------------------------------------------------------------------
(* PC2 and PC2A, without interrupt when none is configured.  DMA is        *)
(* compiled out.                                                           *)

Pc2Attach ==
  << Private, Get("region", {"iobase"}), Use({"region"}), Option("irq", {"irq"}),
     PseudoIrq, Use({"region"}) >>
Pc2Detach ==
  << FreePseudoIrq, Put("irq", "irq"), Reset("iobase", {"region"}), Put("iobase", "region"),
     FreePrivate >>
Pc2aAttach ==
  << Private, Check, Get("region", {"iobase"}), Option("clear_region", {"clear_intr_addr"}),
     [Get("irq", {"irq"}) EXCEPT !.when = {"clear_intr_addr"}], PseudoIrq, Use({"region"}) >>
Pc2aDetach ==
  << FreePseudoIrq, Put("irq", "irq"), Reset("iobase", {"region"}), Put("iobase", "region"),
     Put("clear_intr_addr", "clear_region"), FreePrivate >>

-----------------------------------------------------------------------------
(* A driver: its tables, and what its interrupt handler accesses.          *)
Table(attach, detach, handler) ==
  [attach |-> attach, detach |-> detach, handler |-> {"private"} \cup handler]

Tables ==
  [ ni_pci |-> Table(NiPciAttach, NiPciDetach, {"daq"}),
    ni_isa |-> Table(NiIsaAttach, NiIsaDetach, {"region", "map"}),
    ni_pcmcia |-> Table(NiPcmciaAttach, NiPcmciaDetach, {"region", "map"}),
    agilent_82350a |-> Table(AgilentAttach("82350a"), AgilentDetach, {"gpib"}),
    agilent_82350b |-> Table(AgilentAttach("82350b"), AgilentDetach, {"gpib"}),
    cbi_pci |-> Table(CbPciAttach("amcc"), CbPciDetach("amcc"), {"region"}),
    cbi_quancom |-> Table(CbPciAttach("quancom"), CbPciDetach("quancom"), {"region"}),
    cbi_isa |-> Table(CbIsaAttach, CbIsaDetach, {"region"}),
    cbi_pcmcia |-> Table(CbPcmciaAttach, CbPcmciaDetach, {"region"}),
    cec_pci |-> Table(CecPciAttach, CecPciDetach, {"region"}),
    fluke |-> Table(FlukeAttach, FlukeDetach, {"region", "map"}),
    fmh_gpib |-> Table(FmhAttach, FmhDetach, {"region", "map", "fifo"}),
    fmh_gpib_pci |-> Table(FmhPciAttach, FmhPciDetach, {"region", "map"}),
    gpib_bitbang |-> Table(BbAttach, BbDetach, {}),
    hp82335 |-> Table(Hp82335Attach, Hp82335Detach, {"region", "map"}),
    hp_82341c |-> Table(Hp82341Attach("c"), Hp82341Detach, {"region0", "region2"}),
    hp_82341d |-> Table(Hp82341Attach("d"), Hp82341Detach, {"region0", "region2"}),
    ines_plx |-> Table(InesPciAttach("plx"), InesPciDetach("plx"), {"region"}),
    ines_amcc |-> Table(InesPciAttach("amcc"), InesPciDetach("amcc"), {"region"}),
    ines_quancom |-> Table(InesPciAttach("quancom"), InesPciDetach("quancom"), {"region"}),
    ines_quicklogic |-> Table(InesPciAttach("quicklogic"), InesPciDetach("quicklogic"), {"region"}),
    ines_isa |-> Table(InesIsaAttach, InesIsaDetach, {"region"}),
    ines_pcmcia |-> Table(InesPcmciaAttach, InesPcmciaDetach, {"region"}),
    pcII |-> Table(Pc2Attach, Pc2Detach, {"region"}),
    pcIIa |-> Table(Pc2aAttach, Pc2aDetach, {"region"}) ]
=============================================================================
