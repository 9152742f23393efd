------------------------------- MODULE SkuSpec -------------------------------
(***************************************************************************)
(* sku_spec.py: which of the known configurations (SKUs) a node's hardware *)
(* is, from what the node reports about itself.                            *)
(*                                                                         *)
(* A report, info, has                                                     *)
(*   fw        the versions found, by line of dmidecode that has one       *)
(*   cpu, mem  the record of the processors; total size and modules        *)
(*   gpus      their number and what each says of itself; nvswitch: the    *)
(*             versions of the switches                                    *)
(*   ports     the network devices mlx5_0, mlx5_1, ...; parts: their cards *)
(*   nvme, sd  the disks, by name; partitions and virtual media left out   *)
(* Versions are numbered 1, 2, ... in their order among those the code     *)
(* compares with; 0 is older than all of them.                             *)
(***************************************************************************)
EXTENDS Integers, Sequences

-----------------------------------------------------------------------------
(* Firmware: every version found must be new enough.  A line that is not   *)
(* there is not asked for.                                                 *)

CheckFw(info, want) == \A line \in DOMAIN info.fw \cap want : info.fw[line] >= 1

Fw == {"bios", "bmc"}
\* The loop of this one looks at pairs of a number and a line, and finds nothing in them.
FwSuperfusion == {}

-----------------------------------------------------------------------------
(* Processors.                                                             *)

Cpu(model, cores, mhz) ==
  [model |-> model, cores |-> cores, sockets |-> 2, numa |-> 2, mhz |-> mhz]

Cpu48c2  == Cpu("PLATINUM 8558", 48, 4000)
Cpu32c2  == Cpu("EPYC 9354", 32, 3799)
Cpu96c2  == Cpu("EPYC 9654", 96, 3707)
Cpu64c2  == Cpu("Xeon 6767P", 64, 3900)
Cpu28c2  == Cpu("Gold 6330", 28, 3100)
Cpu128c2 == Cpu("Xeon 6980P", 128, 3900)

-----------------------------------------------------------------------------
(* Memory: so many modules of one kind, at least so fast.                  *)

Makers == {"Samsung", "SK Hynix", "Micron Technology"}

Mem(total, count, type, speed, configured, size) ==
  [total |-> total, count |-> count, type |-> type, speed |-> speed,
   configured |-> configured, size |-> size, makers |-> Makers]

Mem128g16 == Mem("2T", 16, "DDR5", 5600, 4800, 128)
Mem64g32  == Mem("2T", 32, "DDR5", 5600, 4400, 64)
Mem64g12  == Mem("770G", 12, "DDR5", 5600, 4800, 64)
Mem64g24  == Mem("1.5T", 24, "DDR5", 5600, 4800, 64)
Mem96g32  == Mem("3T", 32, "DDR5", 6400, 5200, 96)
Mem64g24Ddr4 == Mem("1.5T", 24, "DDR4", 3200, 2933, 64)
Mem64g24Ddr5 ==
  [Mem("1.5T", 24, "DDR5", 5600, 5600, 64) EXCEPT !.makers = @ \cup {"Hynix"}]

CheckMem(info, want) ==
  /\ info.mem.total = want.total
  /\ Len(info.mem.modules) = want.count
  /\ \A i \in DOMAIN info.mem.modules :
       LET m == info.mem.modules[i] IN
       /\ m.type = want.type /\ m.maker \in want.makers /\ m.size = want.size
       /\ m.speed >= want.speed /\ m.configured >= want.configured

-----------------------------------------------------------------------------
(* Accelerators: the number reported, and each of those listed; the        *)
(* switches where they show as devices.                                    *)

NoGpu == [count |-> 0, model |-> "none", switches |-> FALSE]
H200x8 == [count |-> 8, model |-> "H200", switches |-> TRUE]
B300x8 == [count |-> 8, model |-> "B300", switches |-> FALSE]

CheckGpu(info, want) ==
  want.count > 0 =>
    /\ info.gpus.count = want.count
    /\ \A g \in info.gpus.listed : g.model = want.model /\ g.vbios >= 1
    /\ want.switches => \A v \in info.nvswitch : v >= 1

-----------------------------------------------------------------------------
(* Network: exactly these devices, each with its rate, state and layer.    *)

Port(model, fw, rate, layer) ==
  [model |-> model, fw |-> fw, rate |-> rate, state |-> "Active", layer |-> layer]
Unused(model, fw) ==
  [model |-> model, fw |-> fw, rate |-> 40, state |-> "Disabled", layer |-> "Ethernet"]

Nic(ports) == [ports |-> ports, parts |-> <<>>]

\* Firmware of ConnectX-7: 28.39.3560, 28.43.2566, 28.46.3022 and 28.46.3048 are 1 to 4; of
\* ConnectX-6 Dx: 22.37.1014 and 22.43.2566 are 1 and 2.
Ib400g8Rc400g2 ==
  Nic([i \in 0 .. 9 |-> Port("CX7", 1, 400, IF i \in {3, 8} THEN "Ethernet" ELSE "InfiniBand")])
Rc100g1Dev1 == Nic([i \in {0} |-> Port("CX6Dx", 1, 100, "Ethernet")])
Rc100g1Dev2 ==
  Nic([i \in 0 .. 1 |-> IF i = 0 THEN Port("CX6Dx", 2, 100, "Ethernet") ELSE Unused("CX6Dx", 2)])
Rc400g1 == Nic([i \in {0} |-> Port("CX7", 1, 400, "Ethernet")])
Ib400g16Rc400g2 ==
  Nic([i \in 0 .. 21 |->
        IF i \in {4, 17} THEN Port("CX7", 1, 400, "Ethernet")
        ELSE IF i \in 11 .. 14 THEN Port("CX7", 3, 100, "InfiniBand")
        ELSE Port("CX8", 1, 400, "InfiniBand")])
StorageRc400g1 ==
  Nic([i \in 0 .. 4 |-> IF i \in {0, 1} THEN Unused("CX6Lx", 1)
                        ELSE IF i \in {2, 3} THEN Unused("CX4Lx", 1)
                        ELSE Port("CX7", 2, 400, "Ethernet")])
StorageRc400g4 ==
  [ports |-> [i \in 0 .. 3 |-> Port("CX7", 4, 400, "Ethernet")],
   parts |-> <<[part |-> "AAC-NEAT", count |-> 3], [part |-> "AAS-NEAT", count |-> 1]>>]

CheckNic(info, want) ==
  /\ DOMAIN info.ports = DOMAIN want.ports
  /\ \A i \in DOMAIN want.ports :
       LET p == info.ports[i]
           w == want.ports[i]
       IN /\ p.model = w.model /\ p.fw >= w.fw
          /\ p.rate = w.rate /\ p.state = w.state /\ p.layer = w.layer
  /\ want.parts # <<>> => info.parts = want.parts

-----------------------------------------------------------------------------
(* Disks: in each place of a size, and of one of some models with its      *)
(* oldest firmware; no place empty, no disk in no place.                   *)

Place(size, models) == [size |-> size, models |-> models]
Disks(osDisks, os, dataDisks, data) ==
  [nvme |-> [i \in 0 .. (osDisks + dataDisks - 1) |-> IF i < osDisks THEN os ELSE data],
   sd |-> [d \in {} |-> 0]]
\* The system on a SATA disk.
WithSda(dataDisks, data) ==
  [nvme |-> [i \in 0 .. (dataDisks - 1) |-> data],
   sd |-> [d \in {"sda"} |-> [size |-> "894.2G", rotational |-> 0]]]

Data3t == Place("3t", {<<"MZQL23T8HCLS-A07", 1>>, <<"MZQL23T8HCLS-B7C", 1>>, <<"SSDPF2KX038T1", 1>>})
Os960g == Place("960g", {<<"MZ1L2960HCJR-A07", 1>>})
\* Firmware of MZ1L23T8HBLA: GDC7202Q is 1, GDC7302Q 2; of SB5PH27X153T: G70YG100 is 1, G70YG150 2;
\* of MZQL27T6HBLA: GDC58C2Q is 1, GDC59C2Q 2.
Disks3t2And15t16 ==
  Disks(2, Place("3t", {<<"MZ1L23T8HBLA", 1>>, <<"MTFDKBG3T8TFR", 1>>}),
        16, Place("15t", {<<"SB5PH27X153T", 1>>, <<"SB5PH27X153TOP", 1>>}))
Disks3t2And15t1 ==
  Disks(2, Place("3t", {<<"MZ1L23T8HBLA", 2>>, <<"MTFDKBG3T8TFR", 1>>}),
        1, Place("15t", {<<"SB5PH27X153T", 1>>}))
Disks960g1And3t4 ==
  Disks(1, Place("960g", {<<"MZQL2960HCJR-A07", 1>>, <<"MZQL2960HCJR-B7C", 1>>,
                          <<"MZQL2960HCJR-BAL", 1>>, <<"SSDPF2KX960HZ", 1>>}),
        4, Data3t)
CtrlData == Place("7t", {<<"MZQL27T6HBLA", 2>>})
CtrlOs == Place("960g", {<<"MZQL2960HCJR-B7C", 1>>})
Disks960g1And7t2 == WithSda(2, Place("7t", {<<"SB5PH27X076T", 1>>}))
Disks960g2And7t2 == Disks(2, CtrlOs, 2, CtrlData)
Disks960g2And7t8 == Disks(2, CtrlOs, 8, CtrlData)
Disks3t1And7t1 == Disks(1, Data3t, 1, Place("7t", {<<"MZQL27T6HBLA", 1>>}))
Disks3t1And3t1 == LET p == Place("3t", {<<"MZ1L23T8HBLA", 1>>}) IN Disks(1, p, 1, p)
Disks480g1And7t8 == WithSda(8, Place("7t", {<<"SSDPF2KX076T1", 1>>}))
Disks960g1And3t20 == Disks(1, Os960g, 20, Data3t)
Disks960g1And15t20 ==
  Disks(1, Os960g, 20, Place("15t", {<<"MZWL615THBLF", 1>>, <<"SB5PH27X153T", 2>>, <<"YMES3XJ17H18SE", 1>>}))
Disks960g1 == Disks(1, Os960g, 0, Os960g)

Accepts(place, disk) ==
  /\ disk.size = place.size
  /\ \E m \in place.models : disk.model = m[1] /\ disk.fw >= m[2]

CheckDisks(info, want) ==
  /\ DOMAIN info.nvme = DOMAIN want.nvme
  /\ \A i \in DOMAIN want.nvme : Accepts(want.nvme[i], info.nvme[i])
  /\ info.sd = want.sd

-----------------------------------------------------------------------------
(* The SKUs of a family, in the order they are tried, and the memory and   *)
(* the disks its fuzzy match holds for them.                               *)

Sku(name, fw, cpu, mem, gpu, nic, disks) ==
  [name |-> name, fw |-> fw, cpu |-> cpu, mem |-> mem, gpu |-> gpu, nic |-> nic, disks |-> disks]

H200SkuSpec ==
  LET H200(name, mem, disks) == Sku(name, Fw, Cpu48c2, mem, H200x8, Ib400g8Rc400g2, disks) IN
  [skus |-> <<H200("128g16-3t2-15t16", Mem128g16, Disks3t2And15t16),
              H200("128g16-3t2-15t1", Mem128g16, Disks3t2And15t1),
              H200("128g16-960g1-3t4", Mem128g16, Disks960g1And3t4),
              H200("64g32-960g1-3t4", Mem64g32, Disks960g1And3t4)>>,
   fuzzy |-> <<<<Mem128g16, Disks3t2And15t16>>, <<Mem128g16, Disks3t2And15t1>>,
               <<Mem64g32, Disks960g1And3t4>>>>]

Fuzzy(skus) == [i \in DOMAIN skus |-> <<skus[i].mem, skus[i].disks>>]

CtrlSkuSpec ==
  LET Ctrl(name, nic, disks) == Sku(name, Fw, Cpu32c2, Mem64g12, NoGpu, nic, disks)
      skus == <<Ctrl("960g1-7t2", Rc100g1Dev2, Disks960g1And7t2),
                Ctrl("960g2-7t2", Rc100g1Dev2, Disks960g2And7t2),
                Ctrl("960g2-7t8", Rc100g1Dev1, Disks960g2And7t8)>>
  IN [skus |-> skus, fuzzy |-> Fuzzy(skus)]

CpuSkuSpec ==
  LET skus == <<Sku("96c2", Fw, Cpu96c2, Mem64g24, NoGpu, Rc400g1, Disks3t1And7t1)>>
  IN [skus |-> skus, fuzzy |-> Fuzzy(skus)]

B300SkuSpec ==
  LET skus == <<Sku("64c2", Fw, Cpu64c2, Mem96g32, B300x8, Ib400g16Rc400g2, Disks3t1And3t1)>>
  IN [skus |-> skus, fuzzy |-> Fuzzy(skus)]

StorageSkuSpec ==
  LET New(name, disks) == Sku(name, Fw, Cpu128c2, Mem64g24Ddr5, NoGpu, StorageRc400g4, disks)
      skus == <<Sku("28c2-480g1-7t8", FwSuperfusion, Cpu28c2, Mem64g24Ddr4, NoGpu, StorageRc400g1,
                    Disks480g1And7t8),
                New("128c2-960g1-3t20", Disks960g1And3t20),
                New("128c2-960g1-15t20", Disks960g1And15t20),
                New("128c2-960g1", Disks960g1)>>
  IN [skus |-> skus, fuzzy |-> Fuzzy(skus)]

\* gen_sku*.py, one for each category.
SpecOf(category) ==
  CASE category = "h200"    -> H200SkuSpec
    [] category = "b300"    -> B300SkuSpec
    [] category = "ctrl"    -> CtrlSkuSpec
    [] category = "cpu"     -> CpuSkuSpec
    [] category = "storage" -> StorageSkuSpec

-----------------------------------------------------------------------------
(* check and match.                                                        *)

Check(info, sku) ==
  /\ CheckFw(info, sku.fw) /\ info.cpu = sku.cpu /\ CheckMem(info, sku.mem)
  /\ CheckGpu(info, sku.gpu) /\ CheckNic(info, sku.nic) /\ CheckDisks(info, sku.disks)

First(S) == CHOOSE i \in S : \A j \in S : i <= j

\* The first SKU whose check succeeds.
Match(info, spec) ==
  LET passing == {i \in DOMAIN spec.skus : Check(info, spec.skus[i])}
  IN IF passing = {} THEN "match failed" ELSE spec.skus[First(passing)].name

\* Reading past the end of the table counts as a check that failed.
Distance(info, spec, i) ==
  IF i \notin DOMAIN spec.fuzzy THEN 2
  ELSE (IF CheckMem(info, spec.fuzzy[i][1]) THEN 0 ELSE 1)
         + (IF CheckDisks(info, spec.fuzzy[i][2]) THEN 0 ELSE 1)

\* The SKU named when none matches: the first that is nearest in memory and disks.
FuzzyMatch(info, spec) ==
  First({i \in DOMAIN spec.skus :
           \A j \in DOMAIN spec.skus : Distance(info, spec, i) <= Distance(info, spec, j)})
=============================================================================
