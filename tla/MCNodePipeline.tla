--------------------------- MODULE MCNodePipeline ---------------------------
(* Nodes for NodePipeline: one as it was sold, and what becomes of it.     *)
EXTENDS NodePipeline, TLC

\* A report that says just what a SKU asks for.
Built(sku) ==
  [fw |-> [line \in sku.fw |-> 1],
   cpu |-> sku.cpu,
   mem |-> [total |-> sku.mem.total,
            modules |-> [i \in 1 .. sku.mem.count |->
                          [type |-> sku.mem.type, maker |-> "Samsung", size |-> sku.mem.size,
                           speed |-> sku.mem.speed, configured |-> sku.mem.configured]]],
   gpus |-> [count |-> sku.gpu.count, listed |-> {[model |-> sku.gpu.model, vbios |-> 1]}],
   nvswitch |-> IF sku.gpu.switches THEN {1} ELSE {},
   ports |-> sku.nic.ports, parts |-> sku.nic.parts,
   nvme |-> [i \in DOMAIN sku.disks.nvme |->
              LET m == CHOOSE m \in sku.disks.nvme[i].models : TRUE
              IN [size |-> sku.disks.nvme[i].size, model |-> m[1], fw |-> m[2]]],
   sd |-> sku.disks.sd]

Without(info, i) == [info EXCEPT !.nvme = [j \in DOMAIN @ \ {i} |-> @[j]]]

H200 == Built(H200SkuSpec.skus[3])
Storage == Built(StorageSkuSpec.skus[2])

\* A GPU node as sold; with a data disk lost; a storage node whose shelf of disks is lost, which is
\* the hardware of another SKU.
MCHardware ==
  ("h200" :> [category |-> "h200", info |-> H200])
    @@ ("h200less" :> [category |-> "h200", info |-> Without(H200, 4)])
    @@ ("shelfless" :> [category |-> "storage",
                        info |-> [Storage EXCEPT !.nvme = [i \in {0} |-> @[0]]]])

Families == {H200SkuSpec, CtrlSkuSpec, CpuSkuSpec, B300SkuSpec, StorageSkuSpec}

\* A node that reports just what a SKU asks for is that SKU, and none when a port changes its
\* state; of the nodes with memory and disks as sold the fuzzy match names the SKU, but for the H200.
ASSUME SkusMatch ==
  \A spec \in Families : \A i \in DOMAIN spec.skus :
    LET info == Built(spec.skus[i]) IN
    /\ Match(info, spec) = spec.skus[i].name
    /\ FuzzyMatch(info, spec) = i \/ spec = H200SkuSpec
    /\ \A p \in DOMAIN info.ports :
         Match([info EXCEPT !.ports[p].state = "Down"], spec) = "match failed"

\* What is left of a storage node without its shelf of disks is a SKU, another one.
ASSUME LostShelf == SkuOf["shelfless"] = "128c2-960g1"
=============================================================================
