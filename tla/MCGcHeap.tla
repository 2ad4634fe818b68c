------------------------------ MODULE MCGcHeap ------------------------------
(* Small heaps: one with room for chains, cycles and sharing between        *)
(* one-slot objects, one with fewer blocks and every layout and tag.       *)
EXTENDS GcHeap, TLC

Layout(kind, stride, mask) == [kind |-> kind, stride |-> stride, mask |-> mask]

(* One-slot boxes: chains, cycles and sharing over three blocks. *)
GraphShapes == {Layout("Variant", 1, {1})}
GraphTags == {0, 7}

(* A string, a list of pointers, a dict from pointers to raw integers. *)
LayoutShapes ==
  {Layout("Str", 1, {}), Layout("List", 1, {1}), Layout("Dict", 2, {1})}
LayoutTags == {0}

BlockSymmetry == Permutations(Addr)
=============================================================================
