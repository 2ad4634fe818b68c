------------------------------ MODULE MCFrogDict ------------------------------
(* Float keys: both zeros are one key, NaN is none, and `other` collides    *)
(* with them; two dicts, so that one can be copied from the other.         *)
EXTENDS FrogDict, TLC

CONSTANTS d1, d2, pz, nz, other, nan

FloatKeys == {pz, nz, other, nan}
FloatSame == ({pz, nz} \X {pz, nz}) \cup {<<other, other>>}
Colliding == [k \in FloatKeys |-> IF k = nan THEN 1 ELSE 0]

RefSymmetry == Permutations(Ref)
=============================================================================
