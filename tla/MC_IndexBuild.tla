--------------------------- MODULE MC_IndexBuild ---------------------------
(***************************************************************************)
(* Model-checking instance of IndexBuild.  The leaf lists stand for what   *)
(* the leaf emitter hands over: per inode an inode leaf, a data leaf and   *)
(* two dentries whose keys collide (same parent, same name hash), named so *)
(* that one tie is broken by a differing byte and the next by a proper     *)
(* prefix.  They arrive in reverse order, so the sort has work to do.      *)
(***************************************************************************)
EXTENDS IndexBuild

MC_LeafOf(k) ==
  LET g == k \div 4
      r == k % 4
      key  == CASE r = 0 -> <<64 + g, 0, 0>>
                [] r = 1 -> <<64 + g, 1, 0>>
                [] OTHER -> <<64 + g, 2, 5>>
      name == CASE r = 2 /\ g % 2 = 1 -> <<97>>
                [] r = 3 /\ g % 2 = 1 -> <<97, 98>>
                [] r = 2 -> <<98, 1>>
                [] r = 3 -> <<99>>
                [] OTHER -> <<>>
  IN [key |-> key, name |-> name, lnum |-> 10 + k \div 16,
      offs |-> (k % 16) * 960, len |-> 160 + r, hash |-> <<"leaf", k>>]

MC_LeafList(n) == [m \in 1..n |-> MC_LeafOf(n + 1 - m)]

CONSTANT LeafCounts  \* numbers of index leaves, one behaviour each

MC_InitIdxLists == {MC_LeafList(n) : n \in LeafCounts}
=============================================================================
