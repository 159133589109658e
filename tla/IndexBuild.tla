----------------------------- MODULE IndexBuild -----------------------------
(***************************************************************************)
(* write_index of mkfs.ubifs (src/ubifs-utils/mkfs.ubifs/mkfs.ubifs.c):    *)
(* sort the index leaf list, write level-0 index nodes fanout leaves at a  *)
(* time through the write head, then build every higher level from the one *)
(* below until a single root remains.  A branch of a higher level is not   *)
(* taken from where its child was written: the builder replays the write   *)
(* head on a shadow position (blnum, boffs) and the child's hash is read   *)
(* back from a buffer that the level being built overwrites in place.      *)
(* One step of this module is one index node written (one iteration of     *)
(* the C loops), or the loop head, or the final flush.                     *)
(***************************************************************************)
EXTENDS Integers, Sequences, FiniteSets, TLC, SequencesExt

CONSTANTS
  LebSize, MinIoSize, MainFirst, MainLebs,
  Fanout,        \* c->fanout
  KeyLen,        \* c->key_len, UBIFS_SK_LEN = 8
  HashLen,       \* c->hash_len: 0, or the digest size of an authenticated image
  IdxFirstLnum,  \* head_lnum when write_index starts (after the GC LEB)
  InitIdxLists,  \* index leaf lists the leaf emitter can hand over
  MaxLevel       \* bound on the index levels, to cap a runaway while loop

WH == INSTANCE WriteHead

VARIABLES
  wh,            \* write head, ledger and sink (WriteHead record)
  idx_list,      \* the index leaf list, in emission order
  phase,         \* "start", "level0", "levels", "upper", "done", "error"
  idx_ptr,       \* the sorted array of leaf pointers
  cnt, bcnt, child_cnt, level, pstep, p, i,
  blnum, boffs, blast_len,
  hashes,        \* per-row hash buffer, overwritten in place
  written,       \* index nodes in the order add_idx_node wrote them
  zroot, old_idx_sz, ihead, root_idx_hash

vars == <<wh, idx_list, phase, idx_ptr, cnt, bcnt, child_cnt, level, pstep,
          p, i, blnum, boffs, blast_len, hashes, written, zroot, old_idx_sz,
          ihead, root_idx_hash>>

Align(x, a) == WH!Align(x, a)
MinOf(a, b) == IF a < b THEN a ELSE b

-----------------------------------------------------------------------------
(* On-flash sizes and key order, from the UBIFS headers (not under src/).  *)

UBIFS_IDX_NODE_SZ == 28
UBIFS_BRANCH_SZ == 12

(* validate_options: the fanout bounds a command line must pass.  The      *)
(* largest index node is sized with the longest key and no hash at all.    *)
UBIFS_MIN_FANOUT == 3
UBIFS_MAX_KEY_LEN == 16
validate_fanout ==
  /\ Fanout >= UBIFS_MIN_FANOUT
  /\ Fanout <= (LebSize - UBIFS_IDX_NODE_SZ) \div
                (UBIFS_BRANCH_SZ + UBIFS_MAX_KEY_LEN)

ASSUME validate_fanout

ubifs_idx_node_sz(child) == UBIFS_IDX_NODE_SZ
                             + (UBIFS_BRANCH_SZ + KeyLen + HashLen) * child

(* keys_cmp: a key is <<inum, type, hash or block>>, compared as numbers   *)
(* field by field.                                                         *)
keys_cmp(k1, k2) ==
  LET Cmp(x, y) == IF x < y THEN -1 ELSE 1
  IN IF k1[1] # k2[1] THEN Cmp(k1[1], k2[1])
     ELSE IF k1[2] # k2[2] THEN Cmp(k1[2], k2[2])
     ELSE IF k1[3] # k2[3] THEN Cmp(k1[3], k2[3])
     ELSE 0

(* Mutant of namecmp: on a common prefix the longer name comes first.      *)
namecmp_longer_first(e1, e2) ==
  LET len1 == Len(e1.name)
      len2 == Len(e2.name)
      D    == {k \in 1..MinOf(len1, len2) : e1.name[k] # e2.name[k]}
  IN IF D # {}
       THEN LET k == CHOOSE g \in D : \A h \in D : g <= h
            IN IF e1.name[k] < e2.name[k] THEN -1 ELSE 1
       ELSE IF len1 > len2 THEN -1 ELSE 1

(* namecmp: memcmp over the common length, then the shorter name first;    *)
(* two equal names compare as 1, never 0.                                  *)
namecmp(e1, e2) ==
  LET len1 == Len(e1.name)
      len2 == Len(e2.name)
      D    == {k \in 1..MinOf(len1, len2) : e1.name[k] # e2.name[k]}
  IN IF D # {}
       THEN LET k == CHOOSE g \in D : \A h \in D : g <= h
            IN IF e1.name[k] < e2.name[k] THEN -1 ELSE 1
       ELSE IF len1 < len2 THEN -1 ELSE 1

cmp_idx(e1, e2) ==
  IF keys_cmp(e1.key, e2.key) # 0 THEN keys_cmp(e1.key, e2.key)
  ELSE namecmp(e1, e2)

IdxBefore(e1, e2) == cmp_idx(e1, e2) < 0

(* qsort(idx_ptr, cnt, sizeof, cmp_idx): the leaves put in IdxBefore order *)
(* (by rank; for distinct (key, name) pairs the order is total, so this is *)
(* the one permutation any sorting algorithm produces).  The ranks are     *)
(* bound once, so that TLC does not recompute them per position.           *)
SortIdx(s) ==
  LET Rank == [m \in DOMAIN s |->
                 Cardinality({m2 \in DOMAIN s : IdxBefore(s[m2], s[m])})]
      Place(rank) ==
        [k \in DOMAIN s |-> s[CHOOSE m \in DOMAIN s : rank[m] = k - 1]]
  IN CHOOSE t \in {Place(rank) : rank \in {Rank}} : TRUE

-----------------------------------------------------------------------------
(* The index node a branch names: its identity stands for its hash, which  *)
(* ubifs_node_calc_hash computes over the node's distinct contents.        *)
NodeHash(lvl, k) == <<"idx", lvl, k>>

(* Mutant of RowChildCnt: the remainder is used even when it is 0.        *)
RowChildCnt_nofix(k, n, below) ==
  IF k = n - 1 THEN below % Fanout ELSE Fanout

(* Child count of node k of a row of n nodes over bn nodes or leaves       *)
(* below: all full except the last.                                        *)
RowChildCnt(k, n, below) ==
  IF k = n - 1
    THEN IF below % Fanout = 0 THEN Fanout ELSE below % Fanout
    ELSE Fanout

(* The node placed at r is copied, counted in old_idx_sz and becomes      *)
(* zroot; after a reserve_space error (the sink refused the LEB a flush    *)
(* wrote) add_idx_node returns early and none of that happens.             *)
IdxPlaced(r, lvl, k, br, len) ==
  /\ wh' = r.w
  /\ IF r.w.ioerr
       THEN UNCHANGED <<written, old_idx_sz, zroot>>
       ELSE /\ written' = Append(written, [level |-> lvl, i |-> k,
                                           lnum |-> r.lnum, offs |-> r.offs,
                                           len |-> len, br |-> br])
            /\ old_idx_sz' = old_idx_sz + Align(len, 8)
            /\ zroot' = [lnum |-> r.lnum, offs |-> r.offs, len |-> len]

(* add_idx_node: prepare and place the node at the head.                   *)
add_idx_node(lvl, k, br) ==
  IdxPlaced(WH!reserve_space(wh, ubifs_idx_node_sz(Len(br))), lvl, k, br,
            ubifs_idx_node_sz(Len(br)))

(* Mutant of LoopContinues: the loop also runs for a single-node row.      *)
LoopContinues_ge1 == cnt >= 1

(* The loop condition of the upper levels.                                 *)
LoopContinues == cnt > 1

-----------------------------------------------------------------------------
Init ==
  /\ wh = WH!InitHead(IdxFirstLnum)
  /\ idx_list \in InitIdxLists
  /\ phase = "start"
  /\ idx_ptr = <<>>
  /\ cnt = 0 /\ bcnt = 0 /\ child_cnt = 0 /\ level = 0 /\ pstep = 1
  /\ p = 0 /\ i = 0 /\ blnum = 0 /\ boffs = 0 /\ blast_len = 0
  /\ hashes = <<>>
  /\ written = <<>>
  /\ zroot = [lnum |-> 0, offs |-> 0, len |-> 0]
  /\ old_idx_sz = 0
  /\ ihead = [lnum |-> 0, offs |-> 0]
  /\ root_idx_hash = "none"

(* Head of write_index: index flag on the head, sort, size of row 0, the   *)
(* shadow position starts at the head.                                     *)
SortIndex ==
  /\ phase = "start"
  /\ LET n == Len(idx_list)
         c == IF n % Fanout = 0 THEN n \div Fanout ELSE n \div Fanout + 1
     IN /\ cnt' = c
        /\ hashes' = [k \in 0..c-1 |-> "unset"]
  /\ wh' = [wh EXCEPT !.head_flags = WH!LPROPS_INDEX]
  /\ idx_ptr' = SortIdx(idx_list)
  /\ p' = 0 /\ i' = 0
  /\ blnum' = wh.head_lnum /\ boffs' = wh.head_offs
  /\ phase' = "level0"
  /\ UNCHANGED <<idx_list, bcnt, child_cnt, level, pstep, blast_len, written,
                 zroot, old_idx_sz, ihead, root_idx_hash>>

(* One level-0 index node: child_cnt consecutive sorted leaves.            *)
WriteLevel0Node ==
  /\ phase = "level0"
  /\ LET cc == RowChildCnt(i, cnt, Len(idx_ptr))
         br == [j \in 1..cc |->
                  [key |-> idx_ptr[p + j].key, lnum |-> idx_ptr[p + j].lnum,
                   offs |-> idx_ptr[p + j].offs, len |-> idx_ptr[p + j].len,
                   hash |-> idx_ptr[p + j].hash]]
     IN /\ add_idx_node(0, i, br)
        /\ child_cnt' = cc
        /\ p' = p + cc
  /\ hashes' = [hashes EXCEPT ![i] = NodeHash(0, i)]
  /\ i' = i + 1
  /\ phase' = IF i + 1 = cnt THEN "levels" ELSE "level0"
  /\ UNCHANGED <<idx_list, idx_ptr, cnt, bcnt, level, pstep, blnum, boffs,
                 blast_len, ihead, root_idx_hash>>

(* Head of the while loop: the row below had bcnt nodes, its last one      *)
(* child_cnt children; p restarts at the first leaf, stepping fanout^level.*)
NextLevel ==
  /\ phase = "levels"
  /\ LoopContinues
  /\ level < MaxLevel
  /\ blast_len' = ubifs_idx_node_sz(child_cnt)
  /\ bcnt' = cnt
  /\ cnt' = LET c == (cnt + Fanout - 1) \div Fanout IN IF c = 0 THEN 1 ELSE c
  /\ level' = level + 1
  /\ p' = 0
  /\ pstep' = pstep * Fanout
  /\ i' = 0
  /\ phase' = "upper"
  /\ UNCHANGED <<wh, idx_list, idx_ptr, child_cnt, blnum, boffs, hashes,
                 written, zroot, old_idx_sz, ihead, root_idx_hash>>

(* Mutant of ShadowStep: every child is taken to be a full node, the short *)
(* last node of the row below (blast_len) forgotten.                       *)
ShadowStep_full(j, s) ==
  LET bn   == i * Fanout + j
      blen == ubifs_idx_node_sz(Fanout)
      wrap == s.boffs + blen > LebSize
      bl   == IF wrap THEN s.blnum + 1 ELSE s.blnum
      bo   == IF wrap THEN 0 ELSE s.boffs
      b    == [key |-> idx_ptr[s.p + 1].key, lnum |-> bl, offs |-> bo,
               len |-> blen, hash |-> hashes[bn]]
  IN [blnum |-> bl, boffs |-> bo + Align(blen, 8), p |-> s.p + pstep,
      br |-> Append(s.br, b)]

(* Branch j of upper node i: the child is assumed to lie where the head   *)
(* would have put it after the shadow position s, its hash is read from    *)
(* hashes; s moves past the child and p on by pstep leaves.                *)
ShadowStep(j, s) ==
  LET bn   == i * Fanout + j
      blen == IF bn = bcnt - 1 THEN blast_len ELSE ubifs_idx_node_sz(Fanout)
      wrap == s.boffs + blen > LebSize
      bl   == IF wrap THEN s.blnum + 1 ELSE s.blnum
      bo   == IF wrap THEN 0 ELSE s.boffs
      b    == [key |-> idx_ptr[s.p + 1].key, lnum |-> bl, offs |-> bo,
               len |-> blen, hash |-> hashes[bn]]
  IN [blnum |-> bl, boffs |-> bo + Align(blen, 8), p |-> s.p + pstep,
      br |-> Append(s.br, b)]

(* Branches j .. cc-1 of upper node i.  The shadow state is bound to x so  *)
(* that it is evaluated once per branch.                                   *)
RECURSIVE ShadowBranches(_, _, _)
ShadowBranches(j, cc, s) ==
  IF j = cc THEN s
  ELSE CHOOSE r \in {ShadowBranches(j + 1, cc, ShadowStep(j, x)) : x \in {s}}
         : TRUE

(* One index node of level >= 1.                                           *)
WriteUpperNode ==
  /\ phase = "upper"
  /\ LET cc == RowChildCnt(i, cnt, bcnt)
         s  == ShadowBranches(0, cc, [blnum |-> blnum, boffs |-> boffs,
                                      p |-> p, br |-> <<>>])
     IN /\ add_idx_node(level, i, s.br)
        /\ child_cnt' = cc
        /\ blnum' = s.blnum /\ boffs' = s.boffs /\ p' = s.p
  /\ hashes' = [hashes EXCEPT ![i] = NodeHash(level, i)]
  /\ i' = i + 1
  /\ phase' = IF i + 1 = cnt THEN "levels" ELSE "upper"
  /\ UNCHANGED <<idx_list, idx_ptr, cnt, bcnt, level, pstep, blast_len,
                 ihead, root_idx_hash>>

(* Tail of write_index: the root hash, the index head, the last flush.     *)
FinishIndex ==
  /\ phase = "levels"
  /\ ~LoopContinues
  /\ root_idx_hash' = hashes[0]
  /\ ihead' = [lnum |-> wh.head_lnum, offs |-> Align(wh.head_offs, MinIoSize)]
  /\ wh' = WH!flush_nodes(wh)
  /\ phase' = IF wh'.ioerr THEN "error" ELSE "done"
  /\ UNCHANGED <<idx_list, idx_ptr, cnt, bcnt, child_cnt, level, pstep, p, i,
                 blnum, boffs, blast_len, hashes, written, zroot, old_idx_sz>>

Next ==
  \/ SortIndex
  \/ WriteLevel0Node
  \/ NextLevel
  \/ WriteUpperNode
  \/ FinishIndex

Spec == Init /\ [][Next]_vars

(* write_index runs to completion in one thread: weak fairness on its      *)
(* steps only says the process is not stopped from outside.                *)
FairSpec == Spec /\ WF_vars(Next)

-----------------------------------------------------------------------------
(***************************************************************************)
(* Properties.                                                             *)
(***************************************************************************)

Phases == {"start", "level0", "levels", "upper", "done", "error"}

(* The variables have the shapes write_index gives them; once a node is   *)
(* built, child_cnt is a real child count, 1 to fanout.                    *)
TypeOK ==
  /\ phase \in Phases
  /\ cnt \in Nat /\ bcnt \in Nat /\ level \in Nat
  /\ child_cnt \in IF written = <<>> THEN {0} ELSE 1..Fanout
  /\ p \in Nat /\ i \in Nat /\ blnum \in Nat /\ boffs \in Nat
  /\ written \in Seq([level : Nat, i : Nat, lnum : Nat, offs : Nat,
                      len : Nat, br : Seq([key : Seq(Nat), lnum : Nat,
                                           offs : Nat, len : Nat,
                                           hash : ({"leaf"} \X Nat) \cup ({"idx"} \X Nat \X Nat)])])
  /\ wh.head_offs \in Nat /\ wh.head_lnum \in Nat
  /\ old_idx_sz \in Nat

(* The reference order of the index: key field by field, then name bytes   *)
(* with a proper prefix first.                                             *)
SeqLess(s, t) ==
  \E k \in 0..Len(s) :
     /\ k <= Len(t)
     /\ SubSeq(s, 1, k) = SubSeq(t, 1, k)
     /\ IF k = Len(s) THEN k < Len(t) ELSE k < Len(t) /\ s[k+1] < t[k+1]
RefBefore(e1, e2) ==
  SeqLess(e1.key, e2.key) \/ (e1.key = e2.key /\ SeqLess(e1.name, e2.name))

(* Row sizes of a B+-tree of fanout Fanout over n leaves, level 0 first.   *)
RECURSIVE RefRows(_)
RefRows(n) ==
  LET c == (n + Fanout - 1) \div Fanout
  IN IF c <= 1 THEN <<1>> ELSE <<c>> \o RefRows(c)

NodesOfLevel(l) == {x \in DOMAIN written : written[x].level = l}
UsedOf(l) ==
  LET S == {x \in DOMAIN written : written[x].lnum = l}
  IN Max({written[x].offs + Align(written[x].len, 8) : x \in S})
IdxLebs == {written[x].lnum : x \in DOMAIN written}

(* Every branch of a level >= 1 node names, by LEB, offset and length,     *)
(* exactly where the head really put its child, with that child's hash    *)
(* and the key of the child's first branch.  Breaking it takes the shadow  *)
(* replay of the head (wrap at the LEB end, the short last node of a row,  *)
(* 8-byte alignment) or the in-place hash buffer to drift from what        *)
(* reserve_space and ubifs_node_calc_hash did, possibly levels earlier.    *)
IndexMatchesLayout ==
  \A x \in DOMAIN written : written[x].level > 0 =>
    \A j \in DOMAIN written[x].br :
      \E y \in DOMAIN written :
        LET b == written[x].br[j]
            c == written[y]
        IN /\ c.level = written[x].level - 1
           /\ c.i = written[x].i * Fanout + j - 1
           /\ b.lnum = c.lnum /\ b.offs = c.offs /\ b.len = c.len
           /\ b.hash = NodeHash(c.level, c.i)
           /\ b.key = c.br[1].key

(* Every index node starts 8-aligned and ends inside its LEB, i.e. inside  *)
(* the leb_size buffer that add_idx_node copies it into.                   *)
NodesWithinLeb ==
  \A x \in DOMAIN written :
    /\ written[x].offs % 8 = 0
    /\ written[x].offs + written[x].len <= LebSize

(* When write_index returns, level 0 lists every leaf exactly once in      *)
(* (key, name) order, the rows have the sizes of a B+-tree of that fanout, *)
(* zroot and root_idx_hash name the single top node, and the index head    *)
(* is the min-I/O-aligned end of the root.                                 *)
IndexComplete ==
  phase = "done" =>
    LET rows   == RefRows(Len(idx_list))
        top    == Len(rows) - 1
        L0     == [k \in 1..rows[1] |->
                     CHOOSE x \in NodesOfLevel(0) : written[x].i = k - 1]
        leaves == FlattenSeq([k \in DOMAIN L0 |-> written[L0[k]].br])
        byHash(h) == CHOOSE k \in DOMAIN idx_list : idx_list[k].hash = h
        root   == CHOOSE x \in DOMAIN written : written[x].level = top
    IN /\ \A l \in 0..top : Cardinality(NodesOfLevel(l)) = rows[l + 1]
       /\ \A k \in 1..rows[1] : \E x \in NodesOfLevel(0) : written[x].i = k - 1
       /\ Len(leaves) = Len(idx_list)
       /\ \A k \in DOMAIN idx_list :
            \E m \in DOMAIN leaves :
              /\ leaves[m].hash = idx_list[k].hash
              /\ leaves[m].key = idx_list[k].key
              /\ leaves[m].lnum = idx_list[k].lnum
              /\ leaves[m].offs = idx_list[k].offs
              /\ leaves[m].len = idx_list[k].len
       /\ \A m \in 1..Len(leaves) - 1 :
            RefBefore(idx_list[byHash(leaves[m].hash)],
                      idx_list[byHash(leaves[m+1].hash)])
       /\ \A x \in DOMAIN written : written[x].level <= top
       /\ zroot = [lnum |-> written[root].lnum, offs |-> written[root].offs,
                   len |-> written[root].len]
       /\ root_idx_hash = NodeHash(top, 0)
       /\ ihead = [lnum |-> zroot.lnum,
                   offs |-> Align(zroot.offs + Align(zroot.len, 8), MinIoSize)]

(* When write_index returns, each LEB holding index nodes went to the sink *)
(* exactly once, in order, and its ledger entry is an index LEB whose used *)
(* bytes are those its nodes occupy; idx_lebs counts those LEBs and        *)
(* old_idx_sz, the master's index_size, is their total.                    *)
LedgerMatchesLayout ==
  phase = "done" =>
    LET a == IF MinIoSize > 8 THEN MinIoSize ELSE 8
    IN /\ Range(wh.sink) = IdxLebs
       /\ Len(wh.sink) = Cardinality(IdxLebs)
       /\ \A k \in 1..Len(wh.sink) - 1 : wh.sink[k] < wh.sink[k+1]
       /\ \A l \in IdxLebs :
            /\ wh.lpt[l] # WH!Unset
            /\ wh.lpt[l].flags = WH!LPROPS_INDEX
            /\ LebSize - wh.lpt[l].free - wh.lpt[l].dirty = UsedOf(l)
            /\ wh.lpt[l].free = LebSize - Align(UsedOf(l), a)
       /\ wh.lst.idx_lebs = Cardinality(IdxLebs)
       /\ old_idx_sz = MapThenSumSet(UsedOf, IdxLebs)

(* write_index terminates: the while loop over the rows ends.              *)
Termination == <>(phase = "done")

=============================================================================
