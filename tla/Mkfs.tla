------------------------------- MODULE Mkfs -------------------------------
(***************************************************************************)
(* mkfs() of mkfs.ubifs (src/ubifs-utils/mkfs.ubifs/mkfs.ubifs.c): the     *)
(* stages after init() on one write head.  write_data (LeafEmitter) fills  *)
(* the main area from main_first; set_gc_lnum reserves the next LEB for    *)
(* the garbage collector; write_index (IndexBuild) indexes the leaves      *)
(* behind it; finalize_leb_cnt fixes the image size; then write_lpt,       *)
(* write_master, write_super, write_log and write_orphan_area fill the     *)
(* areas before main_first.  Any stage's error ends mkfs (goto out).       *)
(*                                                                         *)
(* The two components are instances sharing this module's variables: the  *)
(* leaf emitter's write head is em.wh until set_gc_lnum hands it, with the *)
(* leaf list, to the index builder as wh.  Every LEB goes to the one sink  *)
(* of the write head, which may refuse one write (the fault model of       *)
(* WriteHead).  The image seen from the sink is shown to implement         *)
(* ImageLayout.                                                            *)
(***************************************************************************)
EXTENDS Integers, Sequences, FiniteSets, SequencesExt

CONSTANTS
  LebSize, MinIoSize,
  MaxLebCnt,    \* -c: c->max_leb_cnt
  LogLebs,      \* c->log_lebs
  LptLebCnt,    \* c->lpt_lebs, as ubifs_calc_dflt_lpt_geom computes it
  OrphLebs,     \* c->orph_lebs
  Fanout, KeyLen, HashLen, MaxLevel,
  Trees, InumAttrModes, NameHash,
  FaultPoints   \* which sink write fails (0: none), see WriteHead

(* On-flash area positions (ubifs-media.h).                                *)
UBIFS_SB_LNUM  == 0
UBIFS_MST_LNUM == 1
UBIFS_LOG_LNUM == 3
UBIFS_SB_LEBS  == 1
UBIFS_MST_LEBS == 2
UBIFS_MIN_LOG_LEBS == 2
UBIFS_MIN_ORPH_LEBS == 1
UBIFS_MIN_LEB_CNT == 17

(* validate_options: the LEB counts a command line must pass.              *)
validate_geometry ==
  /\ MaxLebCnt >= UBIFS_MIN_LEB_CNT
  /\ LogLebs >= UBIFS_MIN_LOG_LEBS /\ LogLebs < MaxLebCnt - UBIFS_MIN_LEB_CNT
  /\ OrphLebs >= UBIFS_MIN_ORPH_LEBS /\ OrphLebs < MaxLebCnt - UBIFS_MIN_LEB_CNT
  /\ UBIFS_SB_LEBS + UBIFS_MST_LEBS + LogLebs + LptLebCnt + OrphLebs + 4
       <= MaxLebCnt

ASSUME validate_geometry

(* init(): the main area follows log, LPT and orphan areas; c->lpt has one *)
(* entry per main LEB the volume can hold.                                 *)
MainFirst == UBIFS_LOG_LNUM + LogLebs + LptLebCnt + OrphLebs
MainLebs  == MaxLebCnt - UBIFS_SB_LEBS - UBIFS_MST_LEBS - (LogLebs + OrphLebs)
             - LptLebCnt
LptFirst  == UBIFS_LOG_LNUM + LogLebs
LptLast   == LptFirst + LptLebCnt - 1

VARIABLES
  tree, lphase, em, stack,                     \* write_data
  wh, idx_list, iphase, idx_ptr, cnt, bcnt, child_cnt, level, pstep, p, i,
  blnum, boffs, blast_len, hashes, written, zroot, old_idx_sz, ihead,
  root_idx_hash,                               \* write_index
  stage,       \* the mkfs() step running: "data" .. "orphan", "done", "error"
  gc_lnum,     \* c->gc_lnum
  leb_cnt,     \* c->leb_cnt
  main_lebs,   \* c->main_lebs
  lpt,         \* the c->lpt entries ubifs_create_lpt read, by LEB
  nhead_lnum,  \* c->nhead_lnum, last LEB the LPT nodes went to
  mst,         \* the master node, once written
  sup          \* the superblock, once written

WH == INSTANCE WriteHead
LE == INSTANCE LeafEmitter WITH phase <- lphase
IB == INSTANCE IndexBuild
        WITH phase <- iphase, IdxFirstLnum <- MainFirst,
             InitIdxLists <- {<<>>}

leVars  == <<tree, lphase, em, stack>>
ibVars  == <<wh, idx_list, iphase, idx_ptr, cnt, bcnt, child_cnt, level,
             pstep, p, i, blnum, boffs, blast_len, hashes, written, zroot,
             old_idx_sz, ihead, root_idx_hash>>
finVars == <<stage, gc_lnum, leb_cnt, main_lebs, lpt, nhead_lnum, mst, sup>>
vars    == <<leVars, ibVars, finVars>>

(* The next stage, or "error" when the last sink write was refused.        *)
Then(w, next) == IF w.ioerr THEN "error" ELSE next

-----------------------------------------------------------------------------
(* write_empty_leb for LEBs a .. b, stopping at the first error.           *)
RECURSIVE write_empty_lebs(_, _, _)
write_empty_lebs(w, a, b) ==
  IF a > b \/ w.ioerr THEN w
  ELSE write_empty_lebs(WH!write_empty_leb(w, a), a + 1, b)

(* write_node: one node padded to a whole LEB, handed to the sink.         *)
write_node(w, lnum) == WH!LebChange(w, lnum)

(* The leaf list write_index sorts: idx_list, each entry with its hash.    *)
IndexLeaves(ns) ==
  [k \in DOMAIN ns |-> [key |-> ns[k].key, name |-> ns[k].name,
                        lnum |-> ns[k].lnum, offs |-> ns[k].offs,
                        len |-> ns[k].len, hash |-> <<"leaf", ns[k].sqnum>>]]

GcWritten(w1, gc) ==
  IF w1.ioerr THEN w1
  ELSE [WH!set_lprops(w1, gc, 0, 0) EXCEPT !.lst.empty_lebs = @ + 1]

(* Mutants of set_gc_lnum: empty_lebs not bumped; ++head_lnum for         *)
(* head_lnum++.                                                            *)
set_gc_lnum_no_empty(w) ==
  WH!write_empty_leb([w EXCEPT !.head_lnum = @ + 1], w.head_lnum)
set_gc_lnum_preinc(w) ==
  GcWritten(WH!write_empty_leb([w EXCEPT !.head_lnum = @ + 1], w.head_lnum + 1),
            w.head_lnum + 1)

(* set_gc_lnum: gc_lnum = head_lnum++, an empty LEB there, its properties *)
(* set to all free, and one more empty LEB.                                *)
set_gc_lnum(w) ==
  GcWritten(WH!write_empty_leb([w EXCEPT !.head_lnum = @ + 1], w.head_lnum),
            w.head_lnum)

(* ubifs_create_lpt (LPT library, not under src/): reads the main_lebs    *)
(* entries of c->lpt and writes the LPT nodes to LEBs lpt_first .. nh.     *)
ubifs_create_lpt(w, nh) == write_empty_lebs(w, LptFirst, nh)

(* Mutant of write_orphan_area: the orphan area taken to start right after *)
(* the log, over the LPT area.                                             *)
write_orphan_area_no_lpt(w) ==
  write_empty_lebs(w, UBIFS_LOG_LNUM + LogLebs,
                   UBIFS_LOG_LNUM + LogLebs + OrphLebs - 1)

(* write_orphan_area: orph_lebs empty LEBs after the LPT area.             *)
write_orphan_area(w) ==
  write_empty_lebs(w, UBIFS_LOG_LNUM + LogLebs + LptLebCnt,
                   UBIFS_LOG_LNUM + LogLebs + LptLebCnt + OrphLebs - 1)

(* write_log: the commit-start node in the first log LEB, the others empty.*)
write_log(w) ==
  write_empty_lebs(write_node(w, UBIFS_LOG_LNUM), UBIFS_LOG_LNUM + 1,
                   UBIFS_LOG_LNUM + LogLebs - 1)

(* Mutant of finalize_leb_cnt: one main LEB too many.                      *)
finalize_main_lebs_plus1(n) == n - MainFirst + 1

(* The main_lebs finalize_leb_cnt sets for leb_cnt n.                      *)
finalize_main_lebs(n) == n - MainFirst

-----------------------------------------------------------------------------
Init ==
  /\ tree \in Trees
  /\ lphase = "start"
  /\ \E a \in InumAttrModes, f \in FaultPoints :
       em = [LE!InitEm(tree, a) EXCEPT !.wh.fail_at = f]
  /\ stack = <<>>
  /\ IB!Init
  /\ stage = "data"
  /\ gc_lnum = 0 /\ leb_cnt = 0 /\ main_lebs = MainLebs
  /\ lpt = <<>> /\ nhead_lnum = 0 /\ mst = <<>> /\ sup = <<>>

(* One step of write_data.                                                 *)
WriteData ==
  /\ stage = "data"
  /\ LE!Next
  /\ UNCHANGED <<ibVars, finVars>>

(* write_data returned: set_gc_lnum on its write head, whose leaf list    *)
(* write_index then takes.                                                 *)
SetGcLnum ==
  /\ stage = "data"
  /\ lphase = "done"
  /\ gc_lnum' = em.wh.head_lnum
  /\ wh' = set_gc_lnum(em.wh)
  /\ idx_list' = IndexLeaves(em.nodes)
  /\ stage' = Then(wh', "index")
  /\ UNCHANGED <<leVars, iphase, idx_ptr, cnt, bcnt, child_cnt, level, pstep,
                 p, i, blnum, boffs, blast_len, hashes, written, zroot,
                 old_idx_sz, ihead, root_idx_hash, leb_cnt, main_lebs, lpt,
                 nhead_lnum, mst, sup>>

(* One step of write_index.                                                *)
WriteIndex ==
  /\ stage = "index"
  /\ IB!Next
  /\ UNCHANGED <<leVars, finVars>>

(* finalize_leb_cnt: the image ends at the head; it must fit in           *)
(* max_leb_cnt, which is checked only now.                                 *)
FinalizeLebCnt ==
  /\ stage = "index"
  /\ iphase = "done"
  /\ leb_cnt' = wh.head_lnum
  /\ IF wh.head_lnum > MaxLebCnt
       THEN stage' = "error" /\ UNCHANGED main_lebs
       ELSE stage' = "lpt" /\ main_lebs' = finalize_main_lebs(wh.head_lnum)
  /\ UNCHANGED <<leVars, ibVars, gc_lnum, lpt, nhead_lnum, mst, sup>>

(* write_lpt: lscan_lnum = main_first; the LPT of the main_lebs entries of *)
(* c->lpt goes to lpt_first .. nhead_lnum, the rest of the area is empty.  *)
WriteLpt ==
  /\ stage = "lpt"
  /\ \E nh \in LptFirst .. LptLast :
       /\ nhead_lnum' = nh
       /\ wh' = write_empty_lebs(ubifs_create_lpt(wh, nh), nh + 1, LptLast)
  /\ lpt' = [l \in MainFirst .. MainFirst + main_lebs - 1 |-> wh.lpt[l]]
  /\ stage' = Then(wh', "master")
  /\ UNCHANGED <<leVars, idx_list, iphase, idx_ptr, cnt, bcnt, child_cnt,
                 level, pstep, p, i, blnum, boffs, blast_len, hashes, written,
                 zroot, old_idx_sz, ihead, root_idx_hash, gc_lnum, leb_cnt,
                 main_lebs, mst, sup>>

(* write_master: the master node from the globals, at UBIFS_MST_LNUM and  *)
(* the LEB after it.                                                       *)
WriteMaster ==
  /\ stage = "master"
  /\ mst' = [highest_inum |-> em.highest_inum, root |-> zroot,
             gc_lnum |-> gc_lnum, ihead |-> ihead, index_size |-> old_idx_sz,
             nhead_lnum |-> nhead_lnum, lscan_lnum |-> MainFirst,
             empty_lebs |-> wh.lst.empty_lebs, idx_lebs |-> wh.lst.idx_lebs,
             total_free |-> wh.lst.total_free,
             total_dirty |-> wh.lst.total_dirty,
             total_used |-> wh.lst.total_used,
             total_dead |-> wh.lst.total_dead,
             total_dark |-> wh.lst.total_dark, leb_cnt |-> leb_cnt]
  /\ wh' = LET w1 == write_node(wh, UBIFS_MST_LNUM)
           IN IF w1.ioerr THEN w1 ELSE write_node(w1, UBIFS_MST_LNUM + 1)
  /\ stage' = Then(wh', "super")
  /\ UNCHANGED <<leVars, idx_list, iphase, idx_ptr, cnt, bcnt, child_cnt,
                 level, pstep, p, i, blnum, boffs, blast_len, hashes, written,
                 zroot, old_idx_sz, ihead, root_idx_hash, gc_lnum, leb_cnt,
                 main_lebs, lpt, nhead_lnum, sup>>

(* write_super: the superblock at UBIFS_SB_LNUM.                           *)
WriteSuper ==
  /\ stage = "super"
  /\ sup' = [leb_cnt |-> leb_cnt, max_leb_cnt |-> MaxLebCnt,
             log_lebs |-> LogLebs, lpt_lebs |-> LptLebCnt,
             orph_lebs |-> OrphLebs, fanout |-> Fanout]
  /\ wh' = write_node(wh, UBIFS_SB_LNUM)
  /\ stage' = Then(wh', "log")
  /\ UNCHANGED <<leVars, idx_list, iphase, idx_ptr, cnt, bcnt, child_cnt,
                 level, pstep, p, i, blnum, boffs, blast_len, hashes, written,
                 zroot, old_idx_sz, ihead, root_idx_hash, gc_lnum, leb_cnt,
                 main_lebs, lpt, nhead_lnum, mst>>

WriteLog ==
  /\ stage = "log"
  /\ wh' = write_log(wh)
  /\ stage' = Then(wh', "orphan")
  /\ UNCHANGED <<leVars, idx_list, iphase, idx_ptr, cnt, bcnt, child_cnt,
                 level, pstep, p, i, blnum, boffs, blast_len, hashes, written,
                 zroot, old_idx_sz, ihead, root_idx_hash, gc_lnum, leb_cnt,
                 main_lebs, lpt, nhead_lnum, mst, sup>>

(* write_orphan_area is the last stage: its result is mkfs()'s.            *)
WriteOrphanArea ==
  /\ stage = "orphan"
  /\ wh' = write_orphan_area(wh)
  /\ stage' = Then(wh', "done")
  /\ UNCHANGED <<leVars, idx_list, iphase, idx_ptr, cnt, bcnt, child_cnt,
                 level, pstep, p, i, blnum, boffs, blast_len, hashes, written,
                 zroot, old_idx_sz, ihead, root_idx_hash, gc_lnum, leb_cnt,
                 main_lebs, lpt, nhead_lnum, mst, sup>>

(* write_data or write_index returned an error: goto out.                  *)
Abort ==
  /\ \/ stage = "data" /\ lphase = "error"
     \/ stage = "index" /\ iphase = "error"
  /\ stage' = "error"
  /\ UNCHANGED <<leVars, ibVars, gc_lnum, leb_cnt, main_lebs, lpt,
                 nhead_lnum, mst, sup>>

Next ==
  \/ WriteData \/ SetGcLnum \/ WriteIndex \/ FinalizeLebCnt \/ WriteLpt
  \/ WriteMaster \/ WriteSuper \/ WriteLog \/ WriteOrphanArea \/ Abort

(* mkfs runs in one thread to its end: weak fairness only says the        *)
(* process is not stopped from outside.  It is asserted for the steps from *)
(* write_data's return on (the liveness of write_data itself is not        *)
(* checked: TLC's evaluation of ENABLED over its steps is too costly).     *)
AfterData == SetGcLnum \/ Abort \/ (stage # "data" /\ Next)

Spec == Init /\ [][Next]_vars /\ WF_vars(AfterData)

-----------------------------------------------------------------------------
(***************************************************************************)
(* Properties.                                                             *)
(***************************************************************************)

Stages == {"data", "index", "lpt", "master", "super", "log", "orphan",
           "done", "error"}
Done == stage = "done"
MainArea == MainFirst .. leb_cnt - 1

(* The stage is one of mkfs()'s, and every entry of c->lpt that           *)
(* ubifs_create_lpt read is one set_lprops wrote (free and dirty within    *)
(* the LEB, a flag mkfs uses): none is uninitialised xmalloc memory.       *)
TypeOK ==
  /\ stage \in Stages
  /\ \A l \in DOMAIN lpt :
       /\ lpt[l].flags \in {0, WH!LPROPS_INDEX}
       /\ lpt[l].free + lpt[l].dirty <= LebSize

(* The image as the target sees it: the sink of write_data's head until   *)
(* set_gc_lnum (the first to set gc_lnum, a main LEB) hands it on.         *)
ImageSink   == IF gc_lnum = 0 THEN em.wh.sink ELSE wh.sink
ImageResult == CASE stage = "done"  -> "ok"
                 [] stage = "error" -> "failed"
                 [] OTHER           -> "running"
ImageLebCnt == IF Done THEN leb_cnt ELSE 0

Img == INSTANCE ImageLayout
         WITH sink <- ImageSink, result <- ImageResult, leb_cnt <- ImageLebCnt

(* Refinement: every behaviour of mkfs, sink faults included, is one of    *)
(* ImageLayout: main-area LEBs reach the sink in ascending order and       *)
(* before any other LEB, no LEB twice, none at or past max_leb_cnt; and    *)
(* when it succeeds, LEBs 0 .. leb_cnt-1 were all written.                 *)
ImageSpec == Img!Spec

SumLpt(F(_)) == MapThenSumSet(F, DOMAIN lpt)

(* The space figures of the master node, summed by the three stages that  *)
(* wrote main LEBs (write_data, set_gc_lnum, write_index) into c->lst,     *)
(* agree with the c->lpt entries ubifs_create_lpt wrote for the main area: *)
(* free, dirty, index and empty LEB counts, and free + dirty + used + the *)
(* index size fill the main area exactly.                                  *)
MasterMatchesLpt ==
  Done =>
    /\ DOMAIN lpt = MainArea
    /\ mst.total_free = SumLpt(LAMBDA l : lpt[l].free)
    /\ mst.total_dirty = SumLpt(LAMBDA l : lpt[l].dirty)
    /\ mst.idx_lebs = Cardinality({l \in DOMAIN lpt :
                                     lpt[l].flags = WH!LPROPS_INDEX})
    /\ mst.empty_lebs = Cardinality({l \in DOMAIN lpt : lpt[l].free = LebSize})
    /\ mst.total_free + mst.total_dirty + mst.total_used + mst.index_size
         = main_lebs * LebSize

(* The master and superblock describe this image: both give its leb_cnt;  *)
(* highest_inum is the largest inode number written; the GC LEB is a main *)
(* LEB that is all free and holds no node; the index root and index head  *)
(* lie in index LEBs, and every leaf in a main LEB that is not one.        *)
MasterPointsIntoImage ==
  Done =>
    /\ mst.leb_cnt = leb_cnt /\ sup.leb_cnt = leb_cnt
    /\ mst.highest_inum
         = Max({em.nodes[k].info.inum : k \in LE!Idx("ino")})
    /\ mst.gc_lnum \in MainArea
    /\ lpt[mst.gc_lnum] = [free |-> LebSize, dirty |-> 0, flags |-> 0]
    /\ \A k \in DOMAIN em.nodes : em.nodes[k].lnum # mst.gc_lnum
    /\ \A k \in DOMAIN written : written[k].lnum # mst.gc_lnum
    /\ lpt[mst.root.lnum].flags = WH!LPROPS_INDEX
    /\ lpt[mst.ihead.lnum].flags = WH!LPROPS_INDEX
    /\ \A k \in DOMAIN em.nodes :
         /\ em.nodes[k].lnum \in MainArea
         /\ lpt[em.nodes[k].lnum].flags = 0

(* spec.md sections 7 and 8: an image mkfs reports as made has an index    *)
(* that, from zroot, reaches every leaf write_data emitted; an error of    *)
(* any sink write fails the build.                                         *)
ImageIndexComplete == Done => IB!IndexComplete

====
