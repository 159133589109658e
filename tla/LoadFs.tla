------------------------------- MODULE LoadFs -------------------------------
(***************************************************************************)
(* fsck.ubifs: ubifs_load_filesystem and ubifs_destroy_filesystem          *)
(* (src/ubifs-utils/fsck.ubifs/load_fs.c).                                 *)
(*                                                                         *)
(* Loading is a ladder of rungs, each of which may fail: the early checks  *)
(* return at once, a failed allocation jumps to out_free, a failure once   *)
(* c->mounting is set jumps to out_mounting, which falls through to        *)
(* out_free.  The library calls the rungs make (init_constants_early,      *)
(* check_volume_empty, ubifs_read_superblock, init_constants_sb,           *)
(* alloc_wbufs, the allocators) are not under src/: each is a choice over  *)
(* the results it can return.  A buffer pointer of struct ubifs_info is    *)
(* "null", "live" (allocated), "freed" (freed, pointer not cleared), or    *)
(* "double" once freed a second time, which is undefined behaviour.        *)
(*                                                                         *)
(* The caller (fsck.ubifs main, not under src/) destroys the file system   *)
(* after a successful load and exits after a failed one.                   *)
(***************************************************************************)
EXTENDS Integers, Bitwise

(* errno values and fsck exit-code bits (headers, not under src/).         *)
EIO == 5
ENOMEM == 12
EINVAL == 22
EROFS == 30
FSCK_ERROR == 8

(* The buffers of struct ubifs_info that the ladder and destroy touch;    *)
(* wbufs stands for the journal heads and write-buffers of alloc_wbufs.    *)
Bufs == {"bottom_up_buf", "sbuf", "ileb_buf", "sup_node", "cbuf", "wbufs"}

VARIABLES
  step,        \* the rung about to run, "returned", "loaded", "destroyed", "exit"
  ro_media,    \* c->ro_media
  ro_mount,    \* c->ro_mount
  err,         \* the local err
  ret,         \* ubifs_load_filesystem's return value, once returned
  ptr,         \* Bufs -> {"null", "live", "freed", "double"}
  mounting,    \* c->mounting
  exit_code,   \* the global fsck exit code
  problems     \* the problems handed to fix_problem

vars == <<step, ro_media, ro_mount, err, ret, ptr, mounting, exit_code,
          problems>>

PtrStates == {"null", "live", "freed", "double"}

(* kfree of one pointer: NULL is a no-op; the pointer is not cleared.      *)
kfree(p) == CASE p = "null" -> "null"
              [] p = "live" -> "freed"
              [] OTHER      -> "double"

(* kfree of each buffer of S, the others untouched.                        *)
FreeEach(p, S) == [b \in Bufs |-> IF b \in S THEN kfree(p[b]) ELSE p[b]]

(* The buffers out_free releases, in load_fs.c line order.                 *)
OutFreeBufs == {"cbuf", "ileb_buf", "sbuf", "bottom_up_buf", "sup_node"}

(* The buffers ubifs_destroy_filesystem releases: free_wbufs, then the     *)
(* five of out_free.                                                       *)
DestroyBufs == OutFreeBufs \cup {"wbufs"}

(* What a successful load holds: ileb_buf only for a read-write check.     *)
Needed(rom) == Bufs \ (IF rom THEN {"ileb_buf"} ELSE {})

-----------------------------------------------------------------------------
(* Leave the ladder: record the error in exit_code and return e.           *)
Fail(e) ==
  /\ exit_code' = exit_code | FSCK_ERROR
  /\ ret' = e
  /\ step' = "returned"

(* Mutant of out_free: kfree(c->sbuf) written where kfree(c->ileb_buf)   *)
(* belongs.                                                                *)
OutFree_sbuf_twice(e) ==
  /\ ptr' = FreeEach(FreeEach(ptr, OutFreeBufs \ {"ileb_buf"}), {"sbuf"})
  /\ Fail(e)

(* goto out_free with err e: free the five buffers and return.             *)
OutFree(e) ==
  /\ ptr' = FreeEach(ptr, OutFreeBufs)
  /\ Fail(e)

(* goto out_mounting: clear c->mounting, then out_free.                    *)
OutMounting(e) ==
  /\ mounting' = 0
  /\ OutFree(e)

Init ==
  /\ step = "early"
  /\ ro_media \in BOOLEAN
  /\ ro_mount \in BOOLEAN
  /\ err = 0
  /\ ret = 0
  /\ ptr = [b \in Bufs |-> "null"]
  /\ mounting = 0
  /\ exit_code = 0
  /\ problems = {}

(* init_constants_early: 0 or -EINVAL.                                     *)
InitConstantsEarly ==
  /\ step = "early"
  /\ \E e \in {0, -EINVAL} :
       /\ err' = e
       /\ IF e = 0 THEN step' = "volume" /\ UNCHANGED <<ret, exit_code>>
                   ELSE Fail(e)
  /\ UNCHANGED <<ro_media, ro_mount, ptr, mounting, problems>>

(* check_volume_empty: < 0 bad, 0 empty, 1 not empty; err <= 0 fails.      *)
CheckVolumeEmpty ==
  /\ step = "volume"
  /\ \E e \in {-EIO, 0, 1} :
       /\ err' = e
       /\ IF e > 0 THEN step' = "ro" /\ UNCHANGED <<ret, exit_code>>
                   ELSE Fail(-EINVAL)
  /\ UNCHANGED <<ro_media, ro_mount, ptr, mounting, problems>>

(* Mutant of line 44: err is not reset to -ENOMEM.                         *)
CheckRoMedia_keep_err ==
  /\ step = "ro"
  /\ IF ro_media /\ ~ro_mount
       THEN Fail(-EROFS) /\ UNCHANGED err
       ELSE step' = "bottom_up_buf" /\ UNCHANGED <<err, ret, exit_code>>
  /\ UNCHANGED <<ro_media, ro_mount, ptr, mounting, problems>>

(* Read-only media needs a read-only check; then err = -ENOMEM for the     *)
(* allocations that follow.                                                *)
CheckRoMedia ==
  /\ step = "ro"
  /\ IF ro_media /\ ~ro_mount
       THEN Fail(-EROFS) /\ UNCHANGED err
       ELSE step' = "bottom_up_buf" /\ err' = -ENOMEM
            /\ UNCHANGED <<ret, exit_code>>
  /\ UNCHANGED <<ro_media, ro_mount, ptr, mounting, problems>>

(* kmalloc_array / vmalloc of bottom_up_buf, sbuf, and ileb_buf unless     *)
(* ro_mount; a NULL result jumps to out_free with err (-ENOMEM).  After    *)
(* the last one c->mounting is set.                                        *)
NextAlloc(b) == CASE b = "bottom_up_buf" -> "sbuf"
                  [] b = "sbuf"          -> "ileb_buf"
                  [] b = "ileb_buf"      -> "sb"

Alloc ==
  /\ step \in {"bottom_up_buf", "sbuf", "ileb_buf"}
  /\ IF step = "ileb_buf" /\ ro_mount
       THEN /\ step' = "sb" /\ mounting' = 1
            /\ UNCHANGED <<ptr, ret, exit_code>>
       ELSE \E ok \in BOOLEAN :
              IF ok THEN /\ ptr' = [ptr EXCEPT ![step] = "live"]
                         /\ step' = NextAlloc(step)
                         /\ mounting' = IF step = "ileb_buf" THEN 1 ELSE 0
                         /\ UNCHANGED <<ret, exit_code>>
                    ELSE OutFree(err) /\ UNCHANGED mounting
  /\ UNCHANGED <<ro_media, ro_mount, err, problems>>

(* ubifs_read_superblock: success keeps the node in c->sup_node; a failure *)
(* may leave it allocated or not.  When the failure reason it set is       *)
(* FR_DATA_CORRUPTED, test_and_clear_failure_reason_callback consumes it   *)
(* and fix_problem(SB_CORRUPTED) is called.                                *)
ReadSuperblock ==
  /\ step = "sb"
  /\ \/ /\ ptr' = [ptr EXCEPT !.sup_node = "live"]
        /\ err' = 0 /\ step' = "constsb"
        /\ UNCHANGED <<ret, exit_code, mounting, problems>>
     \/ \E e \in {-EINVAL, -EIO}, sup \in {"null", "live"},
           corrupt \in BOOLEAN :
          /\ err' = e
          /\ problems' = IF corrupt THEN problems \cup {"SB_CORRUPTED"}
                                   ELSE problems
          /\ mounting' = 0
          /\ ptr' = FreeEach([ptr EXCEPT !.sup_node = sup], OutFreeBufs)
          /\ Fail(e)
  /\ UNCHANGED <<ro_media, ro_mount>>

(* init_constants_sb: 0 or -EINVAL, out_mounting.                          *)
InitConstantsSb ==
  /\ step = "constsb"
  /\ \E e \in {0, -EINVAL} :
       /\ err' = e
       /\ IF e = 0 THEN step' = "cbuf" /\ UNCHANGED <<ptr, mounting, ret, exit_code>>
                   ELSE OutMounting(e)
  /\ UNCHANGED <<ro_media, ro_mount, problems>>

(* Mutant of line 89: err = ENOMEM, the sign dropped.                      *)
AllocCbuf_pos ==
  /\ step = "cbuf"
  /\ \/ ptr' = [ptr EXCEPT !.cbuf = "live"] /\ step' = "wbufs"
        /\ UNCHANGED <<err, mounting, ret, exit_code>>
     \/ err' = ENOMEM /\ OutMounting(ENOMEM)
  /\ UNCHANGED <<ro_media, ro_mount, problems>>

(* kmalloc of cbuf: NULL sets err = -ENOMEM, out_mounting.                 *)
AllocCbuf ==
  /\ step = "cbuf"
  /\ \/ ptr' = [ptr EXCEPT !.cbuf = "live"] /\ step' = "wbufs"
        /\ UNCHANGED <<err, mounting, ret, exit_code>>
     \/ err' = -ENOMEM /\ OutMounting(-ENOMEM)
  /\ UNCHANGED <<ro_media, ro_mount, problems>>

(* alloc_wbufs: 0, or -ENOMEM having released what it took; success       *)
(* clears c->mounting and returns 0.                                       *)
AllocWbufs ==
  /\ step = "wbufs"
  /\ \/ /\ ptr' = [ptr EXCEPT !.wbufs = "live"]
        /\ mounting' = 0 /\ err' = 0 /\ ret' = 0 /\ step' = "returned"
        /\ UNCHANGED exit_code
     \/ err' = -ENOMEM /\ OutMounting(-ENOMEM)
  /\ UNCHANGED <<ro_media, ro_mount, problems>>

(* The caller: after a successful load the check runs and the file system *)
(* is destroyed; after a failed one fsck exits.                           *)
Return ==
  /\ step = "returned"
  /\ step' = IF ret = 0 THEN "loaded" ELSE "exit"
  /\ UNCHANGED <<ro_media, ro_mount, err, ret, ptr, mounting, exit_code,
                 problems>>

(* Mutant of ubifs_destroy_filesystem: free_wbufs is missing.             *)
Destroy_no_wbufs ==
  /\ step = "loaded"
  /\ ptr' = FreeEach(ptr, OutFreeBufs)
  /\ step' = "destroyed"
  /\ UNCHANGED <<ro_media, ro_mount, err, ret, mounting, exit_code,
                 problems>>

(* ubifs_destroy_filesystem: free_wbufs, then kfree of the five buffers.   *)
Destroy ==
  /\ step = "loaded"
  /\ ptr' = FreeEach(ptr, DestroyBufs)
  /\ step' = "destroyed"
  /\ UNCHANGED <<ro_media, ro_mount, err, ret, mounting, exit_code,
                 problems>>

Next ==
  \/ InitConstantsEarly \/ CheckVolumeEmpty \/ CheckRoMedia \/ Alloc
  \/ ReadSuperblock \/ InitConstantsSb \/ AllocCbuf \/ AllocWbufs
  \/ Return \/ Destroy

Spec == Init /\ [][Next]_vars /\ WF_vars(Next)

-----------------------------------------------------------------------------
(***************************************************************************)
(* Properties.                                                             *)
(***************************************************************************)
Steps == {"early", "volume", "ro", "bottom_up_buf", "sbuf", "ileb_buf", "sb",
          "constsb", "cbuf", "wbufs", "returned", "loaded", "destroyed", "exit"}

TypeOK ==
  /\ step \in Steps
  /\ ro_media \in BOOLEAN /\ ro_mount \in BOOLEAN
  /\ err \in {0, 1, -EIO, -ENOMEM, -EINVAL, -EROFS}
  /\ ret \in {0, -EIO, -ENOMEM, -EINVAL, -EROFS}
  /\ ptr \in [Bufs -> PtrStates]
  /\ mounting \in {0, 1}
  /\ exit_code \in {0, FSCK_ERROR}
  /\ problems \subseteq {"SB_CORRUPTED"}

Returned == step \in {"returned", "loaded", "destroyed", "exit"}

(* ubifs_load_filesystem's result tells the truth: once it returned, it    *)
(* returned 0 exactly when every rung succeeded (all it needs is held),   *)
(* and a failure is a negative errno with FSCK_ERROR in exit_code and      *)
(* c->mounting cleared.  err is reused across rungs (it holds              *)
(* check_volume_empty's positive result until line 44 resets it), so a    *)
(* failing rung that returns err unchanged can report success or a         *)
(* positive value.                                                         *)
LoadReportsFailure ==
  Returned =>
    /\ mounting = 0
    /\ (ret = 0) = (\A b \in Needed(ro_mount) : ptr[b] # "null")
    /\ ret # 0 => ret < 0 /\ exit_code | FSCK_ERROR = exit_code

(* kfree is never applied to memory already freed: the error paths free    *)
(* the buffers without clearing the pointers, so a buffer freed twice on   *)
(* one path, or a path to destroy after out_free, is undefined behaviour.  *)
NoDoubleFree == \A b \in Bufs : ptr[b] # "double"

(* The refinement mapping: while the ladder runs the caller sees nothing   *)
(* held; once it returned, the live buffers; the result from ret and from  *)
(* the caller's destroy.                                                   *)
Held == {b \in Bufs : ptr[b] = "live"}

AbsResult == CASE step = "destroyed"      -> "released"
               [] Returned /\ ret = 0     -> "ok"
               [] Returned                -> "failed"
               [] OTHER                   -> "loading"

Abs == INSTANCE LoadFsAbstract
         WITH NoIleb <- "ileb_buf", held <- IF Returned THEN Held ELSE {},
              result <- AbsResult, rom <- ro_mount

(* ubifs_load_filesystem with ubifs_destroy_filesystem implements          *)
(* LoadFsAbstract: a failed load leaves no buffer allocated (every goto    *)
(* reaches the kfree of each buffer the rungs before it allocated), a      *)
(* successful one holds exactly what the check needs, destroy releases it  *)
(* all, and loading ends.                                                  *)
LoadFsSpec == Abs!Spec

====
