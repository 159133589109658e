----------------------------- MODULE WriteHead -----------------------------
(***************************************************************************)
(* The append-only write head of mkfs.ubifs over the main area, the LEB    *)
(* properties ledger (c->lpt, c->lst) that every flush feeds, and the      *)
(* target sink, seen as the sequence of LEB numbers handed to              *)
(* ubifs_leb_change.  Source: src/ubifs-utils/mkfs.ubifs/mkfs.ubifs.c,     *)
(* reserve_space, flush_nodes, set_lprops, calc_dark, write_empty_leb.     *)
(*                                                                         *)
(* The state is one record so that the components calling into it (the    *)
(* leaf emitter, the index builder, the finalizer) can chain several calls *)
(* inside one of their own steps, as the C code does: an operator takes    *)
(* the record and returns the next one.                                    *)
(***************************************************************************)
EXTENDS Integers, Sequences

CONSTANTS
  LebSize,    \* c->leb_size
  MinIoSize,  \* c->min_io_size, after get_options raised it to at least 8
  MainFirst,  \* c->main_first, first LEB of the main area
  MainLebs    \* c->main_lebs as computed by init(): entries of c->lpt

ASSUME LebSize % 8 = 0 /\ MinIoSize >= 8 /\ LebSize % MinIoSize = 0

Align(x, a) == ((x + a - 1) \div a) * a

(* LEB property flags: 0 or LPROPS_INDEX (head_flags).                     *)
LPROPS_INDEX == 32

(* Watermarks set by init(): MIN_WRITE_SZ is UBIFS_DATA_NODE_SZ + 8 and    *)
(* UBIFS_MAX_NODE_SZ the largest inode node, 160 + 4096 bytes.             *)
MIN_WRITE_SZ == 56
UBIFS_MAX_NODE_SZ == 4256
dead_wm == Align(MIN_WRITE_SZ, MinIoSize)
dark_wm == Align(UBIFS_MAX_NODE_SZ, MinIoSize)

(* c->lpt is allocated with xmalloc and never cleared: an entry nobody     *)
(* set holds whatever the allocator returned, modelled as a flags value   *)
(* no code path writes.                                                    *)
Unset == [free |-> 0, dirty |-> 0, flags |-> -1]

LptLebs == MainFirst .. MainFirst + MainLebs - 1

EmptyStats == [empty_lebs |-> 0, idx_lebs |-> 0, total_free |-> 0,
               total_dirty |-> 0, total_used |-> 0, total_dead |-> 0,
               total_dark |-> 0]

(* The write head as init() leaves it, positioned at LEB lnum.  The sink  *)
(* fault model: the fail_at-th LEB handed to the sink (0: none) is refused *)
(* once; failed records that it happened, ioerr is the error code of the  *)
(* last call into this module.                                             *)
InitHead(lnum) ==
  [head_lnum |-> lnum, head_offs |-> 0, head_flags |-> 0,
   lpt |-> [l \in LptLebs |-> Unset], lst |-> EmptyStats, sink |-> <<>>,
   fail_at |-> 0, failed |-> FALSE, ioerr |-> FALSE]

(* calc_dark: dark space of a LEB with spc bytes of free and dirty space.  *)
calc_dark(spc) ==
  IF spc < dark_wm THEN spc
  ELSE IF spc - dark_wm < MIN_WRITE_SZ THEN spc - MIN_WRITE_SZ
  ELSE dark_wm

(* Mutant of set_lprops: dirty space computed from the min-I/O-aligned end *)
(* of data instead of the 8-aligned one.                                   *)
set_lprops_dirty_minio(w, lnum, offs, flags) ==
  LET a     == IF MinIoSize > 8 THEN MinIoSize ELSE 8
      free  == LebSize - Align(offs, a)
      dirty == LebSize - free - Align(offs, a)
      spc   == free + dirty
      isIdx == flags = LPROPS_INDEX
  IN [w EXCEPT
        !.lpt = IF lnum - MainFirst < MainLebs
                  THEN [@ EXCEPT ![lnum] = [free |-> free, dirty |-> dirty,
                                            flags |-> flags]]
                  ELSE @,
        !.lst = [@ EXCEPT
                   !.total_free  = @ + free,
                   !.total_dirty = @ + dirty,
                   !.idx_lebs    = IF isIdx THEN @ + 1 ELSE @,
                   !.total_dead  = IF ~isIdx /\ spc < dead_wm THEN @ + spc ELSE @,
                   !.total_dark  = IF ~isIdx /\ spc >= dead_wm
                                     THEN @ + calc_dark(spc) ELSE @,
                   !.total_used  = IF isIdx THEN @ ELSE @ + LebSize - spc]]

(* set_lprops: record the properties of LEB lnum whose data ends at offs   *)
(* and add them to the aggregate statistics.                               *)
set_lprops(w, lnum, offs, flags) ==
  LET a     == IF MinIoSize > 8 THEN MinIoSize ELSE 8
      free  == LebSize - Align(offs, a)
      dirty == LebSize - free - Align(offs, 8)
      spc   == free + dirty
      isIdx == flags = LPROPS_INDEX
  IN [w EXCEPT
        !.lpt = IF lnum - MainFirst < MainLebs
                  THEN [@ EXCEPT ![lnum] = [free |-> free, dirty |-> dirty,
                                            flags |-> flags]]
                  ELSE @,
        !.lst = [@ EXCEPT
                   !.total_free  = @ + free,
                   !.total_dirty = @ + dirty,
                   !.idx_lebs    = IF isIdx THEN @ + 1 ELSE @,
                   !.total_dead  = IF ~isIdx /\ spc < dead_wm THEN @ + spc ELSE @,
                   !.total_dark  = IF ~isIdx /\ spc >= dead_wm
                                     THEN @ + calc_dark(spc) ELSE @,
                   !.total_used  = IF isIdx THEN @ ELSE @ + LebSize - spc]]

(* ubifs_leb_change: the sink receives a whole LEB, or refuses it.         *)
LebChange(w, lnum) ==
  IF ~w.failed /\ Len(w.sink) + 1 = w.fail_at
    THEN [w EXCEPT !.failed = TRUE, !.ioerr = TRUE]
    ELSE [w EXCEPT !.sink = Append(@, lnum), !.ioerr = FALSE]

(* write_empty_leb: an all-0xFF LEB goes to the sink.                      *)
write_empty_leb(w, lnum) == LebChange(w, lnum)

(* flush_nodes: nothing to do on an empty head; otherwise the LEB goes to  *)
(* the sink and, unless the sink refused it, its properties are recorded   *)
(* and the head moves on.  On an error the head stays where it was.        *)
Flushed(w1) ==
  IF w1.ioerr THEN w1
  ELSE [set_lprops(w1, w1.head_lnum, w1.head_offs, w1.head_flags)
          EXCEPT !.head_lnum = @ + 1, !.head_offs = 0]

flush_nodes(w) ==
  IF w.head_offs = 0 THEN [w EXCEPT !.ioerr = FALSE]
  ELSE Flushed(LebChange(w, w.head_lnum))

(* Mutant of reserve_space: the head advances by len, not ALIGN(len, 8).   *)
ReserveUnaligned(w1, len) ==
  IF w1.ioerr THEN [w |-> w1, lnum |-> 0, offs |-> 0]
  ELSE [w    |-> [w1 EXCEPT !.head_offs = @ + len],
        lnum |-> w1.head_lnum,
        offs |-> w1.head_offs]
reserve_space_unaligned(w, len) ==
  ReserveUnaligned(IF len > LebSize - w.head_offs THEN flush_nodes(w)
                   ELSE [w EXCEPT !.ioerr = FALSE], len)

(* reserve_space: flush first when len bytes do not fit behind the head;   *)
(* the node goes at the (possibly new) head, which advances by len         *)
(* rounded up to 8.  Returns the new record and the node's position; a     *)
(* failed flush is returned as it is, with ioerr set.                      *)
ReserveAtHead(w1, len) ==
  IF w1.ioerr THEN [w |-> w1, lnum |-> 0, offs |-> 0]
  ELSE [w    |-> [w1 EXCEPT !.head_offs = @ + Align(len, 8)],
        lnum |-> w1.head_lnum,
        offs |-> w1.head_offs]

reserve_space(w, len) ==
  ReserveAtHead(IF len > LebSize - w.head_offs THEN flush_nodes(w)
                ELSE [w EXCEPT !.ioerr = FALSE], len)

=============================================================================
