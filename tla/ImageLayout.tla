---------------------------- MODULE ImageLayout ----------------------------
(***************************************************************************)
(* What mkfs.ubifs promises of the image it builds, seen from the target:  *)
(* the order in which LEBs reach the sink and what a finished image is.    *)
(* spec.md section 5: writes happen in write-head order and the            *)
(* finalization writes (superblock, master, log, orphans, LPT) come after  *)
(* all main-area writes; section 3: an image holds leb_cnt LEBs, at most   *)
(* max_leb_cnt; section 8: leb_cnt is the image's LEB count.  Section 4.7  *)
(* checks leb_cnt against max_leb_cnt after the index is written, so a     *)
(* build that fails with TooManyLEBs may have written LEBs past it.        *)
(*                                                                         *)
(* A step hands the sink a run of consecutive LEB numbers, as one call of  *)
(* the builder can (a flush of several full LEBs, the log, the LPT area).  *)
(* The build ends once, ok or failed; ok only with LEBs 0 .. leb_cnt-1     *)
(* each written exactly once.                                              *)
(***************************************************************************)
EXTENDS Naturals, Sequences, SequencesExt

CONSTANTS
  MaxLebCnt,  \* c->max_leb_cnt
  MainFirst   \* c->main_first

VARIABLES
  sink,     \* LEB numbers in the order the target received them
  result,   \* "running", "ok" or "failed"
  leb_cnt   \* the LEB count the image declares, once it is "ok"

vars == <<sink, result, leb_cnt>>

IsMain(l) == l >= MainFirst

(* LEB l may follow the LEBs of s: it was not written yet, and a main-area *)
(* LEB comes after main-area LEBs only, each below it.                     *)
CanFollow(s, l) ==
  /\ l \in Nat
  /\ l \notin Range(s)
  /\ IsMain(l) => \A k \in DOMAIN s : IsMain(s[k]) /\ s[k] < l

RECURSIVE Appendable(_, _)
Appendable(s, r) ==
  r = <<>> \/ (CanFollow(s, Head(r)) /\ Appendable(Append(s, Head(r)), Tail(r)))

(* A run of consecutive LEB numbers.                                       *)
IsRun(r) == r # <<>> /\ \A k \in DOMAIN r : r[k] = r[1] + k - 1

(* The sink receives one more run of LEBs.                                 *)
WriteRun ==
  /\ IsPrefix(sink, sink')
  /\ LET r == SubSeq(sink', Len(sink) + 1, Len(sink'))
     IN IsRun(r) /\ Appendable(sink, r)

(* A complete image: LEBs 0 .. Len(s) - 1, each once.                      *)
IsImage(s) == Range(s) = 0 .. Len(s) - 1

Init ==
  /\ sink = <<>>
  /\ result = "running"
  /\ leb_cnt = 0

Write ==
  /\ result = "running"
  /\ WriteRun
  /\ UNCHANGED <<result, leb_cnt>>

(* The build succeeds, possibly with a last run of writes, when the image  *)
(* is complete and within max_leb_cnt; it declares as many LEBs as it      *)
(* wrote.                                                                  *)
Finish ==
  /\ result = "running"
  /\ WriteRun \/ UNCHANGED sink
  /\ IsImage(sink') /\ Len(sink') <= MaxLebCnt
  /\ result' = "ok"
  /\ leb_cnt' = Len(sink')

(* The build fails, possibly after some writes of its last step.           *)
Fail ==
  /\ result = "running"
  /\ WriteRun \/ UNCHANGED sink
  /\ result' = "failed"
  /\ UNCHANGED leb_cnt

Next == Write \/ Finish \/ Fail

Spec == Init /\ [][Next]_vars

====
