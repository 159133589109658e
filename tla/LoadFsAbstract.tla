--------------------------- MODULE LoadFsAbstract ---------------------------
(***************************************************************************)
(* What loading a UBIFS volume for fsck promises about the memory of       *)
(* struct ubifs_info, seen from the caller of ubifs_load_filesystem: one   *)
(* step either succeeds, holding every buffer the check needs, or fails    *)
(* holding none; after a success, ubifs_destroy_filesystem releases all.   *)
(* Nothing is held while loading is under way, as far as the caller can    *)
(* tell.                                                                   *)
(***************************************************************************)
CONSTANTS
  Bufs,        \* the buffers of struct ubifs_info
  NoIleb       \* the one buffer only a read-write check needs

VARIABLES
  held,        \* the buffers allocated and not released
  result,      \* "loading", "ok", "failed" or "released"
  rom          \* c->ro_mount

vars == <<held, result, rom>>

Needed(ro) == IF ro THEN Bufs \ {NoIleb} ELSE Bufs

Init ==
  /\ held = {}
  /\ result = "loading"
  /\ rom \in BOOLEAN

Load ==
  /\ result = "loading"
  /\ \/ result' = "ok" /\ held' = Needed(rom)
     \/ result' = "failed" /\ held' = {}
  /\ UNCHANGED rom

Release ==
  /\ result = "ok"
  /\ result' = "released"
  /\ held' = {}
  /\ UNCHANGED rom

Next == Load \/ Release

Spec == Init /\ [][Next]_vars /\ WF_vars(Next)

====
