---------------------------- MODULE OptionsSpec ----------------------------
(***************************************************************************)
(* What the options of mkfs.ubifs promise (spec.md sections 4.1 and 6),    *)
(* stated on the values as written, in exact arithmetic: a command line is *)
(* accepted exactly when every option parses (sizes take KiB, MiB or GiB;  *)
(* sizes other than -R and counts are positive), an output is named, the   *)
(* root is a directory and the output is not beneath it (is_contained's   *)
(* own description), and the geometry rules hold; an accepted one yields   *)
(* the geometry asked for with the documented defaults.  Encryption needs  *)
(* a key file, a build with crypto and a padding of 4, 8, 16 or 32, and    *)
(* forces double hashing; reading the key is host I/O and may fail.  -h,  *)
(* -V and an unknown option exit with no image.  One step decides.        *)
(*                                                                         *)
(* Two derived values are taken as the spec defines them and not as        *)
(* get_options happens to have them when it validates: the LPT area is at  *)
(* least UBIFS_MIN_LPT_LEBS long, and the journal has one head            *)
(* (jhead_cnt = 1).  The default journal is an eighth of the main area as *)
(* get_options estimates it, clamped to [4 LEBs, 8 MiB].                   *)
(***************************************************************************)
EXTENDS Integers, Sequences, SequencesExt, CInt, UbifsMedia

CONSTANTS Cmdlines, Targets, Dirs, Files, Links, Cwd, DEBUG_LEVEL

VARIABLES req, tgt, crypto, result

vars == <<req, tgt, crypto, result>>

JHEAD_CNT == 1

Fields == {"min_io", "leb", "cnt", "fanout", "log", "orph", "jrn", "rp",
           "encrypted"}
NoGeometry == [f \in Fields |-> Zero64]

(* The host: a path resolved from the working directory and through a     *)
(* link in /, and whether that is a directory.                             *)
Canonical(p) ==
  LET q == IF p # <<>> /\ p[1] = "." THEN Cwd \o Tail(p) ELSE p
  IN IF q # <<>> /\ q[1] \in DOMAIN Links THEN Links[q[1]] \o Tail(q) ELSE q
IsDir(p) == Canonical(p) \in Dirs
IsFile(p) == Canonical(p) \in Dirs \cup Files

(* Numbers as written: digits, no sign, an optional binary suffix.         *)
Multiplier == [s \in {"", "KiB", "MiB", "GiB"} |->
                 CASE s = "KiB" -> 1024 [] s = "MiB" -> 1024 * 1024
                   [] s = "GiB" -> 1024 * 1024 * 1024 [] OTHER -> 1]
IsSize(a) == a.digits /\ ~a.minus /\ a.sfx \in DOMAIN Multiplier
Bytes(a) == Mul64(a.mag, FromInt(Multiplier[a.sfx]))
IsCount(a) == a.digits /\ ~a.minus /\ a.sfx = ""

Given(o) == \E i \in DOMAIN req.opts : req.opts[i].o \in o
LastArg(o) == req.opts[Max({i \in DOMAIN req.opts : req.opts[i].o \in o})].arg

Parses(o, a) ==
  CASE o \in {"m", "e", "c", "j"} -> IsSize(a) /\ Bytes(a) # Zero64
    [] o = "R"                    -> IsSize(a)
    [] o \in {"f", "l", "p"}      -> IsCount(a) /\ a.mag # Zero64
    [] o \in {"r", "d"}           -> IsDir(a)
    [] o \in {"s", "D"}           -> IsFile(a)
    [] o = "g"                    -> IsCount(a) /\ ~LtU64(FromInt(DEBUG_LEVEL), a.mag)
    [] o = "k"                    -> a \in {"r5", "test"}
    [] o = "P"                    -> IsCount(a) /\ a.mag \in {FromInt(n) : n \in {4, 8, 16, 32}}
    [] o \in {"C", "hash", "auth_key", "auth_cert"} -> crypto
    [] OTHER                      -> TRUE

(* Help, version, or an option the program does not know: no image.      *)
Informational == {"h", "V", "?"}

Times(o) == Cardinality({i \in DOMAIN req.opts : req.opts[i].o = o})
Encrypted == Given({"K", "b"})
KeysValid ==
  /\ Times("K") <= 1 /\ Times("b") <= 1
  /\ Encrypted => crypto /\ Given({"K"})

Output == IF Given({"o"}) THEN LastArg({"o"}) ELSE req.operands[1]
HasOutput == Given({"o"}) \/ req.operands # <<>>

(* The requested geometry, exact; a UBI volume supplies its own.          *)
Count(o, dflt) == IF Given({o}) THEN LastArg({o}).mag ELSE FromInt(dflt)
MinIo == IF tgt.ubi THEN FromInt(tgt.min_io) ELSE Bytes(LastArg({"m"}))
Leb   == IF tgt.ubi THEN FromInt(tgt.leb) ELSE Bytes(LastArg({"e"}))
Cnt   == IF Given({"c"}) THEN Bytes(LastArg({"c"}))
         ELSE FromInt(IF tgt.ubi THEN tgt.rsvd ELSE -1)
Specified ==
  tgt.ubi \/ (Given({"m"}) /\ Given({"e"}) /\ Given({"c"}))

IsPow2U64(a) ==
  /\ Cardinality({k \in Digits : a[k] # 0}) = 1
  /\ \A k \in Digits : a[k] = 0 \/ is_power_of_2(a[k])

(* The minimum log LEBs of section 4.1 for a journal of jrn bytes, exact. *)
MinLogLebs(min_io, leb, jrn) ==
  LET buds == UDiv64(Add64(jrn, FromInt(leb - 1)), leb)
      log_size == Add64(Mul64(FromInt(ALIGN(UBIFS_REF_NODE_SZ, min_io)), buds),
                        FromInt(ALIGN(UBIFS_CS_NODE_SZ
                                        + UBIFS_REF_NODE_SZ * (JHEAD_CNT + 2),
                                      min_io)))
  IN Add64(UDiv64(Add64(log_size, FromInt(leb - 1)), leb), FromInt(1))

(* The default journal: an eighth of the main area, in [4 LEBs, 8 MiB].   *)
JournalDflt(leb, cnt, orph) ==
  LET log == IF Given({"l"}) THEN LastArg({"l"}).mag ELSE FromInt(UBIFS_MIN_LOG_LEBS)
      main == Add64(cnt, Neg64(Add64(Add64(log, orph),
                     FromInt(UBIFS_SB_LEBS + UBIFS_MST_LEBS + UBIFS_MIN_LPT_LEBS))))
      j0 == Mul64(SDiv64(main, 8), FromInt(leb))
      j1 == IF LtS64(FromInt(8 * 1024 * 1024), j0) THEN FromInt(8 * 1024 * 1024) ELSE j0
  IN IF LtS64(j1, FromInt(4 * leb)) THEN FromInt(4 * leb) ELSE j1

(* The reserved space plus the overhead of add_space_overhead, exact.      *)
WithOverhead(size, fanout) ==
  LET idx == UBIFS_IDX_NODE_SZ + fanout * (UBIFS_BRANCH_SZ + UBIFS_SK_LEN)
      f == IF fanout > 3 THEN fanout \div 2 ELSE 2
  IN UDiv64(Mul64(size, FromInt(UBIFS_MAX_DATA_NODE_SZ + (3 * idx) \div (f - 1))),
            UBIFS_BLOCK_SIZE)

(* The geometry of an accepted command line, and the rules it must meet,  *)
(* ordered so that no value is used as an int before it is bounded.        *)
GeometryOf(leb, min_io, fanout, orph, jrn) ==
  LET rp == IF Given({"R"}) THEN Bytes(LastArg({"R"})) ELSE Zero64
  IN [min_io |-> FromInt(IF min_io < 8 THEN 8 ELSE min_io), leb |-> FromInt(leb),
      cnt |-> Cnt, fanout |-> fanout, orph |-> orph, jrn |-> jrn,
      log |-> IF Given({"l"}) THEN LastArg({"l"}).mag
              ELSE Add64(MinLogLebs(min_io, leb, jrn), FromInt(2)),
      rp |-> IF ~LtU64(fanout, FromInt(1048576)) THEN rp
             ELSE WithOverhead(rp, ToInt32(fanout)),
      encrypted |-> FromInt(IF Encrypted THEN 1 ELSE 0)]

Journal(leb, orph) ==
  IF Given({"j"}) THEN Bytes(LastArg({"j"})) ELSE JournalDflt(leb, Cnt, orph)

Geometry(leb, min_io) ==
  GeometryOf(leb, min_io, Count("f", 8), Count("p", UBIFS_MIN_ORPH_LEBS),
             Journal(leb, Count("p", UBIFS_MIN_ORPH_LEBS)))

LtCnt(n) == LtU64(Add64(n, FromInt(UBIFS_MIN_LEB_CNT)), Cnt)

GeometryValid(leb, min_io, g) ==
  /\ leb % min_io = 0 /\ leb % 8 = 0
  /\ ~LtU64(Cnt, FromInt(UBIFS_MIN_LEB_CNT))
  /\ ~LtU64(g.fanout, FromInt(UBIFS_MIN_FANOUT))
  /\ ~LtU64(FromInt((leb - UBIFS_IDX_NODE_SZ)
                    \div (UBIFS_BRANCH_SZ + UBIFS_MAX_KEY_LEN)), g.fanout)
  /\ ~LtU64(g.log, FromInt(UBIFS_MIN_LOG_LEBS)) /\ LtCnt(g.log)
  /\ ~LtU64(g.orph, FromInt(UBIFS_MIN_ORPH_LEBS)) /\ LtCnt(g.orph)
  /\ ~LtU64(Cnt, Add64(Add64(g.log, g.orph),
                       FromInt(UBIFS_SB_LEBS + UBIFS_MST_LEBS
                               + UBIFS_MIN_LPT_LEBS + 4)))
  /\ ~LtU64(g.log, MinLogLebs(min_io, leb, g.jrn))
  /\ LtU64(g.rp, UDiv64(Mul64(FromInt(leb), Cnt), 2))

Valid ==
  /\ \A i \in DOMAIN req.opts : Parses(req.opts[i].o, req.opts[i].arg)
  /\ ~Given(Informational)
  /\ HasOutput /\ KeysValid /\ Specified
  /\ Given({"r", "d"}) =>
       /\ IsDir(Front(Output))
       /\ ~IsPrefix(Canonical(LastArg({"r", "d"})), Canonical(Front(Output)))
  /\ IsPow2U64(MinIo)
  /\ ~LtU64(Leb, MinIo)
  /\ ~LtU64(Leb, FromInt(UBIFS_MIN_LEB_SZ)) /\ ~LtU64(FromInt(UBIFS_MAX_LEB_SZ), Leb)
  /\ GeometryValid(ToInt32(Leb), ToInt32(MinIo),
                   Geometry(ToInt32(Leb), ToInt32(MinIo)))

-----------------------------------------------------------------------------
Init ==
  /\ req \in Cmdlines
  /\ tgt \in Targets
  /\ crypto \in BOOLEAN
  /\ result = [state |-> "pending", geo |-> NoGeometry]

Decide ==
  /\ result.state = "pending"
  /\ result' = IF Valid
                 THEN [state |-> "ok", geo |-> Geometry(ToInt32(Leb), ToInt32(MinIo))]
                 ELSE [state |-> "rejected", geo |-> NoGeometry]
  /\ UNCHANGED <<req, tgt, crypto>>

(* The key file cannot be read: host I/O fails, and the build is refused. *)
KeyUnreadable ==
  /\ result.state = "pending"
  /\ Encrypted
  /\ result' = [state |-> "rejected", geo |-> NoGeometry]
  /\ UNCHANGED <<req, tgt, crypto>>

(* Help or version asked for: the program prints and exits, no image.     *)
Exit ==
  /\ result.state = "pending"
  /\ Given(Informational)
  /\ result' = [state |-> "exited", geo |-> NoGeometry]
  /\ UNCHANGED <<req, tgt, crypto>>

Next == Decide \/ KeyUnreadable \/ Exit

SafetySpec == Init /\ [][Next]_vars

Spec == SafetySpec /\ WF_vars(Next)
=============================================================================
