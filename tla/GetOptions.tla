----------------------------- MODULE GetOptions -----------------------------
(***************************************************************************)
(* The geometry part of get_options of mkfs.ubifs                          *)
(* (src/ubifs-utils/mkfs.ubifs/mkfs.ubifs.c): the options -m, -e, -c, -j,  *)
(* -R (sizes read by get_bytes) and -f, -l, -p (counts read by strtol),    *)
(* one loop iteration per option with its early return; then the UBI      *)
(* override, the checks for missing options, the default journal and log  *)
(* sizes, the min. I/O floor, add_space_overhead and validate_options.     *)
(*                                                                         *)
(* The fields keep their C types (CInt): min_io_size, leb_size,            *)
(* max_leb_cnt, fanout, log_lebs and orph_lebs are int, max_bud_bytes and  *)
(* rp_size long long.  An argument string is abstracted to what strtoull   *)
(* or strtol reads from it: whether it has digits, a minus sign, the       *)
(* magnitude, and the word after the number (get_multiplier skips blanks   *)
(* before it).  The output (-o or the first operand) and the root (-r/-d)  *)
(* are paths: sequences of names, a relative one starting with ".", which  *)
(* realpath resolves against the working directory and one level of       *)
(* symbolic links.  The flag options (-U, -a), the SELinux context (-s),  *)
(* the fscrypt options (-K, -b, -P, -C), the authentication options, the *)
(* device table (-D), -y, -v, -F, -g, -k and the exits of -h, -V and -? are *)
(* parsed with their checks; what they set is used by LeafEmitter and      *)
(* Compress.  The compression options are left to Compress.               *)
(***************************************************************************)
EXTENDS Integers, Sequences, SequencesExt, CInt, UbifsMedia

CONSTANTS
  Cmdlines,          \* argument vectors: [opts |-> <<[o, arg]>>, operands |-> <<path>>]
  Targets,           \* output targets: [ubi, min_io, leb, rsvd] (open_ubi)
  LptLebsAtOptions,  \* c->lpt_lebs while get_options runs (set later by init)
  JheadCntAtOptions, \* c->jhead_cnt while get_options runs (set later by init)
  Dirs,              \* the directories of the host, as absolute paths
  Files,             \* the other files of the host, as absolute paths
  Links,             \* symbolic links in /: name -> the absolute path it names
  Cwd,               \* the working directory, an absolute path
  DEBUG_LEVEL        \* the highest -g level (a header outside the tree)

SizeField  == [m |-> "min_io_size", e |-> "leb_size", c |-> "max_leb_cnt"]
CountField == [f |-> "fanout", l |-> "log_lebs", p |-> "orph_lebs"]
FlagField  == [U |-> "squash_owner", a |-> "inum_attr", y |-> "yes",
               v |-> "verbose", F |-> "space_fixup"]
KeyHashes  == {"r5", "test"}
(* -h and -V print and exit(EXIT_SUCCESS); -? (or an unknown option)       *)
(* prints the help and exit(-1).                                           *)
Exits == ("h" :> "exit_success") @@ ("V" :> "exit_success")
           @@ ("?" :> "exit_failure")

LONG_MAX == [k \in Digits |-> IF k = 8 THEN 127 ELSE 255]
LONG_MIN == [k \in Digits |-> IF k = 8 THEN 128 ELSE 0]

VARIABLES
  args,    \* argv, the options in order
  operands, \* argv, the arguments that are not options
  pos,     \* the option getopt_long returns next
  c,       \* the geometry fields of struct ubifs_info
  target,  \* what open_ubi finds at the output path
  status,  \* "parsing", "ok", or why get_options returned an error
  crypto   \* whether the build has WITH_CRYPTO

vars == <<args, operands, pos, c, target, status, crypto>>

-----------------------------------------------------------------------------
(* Paths.  Str is the string a path spells, "/" for the root directory;    *)
(* dirname drops the last name ("." for a bare name, "/" for "/name").     *)
Str(p) == IF p = <<>> THEN "/" ELSE FlattenSeq([i \in 1..Len(p) |-> "/" \o p[i]])

dirname(p) == Front(p)

(* realpath: a relative path taken from the working directory, a link in  *)
(* / replaced by the path it names; it fails unless that is a directory.   *)
Absolute(p) == IF p # <<>> /\ p[1] = "." THEN Cwd \o Tail(p) ELSE p

realpath(p) ==
  LET q == Absolute(p)
  IN IF q # <<>> /\ q[1] \in DOMAIN Links THEN Links[q[1]] \o Tail(q) ELSE q

Exists(p) == realpath(p) \in Dirs

(* stat(2) of a path with no '/' appended: a directory or another file.   *)
Stat(p) == realpath(p) \in Dirs \cup Files

(* Mutant of is_contained: the root compared as get_options stored it,    *)
(* with its '/' appended and not canonicalized.                            *)
is_containedRawDir(file, dir) ==
  IF ~Exists(dirname(file)) \/ ~Exists(dir) THEN -1
  ELSE IF Str(dir) \o "/" \in SubSeqs(Str(realpath(dirname(file))))
         THEN 1 ELSE 0

(* is_contained: -1 if either realpath fails, else whether the canonical  *)
(* root occurs anywhere in the canonical directory of the file (strstr).   *)
is_contained(file, dir) ==
  IF ~Exists(dirname(file)) \/ ~Exists(dir) THEN -1
  ELSE IF Str(realpath(dir)) \in SubSeqs(Str(realpath(dirname(file))))
         THEN 1 ELSE 0

The(S) == CHOOSE x \in S : TRUE

-----------------------------------------------------------------------------
(* strtoull and strtol, on an argument with digits.                        *)
strtoull(a) == IF a.minus THEN Neg64(a.mag) ELSE a.mag

strtol(a) ==
  IF IsNeg(a.mag) THEN (IF a.minus THEN LONG_MIN ELSE LONG_MAX)
  ELSE strtoull(a)

(* get_multiplier: the word after the number, blanks skipped.              *)
get_multiplier(w) ==
  CASE w = "KiB" -> 1024
    [] w = "MiB" -> 1024 * 1024
    [] w = "GiB" -> 1024 * 1024 * 1024
    [] OTHER     -> -1

(* get_bytes: -1 (errmsg) for no digits, a negative long long or a bad     *)
(* suffix; otherwise the number times the multiplier, in long long.        *)
get_bytes(a) ==
  IF ~a.digits \/ IsNeg(strtoull(a)) THEN FromInt(-1)
  ELSE IF a.sfx = "" THEN strtoull(a)
  ELSE IF get_multiplier(a.sfx) = -1 THEN FromInt(-1)
  ELSE Mul64(strtoull(a), FromInt(get_multiplier(a.sfx)))

(* One option of the getopt_long loop: the field it sets and whether it    *)
(* makes get_options return an error.                                      *)
ApplyOption(cc, o, a) ==
  CASE o \in DOMAIN SizeField ->
         LET v == ToInt32(get_bytes(a))
         IN [c |-> [cc EXCEPT ![SizeField[o]] = v], bad |-> v <= 0]
    [] o = "j" ->
         [c |-> [cc EXCEPT !.max_bud_bytes = get_bytes(a)],
          bad |-> ~LtS64(Zero64, get_bytes(a))]
    [] o = "R" ->
         [c |-> [cc EXCEPT !.rp_size = get_bytes(a)],
          bad |-> IsNeg(get_bytes(a))]
    [] o \in {"r", "d"} ->
         [c |-> [cc EXCEPT !.root = {a}], bad |-> ~Exists(a)]
    [] o = "o" ->
         [c |-> [cc EXCEPT !.dev_name = {a}], bad |-> FALSE]
    [] o \in DOMAIN FlagField ->
         [c |-> [cc EXCEPT ![FlagField[o]] = TRUE], bad |-> FALSE]
    [] o \in {"s", "D"} -> [c |-> cc, bad |-> ~Stat(a)]
    [] o = "g" ->
         LET v == IF a.digits THEN ToInt32(strtol(a)) ELSE 0
         IN [c |-> [cc EXCEPT !.debug_level = v],
             bad |-> a.sfx # "" \/ ~a.digits \/ v < 0 \/ v > DEBUG_LEVEL]
    [] o = "k" ->
         [c |-> [cc EXCEPT !.key_hash = IF a \in KeyHashes THEN a ELSE @],
          bad |-> a \notin KeyHashes]
    [] o \in DOMAIN Exits -> [c |-> cc, bad |-> FALSE]
    [] o = "K" -> [c |-> [cc EXCEPT !.key_file = TRUE], bad |-> cc.key_file]
    [] o = "b" -> [c |-> [cc EXCEPT !.key_desc = TRUE], bad |-> cc.key_desc]
    [] o = "P" ->
         [c |-> [cc EXCEPT !.padding = ToInt32(a.mag)],
          bad |-> ~a.digits \/ a.sfx # ""
                  \/ a.mag \notin {FromInt(n) : n \in {4, 8, 16, 32}}]
    [] o \in {"C", "hash", "auth_key", "auth_cert"} ->
         [c |-> cc, bad |-> ~crypto]
    [] o \in DOMAIN CountField ->
         LET v == IF a.digits THEN ToInt32(strtol(a)) ELSE 0
         IN [c |-> [cc EXCEPT ![CountField[o]] = v],
             bad |-> a.sfx # "" \/ ~a.digits \/ v <= 0]

-----------------------------------------------------------------------------
(* calc_min_log_lebs: log LEBs for the journal's buds, in unsigned long   *)
(* long with buds and the result as int.                                   *)
calc_min_log_lebs(cc, max_bud_bytes) ==
  LET buds == ToInt32(UDiv64(Add64(max_bud_bytes, FromInt(cc.leb_size - 1)),
                             cc.leb_size))
      log_size ==
        Add64(Mul64(FromInt(ALIGN(UBIFS_REF_NODE_SZ, cc.min_io_size)),
                    FromInt(buds)),
              FromInt(ALIGN(UBIFS_CS_NODE_SZ
                              + UBIFS_REF_NODE_SZ * (JheadCntAtOptions + 2),
                            cc.min_io_size)))
  IN ToInt32(UDiv64(Add64(log_size, FromInt(cc.leb_size - 1)), cc.leb_size))
     + 1

(* add_space_overhead: size * factor / UBIFS_BLOCK_SIZE in long long; the  *)
(* index node is sized with c->key_len and no hash yet.                    *)
add_space_overhead(cc, size) ==
  LET max_idx_node_sz ==
        ToInt32(Add64(FromInt(UBIFS_IDX_NODE_SZ),
                      Mul64(FromInt(UBIFS_BRANCH_SZ + UBIFS_SK_LEN),
                            FromInt(cc.fanout))))
      f == IF cc.fanout > 3 THEN cc.fanout \div 2 ELSE 2
      factor == ToInt32(Add64(FromInt(UBIFS_MAX_DATA_NODE_SZ),
                  FromInt(CDiv(ToInt32(Mul64(FromInt(max_idx_node_sz),
                                             FromInt(3))), f - 1))))
  IN SDiv64(Mul64(size, FromInt(factor)), UBIFS_BLOCK_SIZE)

(* The checks of validate_options from the min. I/O one on, in order.      *)
ValidateRules(cc) ==
  << [why |-> "no_output", bad |-> cc.dev_name = {}],
     [why |-> "root_check_failed",
      bad |-> cc.root # {} /\ cc.dev_name # {}
                /\ is_contained(The(cc.dev_name), The(cc.root)) < 0],
     [why |-> "output_in_root",
      bad |-> cc.root # {} /\ cc.dev_name # {}
                /\ is_contained(The(cc.dev_name), The(cc.root)) = 1],
     [why |-> "min_io_pow2",  bad |-> ~is_power_of_2(cc.min_io_size)],
     [why |-> "leb_lt_min_io", bad |-> cc.leb_size < cc.min_io_size],
     [why |-> "leb_small",    bad |-> cc.leb_size < UBIFS_MIN_LEB_SZ],
     [why |-> "leb_unaligned", bad |-> cc.leb_size % cc.min_io_size # 0],
     [why |-> "leb_not_x8",   bad |-> cc.leb_size % 8 # 0],
     [why |-> "leb_large",    bad |-> cc.leb_size > UBIFS_MAX_LEB_SZ],
     [why |-> "few_lebs",     bad |-> cc.max_leb_cnt < UBIFS_MIN_LEB_CNT],
     [why |-> "fanout_low",   bad |-> cc.fanout < UBIFS_MIN_FANOUT],
     [why |-> "fanout_high",
      bad |-> cc.fanout > CDiv(cc.leb_size - UBIFS_IDX_NODE_SZ,
                                UBIFS_BRANCH_SZ + UBIFS_MAX_KEY_LEN)],
     [why |-> "few_log",      bad |-> cc.log_lebs < UBIFS_MIN_LOG_LEBS],
     [why |-> "many_log",
      bad |-> cc.log_lebs >= cc.max_leb_cnt - UBIFS_MIN_LEB_CNT],
     [why |-> "few_orph",     bad |-> cc.orph_lebs < UBIFS_MIN_ORPH_LEBS],
     [why |-> "many_orph",
      bad |-> cc.orph_lebs >= cc.max_leb_cnt - UBIFS_MIN_LEB_CNT],
     [why |-> "areas_too_big",
      bad |-> UBIFS_SB_LEBS + UBIFS_MST_LEBS + cc.log_lebs + LptLebsAtOptions
              + cc.orph_lebs + 4 > cc.max_leb_cnt],
     [why |-> "few_log_journal",
      bad |-> cc.log_lebs < calc_min_log_lebs(cc, cc.max_bud_bytes)],
     [why |-> "rp_big",
      bad |-> ~LtS64(cc.rp_size,
                     SDiv64(Mul64(FromInt(cc.leb_size),
                                  FromInt(cc.max_leb_cnt)), 2))] >>

(* validate_options: "ok", or the first check that fails.                  *)
validate_options(cc) ==
  LET failed == {k \in DOMAIN ValidateRules(cc) : ValidateRules(cc)[k].bad}
  IN IF failed = {} THEN "ok" ELSE ValidateRules(cc)[Min(failed)].why

-----------------------------------------------------------------------------
(* After the loop: on a UBI volume its min. I/O and LEB size replace -m    *)
(* and -e, and its reserved LEBs stand in for a missing -c.                *)
ubi_override(cc, t) ==
  IF t.ubi
    THEN [cc EXCEPT !.min_io_size = t.min_io, !.leb_size = t.leb,
                    !.max_leb_cnt = IF @ = -1 THEN t.rsvd ELSE @]
    ELSE cc

Unspecified(cc) ==
  cc.min_io_size = -1 \/ cc.leb_size = -1 \/ cc.max_leb_cnt = -1

(* Mutant of JournalDefault: no floor of four LEBs.                       *)
JournalDefaultNoFloor(cc) ==
  LET lebs == cc.max_leb_cnt - UBIFS_SB_LEBS - UBIFS_MST_LEBS - cc.orph_lebs
              - (IF cc.log_lebs # -1 THEN cc.log_lebs ELSE UBIFS_MIN_LOG_LEBS)
              - UBIFS_MIN_LPT_LEBS
      j0 == Mul64(FromInt(CDiv(lebs, 8)), FromInt(cc.leb_size))
  IN IF LtS64(FromInt(8 * 1024 * 1024), j0) THEN FromInt(8 * 1024 * 1024) ELSE j0

(* The default journal: an eighth of the main area as far as it is known,  *)
(* at most 8 MiB, at least 4 LEBs (4 * c->leb_size computed in int).       *)
JournalDefault(cc) ==
  LET lebs == cc.max_leb_cnt - UBIFS_SB_LEBS - UBIFS_MST_LEBS - cc.orph_lebs
              - (IF cc.log_lebs # -1 THEN cc.log_lebs ELSE UBIFS_MIN_LOG_LEBS)
              - UBIFS_MIN_LPT_LEBS
      j0 == Mul64(FromInt(CDiv(lebs, 8)), FromInt(cc.leb_size))
      j1 == IF LtS64(FromInt(8 * 1024 * 1024), j0)
              THEN FromInt(8 * 1024 * 1024) ELSE j0
      floor == FromInt(ToInt32(Mul64(FromInt(4), FromInt(cc.leb_size))))
  IN IF LtS64(j1, floor) THEN floor ELSE j1

WithJournal(cc) ==
  IF cc.max_bud_bytes = FromInt(-1)
    THEN [cc EXCEPT !.max_bud_bytes = JournalDefault(cc)] ELSE cc

WithLog(cc) ==
  IF cc.log_lebs = -1
    THEN [cc EXCEPT !.log_lebs = calc_min_log_lebs(cc, cc.max_bud_bytes) + 2]
    ELSE cc

(* Mutant of WithFloor: no floor of 8 bytes for the min. I/O unit.        *)
WithFloorNoMin(cc) == [cc EXCEPT !.rp_size = add_space_overhead(cc, @)]

(* The min. I/O floor and the reserved space overhead.                     *)
WithFloor(cc) ==
  [cc EXCEPT !.min_io_size = IF @ < 8 THEN 8 ELSE @,
             !.rp_size = add_space_overhead(cc, @)]

(* The defaults in the order get_options computes them.                    *)
Defaults(cc) == WithFloor(WithLog(WithJournal(cc)))

-----------------------------------------------------------------------------
Init ==
  /\ \E cl \in Cmdlines : args = cl.opts /\ operands = cl.operands
  /\ pos = 1
  /\ c = [min_io_size |-> -1, leb_size |-> -1, max_leb_cnt |-> -1,
          max_bud_bytes |-> FromInt(-1), log_lebs |-> -1, orph_lebs |-> 1,
          fanout |-> 8, rp_size |-> Zero64, dev_name |-> {}, root |-> {},
          squash_owner |-> FALSE, inum_attr |-> FALSE, key_file |-> FALSE,
          key_desc |-> FALSE, padding |-> 0, encrypted |-> FALSE,
          double_hash |-> FALSE, yes |-> FALSE, verbose |-> FALSE,
          space_fixup |-> FALSE, debug_level |-> 0, key_hash |-> "r5"]
  /\ target \in Targets
  /\ status = "parsing"
  /\ crypto \in BOOLEAN

(* One iteration of the getopt_long loop.                                  *)
ParseOption ==
  /\ status = "parsing"
  /\ pos <= Len(args)
  /\ LET r == ApplyOption(c, args[pos].o, args[pos].arg)
     IN /\ c' = r.c
        /\ status' = CASE args[pos].o \in DOMAIN Exits -> Exits[args[pos].o]
                        [] r.bad -> "bad_" \o args[pos].o
                        [] OTHER -> "parsing"
  /\ pos' = pos + 1
  /\ UNCHANGED <<args, operands, target, crypto>>

(* The first operand names the output if -o did not; then the UBI          *)
(* override (open_ubi), the checks for missing options, the defaults and   *)
(* validate_options.                                                       *)
WithOperand(cc) ==
  IF cc.dev_name = {} /\ operands # <<>>
    THEN [cc EXCEPT !.dev_name = {operands[1]}] ELSE cc

(* A key file or descriptor turns on encryption: it needs the crypto build *)
(* and a key file, and init_fscrypt_context, which reads the key, may fail *)
(* (loaded).  Returns the fields and "ok" or the error.                    *)
fscrypt_setup(cc, loaded) ==
  CASE ~cc.key_file /\ ~cc.key_desc -> [c |-> cc, why |-> "ok"]
    [] ~crypto      -> [c |-> cc, why |-> "no_crypto"]
    [] ~cc.key_file -> [c |-> cc, why |-> "no_key_file"]
    [] OTHER ->
         [c |-> [cc EXCEPT !.double_hash = TRUE, !.encrypted = TRUE],
          why |-> IF loaded THEN "ok" ELSE "fscrypt_failed"]

(* The end of the loop to the return of validate_options.                  *)
EndOfOptions ==
  /\ status = "parsing"
  /\ pos > Len(args)
  /\ \E loaded \in BOOLEAN :
       LET d == WithOperand(c)
           k == fscrypt_setup(ubi_override(d, target), loaded)
       IN CASE d.dev_name = {} -> c' = d /\ status' = "no_output"
            [] k.why # "ok" -> c' = k.c /\ status' = k.why
            [] Unspecified(k.c) -> c' = k.c /\ status' = "unspecified"
            [] OTHER -> c' = Defaults(k.c)
                        /\ status' = validate_options(Defaults(k.c))
  /\ UNCHANGED <<args, operands, pos, target, crypto>>

Next == ParseOption \/ EndOfOptions

Spec == Init /\ [][Next]_vars /\ WF_vars(Next)

-----------------------------------------------------------------------------
U64 == [Digits -> 0..255]

(* Whether option o was given at all.                                     *)
Given(o) == \E i \in DOMAIN args : args[i].o = o

Done == status # "parsing"

TypeOK ==
  /\ pos \in 1..Len(args) + 1
  /\ {c.min_io_size, c.leb_size, c.max_leb_cnt, c.fanout, c.log_lebs,
      c.orph_lebs} \subseteq Int
  /\ c.max_bud_bytes \in U64 /\ c.rp_size \in U64
  /\ status = "ok" => c.min_io_size >= 8

(* Without -l the log gets calc_min_log_lebs + 2 LEBs for the journal it   *)
(* will have, so validate_options never finds the log too small for the    *)
(* journal (lines 842-868 order the journal default before the log's).     *)
(* False for a -j whose bud count wraps the int at line 361.               *)
DefaultLogLebsSuffice ==
  Done /\ ~Given("l") => status \notin {"few_log", "few_log_journal"}

(* The default journal of an accepted geometry lies in [4 LEBs, 8 MiB], as  *)
(* the configuration of the spec states: the 8 MiB cap and the 4-LEB floor *)
(* of lines 856-862 applied in that order, with the LEB size validation   *)
(* only later bounds.                                                      *)
DefaultJournalClamped ==
  status = "ok" /\ ~Given("j") =>
    /\ ~LtS64(c.max_bud_bytes, FromInt(4 * c.leb_size))
    /\ ~LtS64(FromInt(8 * 1024 * 1024), c.max_bud_bytes)

(* An accepted command line never puts the output inside the root it      *)
(* packs: the directory the output is written to, canonicalized, is not   *)
(* the canonical root or beneath it, however the two were spelled          *)
(* (relative, through a link, with or without the '/' that get_options    *)
(* appends).  This is what the is_contained check of validate_options is  *)
(* for.                                                                    *)
OutputOutsideRoot ==
  status = "ok" /\ c.root # {} =>
    ~IsPrefix(realpath(The(c.root)), realpath(dirname(The(c.dev_name))))

-----------------------------------------------------------------------------
(* The refinement: get_options read as OptionsSpec, the command line as    *)
(* the request, the outcome as pending while the loop runs, then rejected  *)
(* or the geometry fields widened to 64 bits.                               *)
CodeGeometry ==
  [min_io |-> FromInt(c.min_io_size), leb |-> FromInt(c.leb_size),
   cnt |-> FromInt(c.max_leb_cnt), fanout |-> FromInt(c.fanout),
   log |-> FromInt(c.log_lebs), orph |-> FromInt(c.orph_lebs),
   jrn |-> c.max_bud_bytes, rp |-> c.rp_size,
   encrypted |-> FromInt(IF c.encrypted /\ c.double_hash THEN 1 ELSE 0)]
Unset == [f \in DOMAIN CodeGeometry |-> Zero64]
Outcome ==
  CASE status = "parsing" -> [state |-> "pending", geo |-> Unset]
    [] status = "ok"      -> [state |-> "ok", geo |-> CodeGeometry]
    [] status \in Range(Exits) -> [state |-> "exited", geo |-> Unset]
    [] OTHER              -> [state |-> "rejected", geo |-> Unset]

OS == INSTANCE OptionsSpec
        WITH req <- [opts |-> args, operands |-> operands], tgt <- target,
             result <- Outcome

(* get_options implements the options of the spec: it accepts exactly the *)
(* command lines the spec accepts, and gives each the spec's geometry,     *)
(* defaults included, with no value truncated to an int on the way.       *)
OptionsSpecRefined == OS!SafetySpec

=============================================================================
