------------------------------ MODULE Compress ------------------------------
(***************************************************************************)
(* How mkfs.ubifs picks the compressor of a data block.  Three pieces of   *)
(* code meet here:                                                         *)
(*   - get_options (-x, -X) and select_default_compr set                   *)
(*     c->default_compr, c->favor_lzo and c->favor_percent once;           *)
(*   - add_file chooses use_compr for every block from those settings and  *)
(*     the file's FS_COMPR_FL flag;                                        *)
(*   - compress_data and favor_lzo_compress (compr.c, src/unnamed/part_001)*)
(*     run the compressors and fall back to UBIFS_COMPR_NONE.              *)
(* Which compressors exist is fixed at build time (WITH_LZO, WITH_ZLIB,    *)
(* WITH_ZSTD): a behaviour picks its build from Builds in its first state  *)
(* and keeps it.  A compressor call is a library result: it fails, or it     *)
(* returns some output length, chosen from OutLens.                        *)
(***************************************************************************)
EXTENDS Integers

CONSTANTS
  Builds,       \* builds checked: each the set of compressors compiled in
  XArgs,        \* values given to -x, "absent" when the option is not given
  XPercentArgs, \* values given to -X when the option is given
  InLens,       \* bytes_read of a block (at most UBIFS_BLOCK_SIZE)
  OutLens,      \* output lengths a compressor can return
  MaxBlocks     \* number of blocks compressed in one run

(* Compression types of the on-flash format (ubifs-media.h).               *)
UBIFS_COMPR_NONE == 0
UBIFS_COMPR_LZO  == 1
UBIFS_COMPR_ZLIB == 2
UBIFS_COMPR_ZSTD == 3
UBIFS_MIN_COMPR_LEN == 128

Failed == -1
NoArg  == "absent"

Compressors == {"lzo", "zlib", "zstd"}
TypeName == [t \in {UBIFS_COMPR_LZO, UBIFS_COMPR_ZLIB, UBIFS_COMPR_ZSTD} |->
               CASE t = UBIFS_COMPR_LZO  -> "lzo"
                 [] t = UBIFS_COMPR_ZLIB -> "zlib"
                 [] t = UBIFS_COMPR_ZSTD -> "zstd"]

VARIABLE
  build   \* the compressors of this build, a member of Builds

(* The #ifdef WITH_LZO, WITH_ZLIB and WITH_ZSTD of the running build.      *)
WITH_LZO  == "lzo"  \in build
WITH_ZLIB == "zlib" \in build
WITH_ZSTD == "zstd" \in build

(* The compression types this build can run.                               *)
BuiltTypes ==
  {UBIFS_COMPR_NONE}
  \cup (IF WITH_LZO  THEN {UBIFS_COMPR_LZO}  ELSE {})
  \cup (IF WITH_ZLIB THEN {UBIFS_COMPR_ZLIB} ELSE {})
  \cup (IF WITH_ZSTD THEN {UBIFS_COMPR_ZSTD} ELSE {})

(* The results of one block's compressor calls: a function from each      *)
(* compressor to its output length, or Failed.                             *)
Outcomes == [Compressors -> OutLens \cup {Failed}]

VARIABLES
  phase,  \* "options", then "data", or "error" when get_options refuses
  cfg,    \* the compression fields of struct ubifs_info and c->encrypted
  blocks, \* blocks compressed so far
  last,   \* the last compress_data call: its inputs and its result
  errcnt  \* compr.c's errcnt

vars == <<build, phase, cfg, blocks, last, errcnt>>

NoCall == [in_len |-> 0, use_compr |-> UBIFS_COMPR_NONE, favor |-> FALSE,
           out |-> [c \in Compressors |-> Failed], compr |-> UBIFS_COMPR_NONE,
           len |-> 0]

-----------------------------------------------------------------------------
(* Mutant of select_default_compr: LZO whatever the build has.             *)
select_default_compr_lzo(encrypted) ==
  IF encrypted THEN UBIFS_COMPR_NONE ELSE UBIFS_COMPR_LZO

(* select_default_compr: no compression for an encrypted image, otherwise  *)
(* the first compressor the build has of LZO and ZLIB.                     *)
select_default_compr(encrypted) ==
  IF encrypted THEN UBIFS_COMPR_NONE
  ELSE IF WITH_LZO THEN UBIFS_COMPR_LZO
  ELSE IF WITH_ZLIB THEN UBIFS_COMPR_ZLIB
  ELSE UBIFS_COMPR_NONE

(* The -x names and the type each one sets, when the build has it.         *)
XType ==
  [x \in {"none", "zlib", "zstd", "lzo", "favor_lzo"} |->
     CASE x = "none"      -> [ok |-> TRUE, t |-> UBIFS_COMPR_NONE]
       [] x = "zlib"      -> [ok |-> WITH_ZLIB, t |-> UBIFS_COMPR_ZLIB]
       [] x = "zstd"      -> [ok |-> WITH_ZSTD, t |-> UBIFS_COMPR_ZSTD]
       [] x = "lzo"       -> [ok |-> WITH_LZO, t |-> UBIFS_COMPR_LZO]
       [] x = "favor_lzo" -> [ok |-> WITH_LZO /\ WITH_ZLIB,
                              t |-> UBIFS_COMPR_LZO]]

(* get_options, its compression part: -x and -X (when Xgiven) are checked, *)
(* and a missing -x is filled in by select_default_compr once the key      *)
(* Mutant of get_options: -X accepts 100.                                   *)
get_options_percent_le100(xarg, Xgiven, Xarg, encrypted) ==
  LET xok == xarg = NoArg \/ (xarg \in DOMAIN XType /\ XType[xarg].ok)
      Xok == ~Xgiven \/ ((WITH_LZO \/ WITH_ZLIB) /\ 0 < Xarg /\ Xarg <= 100)
  IN [ok            |-> xok /\ Xok,
      encrypted     |-> encrypted,
      x_given       |-> xarg # NoArg,
      favor_lzo     |-> xarg = "favor_lzo",
      favor_percent |-> IF Xgiven THEN Xarg ELSE 20,
      default_compr |-> IF xarg = NoArg \/ ~xok
                          THEN select_default_compr(encrypted)
                          ELSE XType[xarg].t]

(* options have set c->encrypted.  Returns the new cfg, or ok = FALSE.     *)
get_options(xarg, Xgiven, Xarg, encrypted) ==
  LET xok == xarg = NoArg \/ (xarg \in DOMAIN XType /\ XType[xarg].ok)
      Xok == ~Xgiven \/ ((WITH_LZO \/ WITH_ZLIB) /\ 0 < Xarg /\ Xarg < 100)
  IN [ok            |-> xok /\ Xok,
      encrypted     |-> encrypted,
      x_given       |-> xarg # NoArg,
      favor_lzo     |-> xarg = "favor_lzo",
      favor_percent |-> IF Xgiven THEN Xarg ELSE 20,
      default_compr |-> IF xarg = NoArg \/ ~xok
                          THEN select_default_compr(encrypted)
                          ELSE XType[xarg].t]

(* Mutant of add_file: the FS_COMPR_FL fallback ignores c->encrypted.      *)
add_file_use_compr_unencrypted(c, fl) ==
  IF c.default_compr = UBIFS_COMPR_NONE /\ fl
    THEN IF WITH_LZO THEN UBIFS_COMPR_LZO
         ELSE IF WITH_ZLIB THEN UBIFS_COMPR_ZLIB
         ELSE UBIFS_COMPR_NONE
    ELSE c.default_compr

(* add_file: the type handed to compress_data for one block.               *)
add_file_use_compr(c, fl) ==
  IF c.default_compr = UBIFS_COMPR_NONE /\ ~c.encrypted /\ fl
    THEN IF WITH_LZO THEN UBIFS_COMPR_LZO
         ELSE IF WITH_ZLIB THEN UBIFS_COMPR_ZLIB
         ELSE UBIFS_COMPR_NONE
    ELSE c.default_compr

(* One compressor run (lzo_compress, zlib_deflate, zstd_compress): ret is  *)
(* -1 and errcnt goes up on failure, otherwise out_len is set.             *)
RunCompr(o, name) ==
  [ret |-> IF o[name] = Failed THEN -1 ELSE 0,
   len |-> o[name],
   err |-> IF o[name] = Failed THEN 1 ELSE 0]

(* favor_lzo_compress: both compressors run; LZO is taken unless ZLIB's    *)
(* output is at most (100 - favor_percent)% of LZO's.  The code compares   *)
(* the double (zlib_len / lzo_len) * 100 with 100 - favor_percent; away    *)
(* from equality that is the exact comparison, at equality the rounding   *)
(* Mutant of favor_lzo_compress: the percentage is compared with           *)
(* favor_percent instead of 100 - favor_percent.                           *)
favor_lzo_compress_vs_f(o, f, type) ==
  LET l   == RunCompr(o, "lzo")
      z   == RunCompr(o, "zlib")
      err == l.err + z.err
      pick(t) == IF t = UBIFS_COMPR_LZO
                   THEN [ret |-> 0, len |-> l.len, type |-> t, err |-> err]
                   ELSE [ret |-> 0, len |-> z.len, type |-> t, err |-> err]
  IN IF l.ret # 0 /\ z.ret # 0
       THEN {[ret |-> -1, len |-> l.len, type |-> type, err |-> err]}
     ELSE IF l.ret = 0 /\ z.ret = 0
       THEN IF l.len <= z.len THEN {pick(UBIFS_COMPR_LZO)}
            ELSE IF z.len * 100 > f * l.len THEN {pick(UBIFS_COMPR_LZO)}
            ELSE IF z.len * 100 < f * l.len THEN {pick(UBIFS_COMPR_ZLIB)}
            ELSE {pick(UBIFS_COMPR_LZO), pick(UBIFS_COMPR_ZLIB)}
     ELSE IF l.ret # 0 THEN {pick(UBIFS_COMPR_ZLIB)}
     ELSE {pick(UBIFS_COMPR_LZO)}

(* decides, so both outcomes are possible there.                           *)
favor_lzo_compress(o, f, type) ==
  LET l   == RunCompr(o, "lzo")
      z   == RunCompr(o, "zlib")
      err == l.err + z.err
      pick(t) == IF t = UBIFS_COMPR_LZO
                   THEN [ret |-> 0, len |-> l.len, type |-> t, err |-> err]
                   ELSE [ret |-> 0, len |-> z.len, type |-> t, err |-> err]
  IN IF l.ret # 0 /\ z.ret # 0
       THEN {[ret |-> -1, len |-> l.len, type |-> type, err |-> err]}
     ELSE IF l.ret = 0 /\ z.ret = 0
       THEN IF l.len <= z.len THEN {pick(UBIFS_COMPR_LZO)}
            ELSE IF z.len * 100 > (100 - f) * l.len THEN {pick(UBIFS_COMPR_LZO)}
            ELSE IF z.len * 100 < (100 - f) * l.len THEN {pick(UBIFS_COMPR_ZLIB)}
            ELSE {pick(UBIFS_COMPR_LZO), pick(UBIFS_COMPR_ZLIB)}
     ELSE IF l.ret # 0 THEN {pick(UBIFS_COMPR_ZLIB)}
     ELSE {pick(UBIFS_COMPR_LZO)}

(* The switch of compress_data on the requested type.  A type the build    *)
(* lacks falls to the default case, which counts an error.                 *)
compr_switch(o, type) ==
  IF type \in BuiltTypes \ {UBIFS_COMPR_NONE}
    THEN LET r == RunCompr(o, TypeName[type])
         IN [ret |-> r.ret, len |-> r.len, type |-> type, err |-> r.err]
    ELSE [ret |-> 1, len |-> 0, type |-> type,
          err |-> IF type = UBIFS_COMPR_NONE THEN 0 ELSE 1]

(* compress_data: short blocks are stored as they are; otherwise the       *)
(* compressor's output is kept only when it succeeded and is shorter than  *)
(* Mutant of compress_data: output as long as the input is kept.           *)
compress_data_keep_equal(in_len, type, favor, f, o) ==
  LET runs == IF WITH_LZO /\ WITH_ZLIB /\ favor
                THEN favor_lzo_compress(o, f, type)
                ELSE {compr_switch(o, type)}
      finish(r) == IF r.ret # 0 \/ r.len > in_len
                     THEN [compr |-> UBIFS_COMPR_NONE, len |-> in_len, err |-> r.err]
                     ELSE [compr |-> r.type, len |-> r.len, err |-> r.err]
  IN IF in_len < UBIFS_MIN_COMPR_LEN
       THEN {[compr |-> UBIFS_COMPR_NONE, len |-> in_len, err |-> 0]}
       ELSE {finish(r) : r \in runs}

(* the input.  Returns the possible [compr, len, err].                     *)
compress_data(in_len, type, favor, f, o) ==
  LET runs == IF WITH_LZO /\ WITH_ZLIB /\ favor
                THEN favor_lzo_compress(o, f, type)
                ELSE {compr_switch(o, type)}
      finish(r) == IF r.ret # 0 \/ r.len >= in_len
                     THEN [compr |-> UBIFS_COMPR_NONE, len |-> in_len, err |-> r.err]
                     ELSE [compr |-> r.type, len |-> r.len, err |-> r.err]
  IN IF in_len < UBIFS_MIN_COMPR_LEN
       THEN {[compr |-> UBIFS_COMPR_NONE, len |-> in_len, err |-> 0]}
       ELSE {finish(r) : r \in runs}

-----------------------------------------------------------------------------
Init ==
  /\ build \in Builds
  /\ phase = "options"
  /\ cfg = [ok |-> TRUE, encrypted |-> FALSE, x_given |-> FALSE,
            favor_lzo |-> FALSE, favor_percent |-> 20, default_compr |-> -1]
  /\ blocks = 0
  /\ last = NoCall
  /\ errcnt = 0

(* get_options with one choice of -x, -X and key options.                  *)
GetOptions ==
  /\ phase = "options"
  /\ \E xarg \in XArgs, Xgiven \in BOOLEAN, Xarg \in XPercentArgs,
        encrypted \in BOOLEAN :
       LET c == get_options(xarg, Xgiven, Xarg, encrypted)
       IN /\ cfg' = c
          /\ phase' = IF c.ok THEN "data" ELSE "error"
  /\ UNCHANGED <<build, blocks, last, errcnt>>

(* One block of add_file that is not a hole: use_compr, then compress_data *)
AddFileBlock ==
  /\ phase = "data"
  /\ blocks < MaxBlocks
  /\ \E in_len \in InLens, fl \in BOOLEAN, o \in Outcomes :
       LET use_compr == add_file_use_compr(cfg, fl)
       IN \E r \in compress_data(in_len, use_compr, cfg.favor_lzo,
                                 cfg.favor_percent, o) :
            /\ last' = [in_len |-> in_len, use_compr |-> use_compr,
                        favor |-> cfg.favor_lzo, out |-> o,
                        compr |-> r.compr, len |-> r.len]
            /\ errcnt' = errcnt + r.err
  /\ blocks' = blocks + 1
  /\ UNCHANGED <<build, phase, cfg>>

Next == GetOptions \/ AddFileBlock

Spec == Init /\ [][Next]_vars

-----------------------------------------------------------------------------
TypeOK ==
  /\ build \in Builds
  /\ phase \in {"options", "data", "error"}
  /\ phase = "data" => cfg.favor_percent \in 1..99
  /\ cfg.default_compr \in {-1, UBIFS_COMPR_NONE, UBIFS_COMPR_LZO,
                            UBIFS_COMPR_ZLIB, UBIFS_COMPR_ZSTD}
  /\ blocks \in 0..MaxBlocks
  /\ last.compr \in {UBIFS_COMPR_NONE, UBIFS_COMPR_LZO,
                     UBIFS_COMPR_ZLIB, UBIFS_COMPR_ZSTD}
  /\ last.len \in Nat
  /\ errcnt \in 0..(2 * MaxBlocks)

(* A data node can be read back: a block stored as NONE carries all of     *)
(* its bytes, and a compressed block names a compressor the build has, is *)
(* shorter than its input and is exactly that compressor's output.  This  *)
(* is what add_file's dn->compr_type and out_len rely on.                  *)
ResultDecodable ==
  blocks > 0 =>
    IF last.compr = UBIFS_COMPR_NONE
      THEN last.len = last.in_len
      ELSE /\ last.compr \in BuiltTypes
           /\ last.in_len >= UBIFS_MIN_COMPR_LEN
           /\ last.len < last.in_len
           /\ last.len = last.out[TypeName[last.compr]]

(* Every type add_file hands to compress_data is one this build can run:   *)
(* the -x parsing, select_default_compr and the FS_COMPR_FL fallback in    *)
(* add_file never reach compress_data's default case.                      *)
CompressorAlwaysBuilt ==
  blocks > 0 => last.use_compr \in BuiltTypes

(* An encrypted image with no -x has no compressed block, even for files   *)
(* with FS_COMPR_FL: select_default_compr picks NONE and add_file does not *)
(* fall back to a compressor when c->encrypted is set.                     *)
EncryptedNotCompressed ==
  (blocks > 0 /\ cfg.encrypted /\ ~cfg.x_given) => last.compr = UBIFS_COMPR_NONE

(* favor_lzo: when both compressors succeeded and a compressed block was   *)
(* kept, ZLIB was chosen only if its output is at most (100 -              *)
(* favor_percent)% of LZO's, and LZO only if ZLIB's is at least that.      *)
FavorLzoPolicy ==
  LET l == last.out["lzo"]
      z == last.out["zlib"]
      f == cfg.favor_percent
  IN (blocks > 0 /\ last.favor /\ l # Failed /\ z # Failed) =>
       /\ last.compr = UBIFS_COMPR_ZLIB => z * 100 <= (100 - f) * l
       /\ last.compr = UBIFS_COMPR_LZO  => (l <= z \/ z * 100 >= (100 - f) * l)

=============================================================================
