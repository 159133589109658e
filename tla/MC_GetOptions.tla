--------------------------- MODULE MC_GetOptions ---------------------------
(***************************************************************************)
(* Command lines for GetOptions: a valid base (-m 512 -e 15KiB -c 40) and  *)
(* the same with one or two options added or left out, each picked to     *)
(* reach one check of get_options or validate_options, a default, or a     *)
(* conversion at its limit (values above 4 GiB, negative numbers,          *)
(* suffixes strtol does not accept).  The output is a file or a UBI volume *)
(* of 2048-byte pages and 126976-byte LEBs.  The base also gets the       *)
(* output and root paths: roots given directly, through a link, relative  *)
(* or missing, outputs inside, beside ("/a/bc") and far below ("/x/a/b")   *)
(* the root.                                                               *)
(***************************************************************************)
EXTENDS GetOptions

(* Argument strings, as strtoull/strtol read them.                        *)
Num(n, s) == [digits |-> TRUE, minus |-> FALSE, mag |-> FromInt(n), sfx |-> s]
Minus(n) == [Num(n, "") EXCEPT !.minus = TRUE]
(* hi * 2^32 + lo, a number no int holds.                                 *)
Big(hi, lo) ==
  [Num(lo, "") EXCEPT !.mag = [k \in Digits |->
                                 IF k <= 4 THEN FromInt(lo)[k]
                                 ELSE FromInt(hi)[k - 4]]]
NoDigits == [digits |-> FALSE, minus |-> FALSE, mag |-> Zero64, sfx |-> "x"]

Opt(o, a) == [o |-> o, arg |-> a]
Key == "key"   \* a key file, descriptor, cipher or algorithm name

BaseM == Opt("m", Num(512, ""))
BaseE == Opt("e", Num(15, "KiB"))
BaseC == Opt("c", Num(40, ""))
Base == <<BaseM, BaseE, BaseC>>

Extra ==
  { <<Opt("c", Num(n, ""))>> : n \in {17, 22, 16, 1000} }
  \cup { <<Opt("c", Big(1, 40))>>, <<Opt("c", Minus(5))>> }
  \cup { <<Opt("m", Num(n, ""))>> : n \in {4, 6} }
  \cup { <<Opt("m", Big(1, 512))>>, <<Opt("m", Num(2, "KiB"))>> }
  \cup { <<Opt("e", Big(1, 15360))>>, <<Opt("e", Num(4, "MiB"))>>,
         <<Opt("e", Num(15, "kB"))>>, <<Opt("e", NoDigits)>>,
         <<Opt("e", Num(128, "KiB"))>> }
  \cup { <<Opt("j", Num(1, "MiB"))>>, <<Opt("j", Num(32768, "GiB"))>>,
         <<Opt("j", Num(0, ""))>> }
  \cup { <<Opt("l", Num(n, ""))>> : n \in {2, 30} }
  \cup { <<Opt("l", Num(5, "KiB"))>>, <<Opt("p", Num(15, ""))>>,
         <<Opt("c", Num(30, "")), Opt("l", Num(11, "")),
           Opt("p", Num(12, ""))>> }
  \cup { <<Opt("f", Num(n, ""))>> : n \in {200, 600} }
  \cup { <<Opt("f", Big(1, 8))>> }
  \cup { <<Opt("R", Num(64, "KiB"))>>, <<Opt("R", Num(1, "MiB"))>>,
         <<Opt("R", Num(2000000, "GiB"))>> }
  \cup { <<Opt("f", Num(2, ""))>>, <<Opt("l", Num(1, ""))>>,
         <<Opt("p", Num(23, ""))>>, <<Opt("m", Num(24, ""))>>,
         <<Opt("m", Num(16, "KiB"))>>, <<Opt("e", Num(8200, ""))>>,
         <<Opt("c", Num(30, "")), Opt("l", Num(12, "")),
           Opt("p", Num(12, ""))>>,
         <<Opt("j", Num(1, "MiB")), Opt("l", Num(2, ""))>>,
         <<Opt("e", Num(16, "KiB")), Opt("j", Num(32768, "GiB")),
           Opt("l", Num(5, ""))>>,
         <<Opt("m", Num(8, "")), Opt("j", Num(3640320, "")),
           Opt("l", Num(2, ""))>>,
         <<Opt("e", Num(16, "KiB")), Opt("j", Num(32768, "GiB"))>>,
         <<Opt("m", Num(8, "")), Opt("j", Num(3640320, ""))>> }
  \cup { <<Opt("U", NoDigits)>>, <<Opt("a", NoDigits)>>,
         <<Opt("s", <<"a", "f">>)>>, <<Opt("s", <<"nope">>)>>,
         <<Opt("K", Key)>>, <<Opt("K", Key), Opt("K", Key)>>,
         <<Opt("b", Key)>>, <<Opt("b", Key), Opt("b", Key)>>,
         <<Opt("K", Key), Opt("b", Key), Opt("P", Num(16, ""))>>,
         <<Opt("P", Num(7, ""))>>, <<Opt("P", Num(16, "KiB"))>>,
         <<Opt("C", Key)>>, <<Opt("hash", Key)>> }
  \cup { <<Opt("D", <<"a", "f">>)>>, <<Opt("D", <<"nope">>)>>,
         <<Opt("y", NoDigits), Opt("v", NoDigits), Opt("F", NoDigits)>>,
         <<Opt("g", Num(2, ""))>>, <<Opt("g", Num(7, ""))>>,
         <<Opt("g", NoDigits)>>, <<Opt("k", "test")>>, <<Opt("k", Key)>>,
         <<Opt("h", NoDigits)>>, <<Opt("V", NoDigits)>>, <<Opt("?", NoDigits)>>,
         <<Opt("P", Num(7, "")), Opt("h", NoDigits)>> }

Img == <<".", "ubifs.img">>
Cmd(opts, out) == [opts |-> opts, operands |-> out]

Roots == {<<"a", "b">>, <<"l">>, <<".">>, <<"a", "b", "c">>, <<>>, <<"nope">>}
Outputs ==
  {<<"a", "b", "img">>, <<"a", "b", "c", "img">>, <<"a", "bc", "img">>,
   <<"x", "a", "b", "img">>, <<"x", "img">>, <<".", "img">>, <<"l", "img">>,
   <<".", "c", "img">>, <<"img">>, <<"nope", "img">>}

PathCmdlines ==
  {Cmd(Base \o <<Opt("r", r)>>, <<o>>) : r \in Roots, o \in Outputs}
  \cup {Cmd(Base \o <<Opt("d", <<"a", "b">>), Opt("o", <<"x", "img">>)>>,
            <<<<"a", "b", "img">>>>),
        Cmd(Base \o <<Opt("o", <<"a", "b", "img">>), Opt("r", <<"x">>)>>, <<>>),
        Cmd(Base \o <<Opt("r", <<"a", "b">>), Opt("r", <<"x">>)>>,
            <<<<"a", "b", "img">>>>),
        Cmd(Base \o <<Opt("r", <<"a", "f">>)>>, <<Img>>),
        Cmd(Base, <<>>)}

MC_Cmdlines ==
  {Cmd(x, <<Img>>) : x \in {Base, <<BaseE, BaseC>>, <<BaseM, BaseE>>}}
  \cup {Cmd(Base \o x, <<Img>>) : x \in Extra} \cup PathCmdlines

MC_Dirs ==
  {<<>>, <<"a">>, <<"a", "b">>, <<"a", "b", "c">>, <<"a", "bc">>, <<"x">>,
   <<"x", "a">>, <<"x", "a", "b">>}
MC_Files == {<<"a", "f">>}
MC_Links == [n \in {"l"} |-> <<"a", "b">>]
MC_Cwd == <<"a", "b">>

MC_Targets ==
  { [ubi |-> FALSE, min_io |-> 0, leb |-> 0, rsvd |-> 0],
    [ubi |-> TRUE, min_io |-> 2048, leb |-> 126976, rsvd |-> 100] }

=============================================================================
