---------------------------- MODULE MCInputReader ----------------------------
(***************************************************************************)
(* The instance of InputReader for TLC: pages of two words, words of one   *)
(* byte, and every file that has up to two sections and lengths around the *)
(* boundaries, whether or not the file is as long as its header says.      *)
(***************************************************************************)
EXTENDS InputReader

Section == [len : {8, 248}, type : {"DATA", "SYMD"}, rim : BOOLEAN]
Uneven == [len |-> 12, type |-> "DATA", rim |-> TRUE]

File(magics, stes, insts, eats, ssts, sts, contents) ==
    [magic : magics, ste : stes, inst : insts, eat : eats, sst : ssts, st : sts,
     sections : contents, len : {39, 40, 48, 56, 64, 72, 80, 96, 112, 128}]

\* The SsT has an entry for each section.
Described ==
    File({"MIN"}, BOOLEAN, {8, 16, 24}, {0, 8, 24}, {0}, {0, 8, 16}, {<<>>})
    \cup File({"MIN"}, BOOLEAN, {8, 16}, {0, 8}, {16}, {0, 8, 16},
              {<<s>> : s \in Section \cup {Uneven}})
    \cup File({"MIN"}, {TRUE}, {8, 40}, {8}, {32}, {8, 248},
              {<<s, t>> : s, t \in Section})

\* Other files, and headers with lengths that are odd or wrap.
Odd == File({"MIN", "other"}, {TRUE}, {0, 8, 12, 240}, {0, 12, 248}, {0, 8, 240}, {0, 8, 248}, {<<>>})

AnyFile == Described \cup Odd

=============================================================================
