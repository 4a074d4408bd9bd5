--------------------------- MODULE MCVersionParser ---------------------------
(***************************************************************************)
(* Inputs for openssl_version_parser: every combination of field values    *)
(* at and just past their widths (4, 8, 8 bits) with the suffixes of the   *)
(* code's own examples, and strings whose separators are wrong.            *)
(***************************************************************************)
EXTENDS VersionParser

Chars(str) == [i \in 1..Len(str) |-> SubSeq(str, i, i)]

MCSuffixes ==
  { [kind |-> "release", text |-> <<>>],
    [kind |-> "letters", text |-> <<"u">>, letters |-> <<"u">>],
    [kind |-> "letters", text |-> <<"z", "h">>, letters |-> <<"z", "h">>],
    [kind |-> "beta", text |-> Chars("-beta2"), n |-> 2],
    [kind |-> "beta", text |-> Chars("-beta14"), n |-> 14],
    [kind |-> "beta", text |-> Chars("-beta15"), n |-> 15],
    [kind |-> "dev", text |-> Chars("-alpha17")],
    [kind |-> "dev", text |-> Chars("-dev")] }

MCVersions ==
  [major : {0, 3, 15, 16}, minor : {0, 255, 256}, fix : {2, 256}, suffix : MCSuffixes]

MCMalformed ==
  { Chars("3"), Chars("3.0"), Chars("3.0."), Chars("3..0"), Chars("-1.0.0"),
    Chars("a.b.c"), Chars("3.0.0.1"), Chars(" 3.0.0") }

=============================================================================
