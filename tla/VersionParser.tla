---------------------------- MODULE VersionParser ----------------------------
(***************************************************************************)
(* openssl_version_parser of src/ssl_utils.c: "MAJOR.MINOR.FIX[suffix]" to *)
(* the OpenSSL number MNNFFPPS (major 4 bits, minor 8, fix 8, patch 8,     *)
(* status 4).  The number is represented by its five fields              *)
(* <<major, minor, fix, patch, status>>, which the bit layout determines    *)
(* one-to-one (and orders lexicographically); 0 is <<0, 0, 0, 0, 0>>.      *)
(*                                                                         *)
(* Strings are sequences of one-character strings; reading past the end   *)
(* yields the terminating NUL.  strtol is modelled by what it does on      *)
(* short inputs: leading blanks, a sign, a run of digits, end pointer left *)
(* at the start when there are no digits.  The long it returns is stored   *)
(* in an unsigned int, so a negative value compares above every bound.     *)
(***************************************************************************)
EXTENDS Integers, Sequences, SequencesExt, Bitwise

CONSTANTS
  Versions,     \* well-formed versions: [major, minor, fix, suffix]
  Malformed     \* other strings given to the parser

VARIABLES input, result, pc
vars == <<input, result, pc>>

NUL == "NUL"
Letters == <<"a","b","c","d","e","f","g","h","i","j","k","l","m",
             "n","o","p","q","r","s","t","u","v","w","x","y","z">>
Digits == <<"0","1","2","3","4","5","6","7","8","9">>

(* ASCII codes of the characters the inputs are made of. *)
Ascii(c) ==
  CASE c \in ToSet(Digits)  -> 48 + CHOOSE d \in 0..9 : Digits[d + 1] = c
    [] c \in ToSet(Letters) -> 97 + CHOOSE l \in 0..25 : Letters[l + 1] = c
    [] c = "." -> 46
    [] c = "-" -> 45
    [] c = "+" -> 43
    [] c = " " -> 32
    [] OTHER   -> 0

At(s, k) == IF k <= Len(s) THEN s[k] ELSE NUL
IsDigit(c) == c \in ToSet(Digits)

RECURSIVE SkipBlanks(_, _)
SkipBlanks(s, k) == IF At(s, k) = " " THEN SkipBlanks(s, k + 1) ELSE k

RECURSIVE DigitRun(_, _)
DigitRun(s, k) == IF IsDigit(At(s, k)) THEN 1 + DigitRun(s, k + 1) ELSE 0

(* strtol(s + i - 1, &end, 10): the value and the 1-based end position. *)
Strtol(s, i) ==
  LET j == SkipBlanks(s, i)
      k == IF At(s, j) \in {"+", "-"} THEN j + 1 ELSE j
      n == DigitRun(s, k)
      v == FoldLeft(LAMBDA acc, c : 10 * acc + (Ascii(c) - 48), 0, SubSeq(s, k, k + n - 1))
  IN IF n = 0 THEN [val |-> 0, end |-> i]
     ELSE [val |-> IF At(s, j) = "-" THEN -v ELSE v, end |-> k + n]

(* x > bound once x is stored in an unsigned int. *)
UGt(x, bound) == x < 0 \/ x > bound

Zero == <<0, 0, 0, 0, 0>>

(* Mutant: the accumulated patch is not masked to its byte. *)
PatchOfUnmasked(s, p) ==
  1 + FoldLeft(LAMBDA acc, c : acc + ((Ascii(c) & 223) - 65), 0, SubSeq(s, p, Len(s)))

(* The letters after the fix number: 1 plus, for each character, its code  *)
(* with bit 0x20 cleared minus 'A'; unsigned arithmetic, masked to a byte. *)
PatchOf(s, p) ==
  (1 + FoldLeft(LAMBDA acc, c : acc + ((Ascii(c) & 223) - 65), 0, SubSeq(s, p, Len(s)))) % 256

(* Mutant: the major bound is off by one. *)
OpensslVersionParserMajorOffByOne(s) ==
  IF s = <<>> THEN Zero
  ELSE LET ma == Strtol(s, 1) IN
  IF At(s, ma.end) # "." \/ UGt(ma.val, 16) THEN Zero
  ELSE LET mi == Strtol(s, ma.end + 1) IN
  IF At(s, mi.end) # "." \/ UGt(mi.val, 255) THEN Zero
  ELSE LET fx == Strtol(s, mi.end + 1) IN
  IF UGt(fx.val, 255) THEN Zero
  ELSE LET p == fx.end IN
  IF At(s, p) = NUL THEN <<ma.val % 16, mi.val, fx.val, 0, 15>>
  ELSE IF At(s, p) = "-"
  THEN IF <<At(s, p + 1), At(s, p + 2), At(s, p + 3), At(s, p + 4)>> = <<"b", "e", "t", "a">>
       THEN LET st == Strtol(s, p + 5) IN
            IF UGt(st.val, 14) THEN Zero ELSE <<ma.val % 16, mi.val, fx.val, 0, st.val>>
       ELSE <<ma.val % 16, mi.val, fx.val, 0, 0>>
  ELSE <<ma.val % 16, mi.val, fx.val, PatchOf(s, p), 15>>

(* The parser, field by field; every "goto error" returns 0.  After the   *)
(* fix number: end of string is a release, "-beta<N>" a beta with status  *)
(* N (at most 14), any other "-..." a development version (status 0), and *)
(* any other text a letter release whose patch is computed by PatchOf.    *)
OpensslVersionParser(s) ==
  IF s = <<>> THEN Zero
  ELSE LET ma == Strtol(s, 1) IN
  IF At(s, ma.end) # "." \/ UGt(ma.val, 15) THEN Zero
  ELSE LET mi == Strtol(s, ma.end + 1) IN
  IF At(s, mi.end) # "." \/ UGt(mi.val, 255) THEN Zero
  ELSE LET fx == Strtol(s, mi.end + 1) IN
  IF UGt(fx.val, 255) THEN Zero
  ELSE LET p == fx.end IN
  IF At(s, p) = NUL THEN <<ma.val, mi.val, fx.val, 0, 15>>
  ELSE IF At(s, p) = "-"
  THEN IF <<At(s, p + 1), At(s, p + 2), At(s, p + 3), At(s, p + 4)>> = <<"b", "e", "t", "a">>
       THEN LET st == Strtol(s, p + 5) IN
            IF UGt(st.val, 14) THEN Zero ELSE <<ma.val, mi.val, fx.val, 0, st.val>>
       ELSE <<ma.val, mi.val, fx.val, 0, 0>>
  ELSE <<ma.val, mi.val, fx.val, PatchOf(s, p), 15>>

-----------------------------------------------------------------------------
RECURSIVE Decimal(_)
Decimal(n) == IF n < 10 THEN <<Digits[n + 1]>> ELSE Decimal(n \div 10) \o <<Digits[(n % 10) + 1]>>

(* The text of a well-formed version. *)
Text(v) == Decimal(v.major) \o <<".">> \o Decimal(v.minor) \o <<".">> \o Decimal(v.fix)
             \o v.suffix.text

Inputs == {Text(v) : v \in Versions} \cup Malformed

Init ==
  /\ input \in Inputs
  /\ result = Zero
  /\ pc = "call"

CallOpensslVersionParser ==
  /\ pc = "call"
  /\ result' = OpensslVersionParser(input)
  /\ pc' = "returned"
  /\ UNCHANGED input

Next == CallOpensslVersionParser
Spec == Init /\ [][Next]_vars

-----------------------------------------------------------------------------
(* Properties.                                                             *)

TypeOK ==
  /\ input \in Inputs
  /\ pc \in {"call", "returned"}
  /\ result \in (0..15) \X (0..255) \X (0..255) \X (0..255) \X (0..15)

(* The number the comment's MNNFFPPS table gives a version: status 0xf for *)
(* a release and for a letter release (a = 1, ..., z = 26, za = 26, ...,   *)
(* zh = 33), 1..14 for -beta1..-beta14, 0 for any other "-" suffix; 0 if  *)
(* a field does not fit its width.                                         *)
LetterRelease(l) == 1 + FoldLeft(LAMBDA acc, c : acc + (Ascii(c) - 97), 0, l)

Expected(v) ==
  IF v.major > 15 \/ v.minor > 255 \/ v.fix > 255 THEN Zero
  ELSE CASE v.suffix.kind = "release" -> <<v.major, v.minor, v.fix, 0, 15>>
         [] v.suffix.kind = "letters" -> <<v.major, v.minor, v.fix, LetterRelease(v.suffix.letters), 15>>
         [] v.suffix.kind = "beta"    ->
              IF v.suffix.n > 14 THEN Zero ELSE <<v.major, v.minor, v.fix, 0, v.suffix.n>>
         [] v.suffix.kind = "dev"     -> <<v.major, v.minor, v.fix, 0, 0>>

(* Every well-formed version string is given the number its fields and     *)
(* suffix call for, and one with a field too wide for its bits is refused. *)
VersionPacking ==
  pc = "returned" =>
    \A v \in Versions : Text(v) = input => result = Expected(v)

(* Spec section 4.3 on the grammar: a "-<anything-else>" suffix other    *)
(* than "-beta<N>" is a pre-release "patch" build (patch = 1 + the         *)
(* letters' offsets from 'A', status 0xF), and a malformed separator      *)
(* yields failure (0).                                                     *)
SpecDashPatch(v) ==
  <<v.major, v.minor, v.fix,
    (1 + FoldLeft(LAMBDA acc, c : acc + ((Ascii(c) & 223) - 65), 0, Tail(v.suffix.text))) % 256,
    15>>

SpecVersionGrammar ==
  pc = "returned" =>
    /\ \A v \in Versions :
         (Text(v) = input /\ v.suffix.kind = "dev" /\ v.major <= 15 /\ v.minor <= 255 /\ v.fix <= 255)
           => result = SpecDashPatch(v)
    /\ input \in Malformed => result = Zero

=============================================================================
