--------------------------- MODULE MCValidityDates ---------------------------
(***************************************************************************)
(* Two threads whose callers keep up to two results each: enough for one   *)
(* thread to hold a text while the other thread, or its own other          *)
(* accessor, or its own same accessor, is called.  Dates: a leap day, the  *)
(* epoch itself without seconds, the last second of 2037, and a time with  *)
(* a +0100 offset (no EpochPathsAgree claim is made for it).               *)
(***************************************************************************)
EXTENDS ValidityDates

MCFields ==
  { [year |-> 2024, month |-> 2, day |-> 29, hour |-> 12, minute |-> 0, sec |-> 0,
     frac |-> <<>>, zone |-> [sign |-> "Z"]],
    [year |-> 1970, month |-> 1, day |-> 1, hour |-> 0, minute |-> 0, sec |-> NoSec,
     frac |-> <<>>, zone |-> [sign |-> "Z"]],
    [year |-> 2037, month |-> 12, day |-> 31, hour |-> 23, minute |-> 59, sec |-> 59,
     frac |-> <<>>, zone |-> [sign |-> "Z"]],
    [year |-> 2024, month |-> 3, day |-> 1, hour |-> 0, minute |-> 30, sec |-> 0,
     frac |-> <<>>, zone |-> [sign |-> "+", hh |-> 1, mm |-> 0]] }
=============================================================================
