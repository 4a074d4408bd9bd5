---------------------------- MODULE MCGenTimeEpoch ----------------------------
(***************************************************************************)
(* Inputs for asn1_generalizedtime_to_epoch.  Years around the epoch, a    *)
(* 400-year leap year, a common leap year and the last year whose epochs   *)
(* fit 32 bits; months at and past both ends and on both sides of March;   *)
(* the last day of a month; seconds absent, zero or 59, with and without a *)
(* fraction; the three kinds of zone.                                      *)
(***************************************************************************)
EXTENDS GenTimeEpoch

Chars(str) == [i \in 1..Len(str) |-> SubSeq(str, i, i)]

MCZones ==
  { [sign |-> "Z"], [sign |-> "+", hh |-> 1, mm |-> 0], [sign |-> "-", hh |-> 1, mm |-> 30] }

MCFields ==
  [year : {1969, 1970, 2000, 2024, 2037}, month : {0, 1, 2, 3, 12, 13}, day : {1, 31},
   hour : {0, 23}, minute : {0, 59}, sec : {NoSec, 0, 59}, frac : {<<>>, Chars(".5")},
   zone : MCZones]

Reference == Chars("20230115123045Z")

(* Every proper prefix of a valid time, text after the zone, a short      *)
(* offset, a fraction without seconds, a fraction running to the end, an  *)
(* unknown zone marker.                                                    *)
MCMalformed ==
  {SubSeq(Reference, 1, k) : k \in 0..(Len(Reference) - 1)}
    \cup { Chars("20230115123045Z0"), Chars("20230115123045+01"), Chars("202301151230.5Z"),
           Chars("20230115123045.5"), Chars("20230115123045A") }

(* A non-digit where a digit belongs. *)
MCBadDigits == { Chars("2023011512304AZ"), Chars("20230A15123045Z") }

MCAllMalformed == MCMalformed \cup MCBadDigits

=============================================================================
