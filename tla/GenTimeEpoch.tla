----------------------------- MODULE GenTimeEpoch -----------------------------
(***************************************************************************)
(* asn1_generalizedtime_to_epoch of src/ssl_utils.c: the seconds since    *)
(* 1970-01-01T00:00:00Z of an ASN1_GENERALIZEDTIME                         *)
(* "YYYYMMDDHHMM[SS[.fff]](Z|+hhmm|-hhmm)", or -1 on a parse error.        *)
(*                                                                         *)
(* The string is a sequence of one-character strings indexed from 0 by     *)
(* the code's pointer p; end - p is Len(s) - p.  A digit is read as        *)
(* p[i] - '0' whatever the character is, as the code does.  year and month *)
(* are unsigned long and epoch is long; for the years checked here (1969   *)
(* to 2037, all epochs within 32 bits) the unsigned arithmetic wraps and   *)
(* unwraps to the mathematical value, which is what the model computes.   *)
(***************************************************************************)
EXTENDS Integers, Sequences, SequencesExt

CONSTANTS
  Fields,       \* well-formed times: [year, month, day, hour, minute, sec, frac, zone]
  Malformed,    \* other generalized-time strings
  NoSec         \* the sec field of a time written without seconds

VARIABLES input, result, pc
vars == <<input, result, pc>>

Digits == <<"0","1","2","3","4","5","6","7","8","9">>
IsDigit(c) == c \in ToSet(Digits)

(* ASCII codes of the characters the inputs are made of. *)
Ascii(c) ==
  CASE IsDigit(c) -> 48 + CHOOSE d \in 0..9 : Digits[d + 1] = c
    [] c = "Z" -> 90
    [] c = "A" -> 65
    [] c = "." -> 46
    [] c = "+" -> 43
    [] c = "-" -> 45
    [] OTHER   -> 0

(* p[i] with p at 0-based offset k, and the two-digit number at k. *)
C(s, k) == s[k + 1]
Dig(s, k) == Ascii(C(s, k)) - 48
Two(s, k) == 10 * Dig(s, k) + Dig(s, k + 1)

MonthOffset == <<0, 31, 59, 90, 120, 151, 181, 212, 243, 273, 304, 334>>

(* Leap days up to year y: y / 4 - y / 100 + y / 400. *)
Leaps(y) == y \div 4 - y \div 100 + y \div 400

(* The do/while loop skipping the fraction after '.': the offset of the    *)
(* first non-digit, or -1 when the string ends first.                      *)
RECURSIVE SkipFraction(_, _)
SkipFraction(s, p) ==
  IF p + 1 = Len(s) THEN -1
  ELSE IF IsDigit(C(s, p + 1)) THEN SkipFraction(s, p + 1) ELSE p + 1

(* Mutant: the 'Z' marker does not check that it ends the string. *)
ZoneNoLengthCheck(s, p, epoch) ==
  LET off == (Two(s, p + 1) * 60 * 60 + Two(s, p + 3)) * 60 IN
  CASE C(s, p) = "Z" -> epoch
    [] C(s, p) = "+" -> IF Len(s) - p # 5 THEN -1 ELSE epoch - off
    [] C(s, p) = "-" -> IF Len(s) - p # 5 THEN -1 ELSE epoch + off
    [] OTHER -> -1

(* The time zone marker at p: 'Z' must end the string, "+hhmm" and        *)
(* "-hhmm" must be its last five characters; the offset is computed as     *)
(* ((hh * 60 * 60) + mm) * 60, exactly as the code parenthesises it.      *)
Zone(s, p, epoch) ==
  LET off == (Two(s, p + 1) * 60 * 60 + Two(s, p + 3)) * 60 IN
  CASE C(s, p) = "Z" -> IF Len(s) - p # 1 THEN -1 ELSE epoch
    [] C(s, p) = "+" -> IF Len(s) - p # 5 THEN -1 ELSE epoch - off
    [] C(s, p) = "-" -> IF Len(s) - p # 5 THEN -1 ELSE epoch + off
    [] OTHER -> -1

(* After the minutes, at p: optional seconds, an optional fraction after   *)
(* them, then the zone.                                                    *)
Seconds(s, p, epoch) ==
  IF p = Len(s) THEN -1
  ELSE IF ~IsDigit(C(s, p)) THEN Zone(s, p, epoch)
  ELSE IF Len(s) - p < 2 THEN -1
  ELSE LET e == epoch + Two(s, p) IN
       IF p + 2 = Len(s) THEN -1
       ELSE IF C(s, p + 2) = "." THEN
              LET q == SkipFraction(s, p + 2) IN IF q = -1 THEN -1 ELSE Zone(s, q, e)
       ELSE Zone(s, p + 2, e)

(* Mutant: the leap day of the current year is counted in January and     *)
(* February too.                                                           *)
DaysToMonthNoMarch(year, month) ==
  (year - 1970) * 365 + Leaps(year) - Leaps(1969) + MonthOffset[month]

(* Days from 1970-01-01 to the first of the month: 365-day years, the leap *)
(* days of the years before (the current one counts from March), the      *)
(* month_offset table.                                                     *)
DaysToMonth(year, month) ==
  LET y == year - (IF month < 3 THEN 1 ELSE 0) IN
  (year - 1970) * 365 + Leaps(y) - Leaps(1969) + MonthOffset[month]

Asn1GeneralizedtimeToEpoch(d) ==
  LET s == d.text IN
  IF d.type # "generalized" \/ Len(s) < 4 THEN -1
  ELSE LET year == 1000 * Dig(s, 0) + 100 * Dig(s, 1) + 10 * Dig(s, 2) + Dig(s, 3) IN
  IF Len(s) - 4 < 2 THEN -1
  ELSE LET month == Two(s, 4) IN
  IF month < 1 \/ month > 12 THEN -1
  ELSE IF Len(s) - 6 < 2 THEN -1
  ELSE IF Len(s) - 8 < 2 THEN -1
  ELSE IF Len(s) - 10 < 2 THEN -1
  ELSE Seconds(s, 12, DaysToMonth(year, month) * 24 * 60 * 60
                        + (Two(s, 6) - 1) * 24 * 60 * 60
                        + Two(s, 8) * 60 * 60 + Two(s, 10) * 60)

-----------------------------------------------------------------------------
RECURSIVE Decimal(_, _)
(* n written with w digits. *)
Decimal(n, w) == IF w = 0 THEN <<>> ELSE Decimal(n \div 10, w - 1) \o <<Digits[(n % 10) + 1]>>

ZoneText(z) == IF z.sign = "Z" THEN <<"Z">> ELSE <<z.sign>> \o Decimal(z.hh, 2) \o Decimal(z.mm, 2)

(* The text of a time given by its fields. *)
Text(f) ==
  Decimal(f.year, 4) \o Decimal(f.month, 2) \o Decimal(f.day, 2) \o Decimal(f.hour, 2)
    \o Decimal(f.minute, 2)
    \o (IF f.sec = NoSec THEN <<>> ELSE Decimal(f.sec, 2) \o f.frac)
    \o ZoneText(f.zone)

(* A call's ASN1 string: its tag and bytes; fields records what a         *)
(* well-formed text was written from (NoSec for the other strings).        *)
Inputs ==
  {[type |-> "generalized", text |-> Text(f), fields |-> f] : f \in Fields}
    \cup {[type |-> "generalized", text |-> m, fields |-> NoSec] : m \in Malformed}
    \cup {[type |-> "utc", text |-> Text(f), fields |-> f] : f \in Fields}

Init ==
  /\ input \in Inputs
  /\ result = -1
  /\ pc = "call"

CallAsn1GeneralizedtimeToEpoch ==
  /\ pc = "call"
  /\ result' = Asn1GeneralizedtimeToEpoch(input)
  /\ pc' = "returned"
  /\ UNCHANGED input

Next == CallAsn1GeneralizedtimeToEpoch
Spec == Init /\ [][Next]_vars

-----------------------------------------------------------------------------
(* Properties.  The reference calendar counts the days of each year and   *)
(* month one by one, independently of the code's closed formula.           *)

IsLeap(y) == (y % 4 = 0 /\ y % 100 # 0) \/ y % 400 = 0
YearDays(y) == IF IsLeap(y) THEN 366 ELSE 365
MonthDays(y, m) ==
  IF m = 2 THEN (IF IsLeap(y) THEN 29 ELSE 28)
  ELSE IF m \in {4, 6, 9, 11} THEN 30 ELSE 31

RECURSIVE DaysFrom1970(_)
DaysFrom1970(y) ==
  IF y = 1970 THEN 0
  ELSE IF y > 1970 THEN DaysFrom1970(y - 1) + YearDays(y - 1)
  ELSE DaysFrom1970(y + 1) - YearDays(y)

RECURSIVE DaysBeforeMonth(_, _)
DaysBeforeMonth(y, m) == IF m = 1 THEN 0 ELSE DaysBeforeMonth(y, m - 1) + MonthDays(y, m - 1)

(* The UTC instant the fields name, in seconds since the epoch. *)
CalendarEpoch(f) ==
  ((DaysFrom1970(f.year) + DaysBeforeMonth(f.year, f.month) + f.day - 1) * 24 + f.hour) * 3600
    + f.minute * 60 + (IF f.sec = NoSec THEN 0 ELSE f.sec)

(* Offset of the zone from UTC as section 4.3 defines it, in seconds. *)
ZoneOffset(z) ==
  CASE z.sign = "Z" -> 0 [] z.sign = "+" -> z.hh * 3600 + z.mm * 60 [] z.sign = "-" -> -(z.hh * 3600 + z.mm * 60)

(* The call parses the generalized time written from fields f. *)
Named(f) == input.type = "generalized" /\ input.fields = f

(* A UTC ("Z") generalized time with a month in 1..12 is given the number *)
(* of seconds the calendar counts to it, leap years, month lengths,        *)
(* optional seconds and ignored fraction included; a month out of range,  *)
(* and a time not tagged as generalized, give -1.                          *)
EpochMatchesCalendar ==
  pc = "returned" =>
    /\ \A f \in Fields \cap {input.fields} :
         Named(f) /\ f.zone.sign = "Z" =>
           result = IF f.month \in 1..12 THEN CalendarEpoch(f) ELSE -1
    /\ input.type # "generalized" => result = -1

(* Every malformed string (cut short, trailing text, a misplaced fraction  *)
(* or zone) is refused with -1.                                            *)
RejectsMalformed ==
  pc = "returned" => (input.text \in Malformed => result = -1)

(* Section 4.3: "+HHMM" subtracts the offset and "-HHMM" adds it: a time   *)
(* with an offset is the UTC time minus the offset.                        *)
SpecZoneOffset ==
  pc = "returned" =>
    \A f \in Fields \cap {input.fields} :
      Named(f) /\ f.month \in 1..12 => result = CalendarEpoch(f) - ZoneOffset(f.zone)

(* Section 4.3: -1 is the parse-failure result ("not zero, since epoch 0 *)
(* is a legitimate value"), and any malformed digit gives it: the result   *)
(* is -1 exactly when the string is malformed.                             *)
MinusOneIffMalformed ==
  pc = "returned" =>
    /\ input.text \in Malformed => result = -1
    /\ \A f \in Fields \cap {input.fields} : Named(f) /\ f.month \in 1..12 => result # -1

=============================================================================
