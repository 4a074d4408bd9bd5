\* UTC times against the calendar, and malformed strings refused.
CONSTANTS
  Fields <- MCFields
  Malformed <- MCMalformed
  NoSec = NoSec
SPECIFICATION Spec
\* The call returns; nothing follows it.
CHECK_DEADLOCK FALSE
INVARIANT EpochMatchesCalendar
INVARIANT RejectsMalformed
