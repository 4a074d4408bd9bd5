\* Section 4.3 of the spec: a +HHMM / -HHMM time is the UTC time minus the offset.
CONSTANTS
  Fields <- MCFields
  Malformed <- MCAllMalformed
  NoSec = NoSec
SPECIFICATION Spec
\* The call returns; nothing follows it.
CHECK_DEADLOCK FALSE
INVARIANT SpecZoneOffset
