\* Section 4.3 of the spec: -1 is returned exactly for malformed strings.
CONSTANTS
  Fields <- MCFields
  Malformed <- MCAllMalformed
  NoSec = NoSec
SPECIFICATION Spec
\* The call returns; nothing follows it.
CHECK_DEADLOCK FALSE
INVARIANT MinusOneIffMalformed
