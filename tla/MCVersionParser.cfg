\* The packing of every field and suffix; malformed strings too, for the ranges.
CONSTANTS
  Versions <- MCVersions
  Malformed <- MCMalformed
SPECIFICATION Spec
\* The call returns; nothing follows it.
CHECK_DEADLOCK FALSE
INVARIANT TypeOK
INVARIANT VersionPacking
