\* Section 4.3 of the spec on "-" suffixes and malformed separators.
CONSTANTS
  Versions <- MCVersions
  Malformed <- MCMalformed
SPECIFICATION Spec
\* The call returns; nothing follows it.
CHECK_DEADLOCK FALSE
INVARIANT SpecVersionGrammar
