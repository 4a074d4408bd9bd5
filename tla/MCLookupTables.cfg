\* Every lookup of the three tables, after their init, for every library version.
CONSTANTS
  Macros <- MCMacros
  Optional <- MCOptional
  Names <- MCNames
  Codes <- MCCodes
  SigalgIds <- MCSigalgIds
  CurveIds <- MCCurveIds
  CurveNames <- MCCurveNames
  Nids <- MCNids
  NULL = NULL
SPECIFICATION Spec
INVARIANT ErrorNamesResolve
INVARIANT TlsNamesResolve
INVARIANT RoundTrip
