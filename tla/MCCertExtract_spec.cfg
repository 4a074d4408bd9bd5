\* The tri-state contract of sections 7 and 8 for crt2der, dn_formatted and pkey_algo.
\* A call returns and the caller goes on with its result: nothing follows.
CHECK_DEADLOCK FALSE
CONSTANTS
  Ops = {"der", "formatted", "pkey"}
  ContractOps <- MCDivergentOps
  Sizes <- MCSizes
  Attrs <- MCAttrs
  ShortName <- MCShortName
  OidText <- MCOidText
  TmpSize = 4
  ObjTmpSize = 3
  Requests <- MCRequests
  Upper <- MCUpper
  Values <- MCValues
  MaxEntries = 3
  Positions <- MCPositions
  TimeLens <- MCTimeLens
  TimeHeads <- MCTimeHeads
  KeyBits <- MCKeyBits
  Families <- MCFamilies
  Absent = Absent
  EncFail = EncFail
  NoKey = NoKey
  Stale = Stale
  NUL = NUL
SPECIFICATION Spec
INVARIANT ResultContract
