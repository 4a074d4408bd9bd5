\* Every extractor: buffer bounds, the state left by a failed call, and the tri-state contract of the extractors that keep it.
\* A call returns and the caller goes on with its result: nothing follows.
CHECK_DEADLOCK FALSE
CONSTANTS
  Ops = {"serial", "der", "time", "dn_entry", "oneline", "formatted", "pkey"}
  ContractOps <- MCContractOps
  Sizes <- MCSizes
  Attrs <- MCAttrs
  ShortName <- MCShortName
  OidText <- MCOidText
  TmpSize = 4
  ObjTmpSize = 3
  Requests <- MCRequests
  Upper <- MCUpper
  Values <- MCValues
  MaxEntries = 3
  Positions <- MCPositions
  TimeLens <- MCTimeLens
  TimeHeads <- MCTimeHeads
  KeyBits <- MCKeyBits
  Families <- MCFamilies
  Absent = Absent
  EncFail = EncFail
  NoKey = NoKey
  Stale = Stale
  NUL = NUL
SPECIFICATION Spec
INVARIANT TypeOK
INVARIANT NoOverflow
INVARIANT FailureKeepsPrefix
INVARIANT ResultContract
INVARIANT OnelineNameSelects
