\* exclude_tls_grease on buffers of two bytes and more, empty or partly filled.
\* The call returns to its caller: nothing follows.
CHECK_DEADLOCK FALSE
CONSTANTS
  Bytes <- MCBytes
  MaxInput = 5
  Sizes = {2, 3, 4, 5, 6}
  SizeWidth = 8
  Stale = Stale
  Garbage = Garbage
SPECIFICATION Spec
INVARIANT TypeOK
INVARIANT NoOverflow
INVARIANT GreaseFiltered
