\* Thread-local text buffers: no call disturbs a text another call returned.
CONSTANTS
  Threads = {t1, t2}
  Fields <- MCFields
  NoSec = NoSec
  MaxHeld = 2
  EmptyText = EmptyText
  NullPtr = NullPtr
  Unset = Unset
SPECIFICATION Spec
INVARIANT HeldTextIntact
