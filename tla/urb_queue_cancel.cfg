\* The smallest instance in which cancel_irp fails to find its IRP.
CONSTANTS
  Urbs = {u1, u2}
  Readers = {r1}
  MaxSeq = 2
  FirstSeq = 0
  None = None
SPECIFICATION Spec
CHECK_DEADLOCK FALSE
INVARIANT CancelFindsItsUrb
