\* Three URBs that can be in one another's way; one reader, as in the
\* forwarder; the counter is at 1 and goes on 2, 0, 1.
CONSTANTS
  Urbs = {u1, u2, u3}
  Readers = {r1}
  MaxSeq = 2
  FirstSeq = 1
  None = None
SPECIFICATION Spec
SYMMETRY Symmetry
CHECK_DEADLOCK FALSE
INVARIANTS
  TypeOK
  CompletedOnce
  CancelMissesOnlyDrained
  NoUrbLost
  NoMissedRead
  UnsentHitOnlyByZero
  LeftBehindOnlyLate
