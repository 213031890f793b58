SPECIFICATION Spec
CHECK_DEADLOCK FALSE
CONSTANTS
  Alphabet <- Characters
  Letters <- Words
  Digest <- Parity
  MaxLabelLen = 4
  DigestLen = 1
  MaxSubjectLen = 6
INVARIANTS LongLabelsDiffer
