SPECIFICATION Spec
CONSTANTS
  MaxStreams = 4
  Overlap = TRUE
INVARIANTS OneVoice QuietOnceClosed
CHECK_DEADLOCK FALSE
