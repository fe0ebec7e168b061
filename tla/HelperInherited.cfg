SPECIFICATION Spec
CONSTANTS
  Byte <- MCByte
  Opcode = 2
  Mapped <- MCMapped
  Spans <- MCSpans
  Images <- MCImages
  Sizes = {10, 20}
  Files <- MCFiles
  builtin <- MCbuiltin
  Wild = Wild
  Absent = Absent
  Garbled = Garbled
INVARIANT AcceptedReissues
CHECK_DEADLOCK FALSE
