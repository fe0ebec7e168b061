SPECIFICATION Spec
CONSTANTS
  Builds <- Libcxx
  Fill <- MCFill
  Caps = {1, 49}
  Pointer <- MCPointer
  Texts <- MCTexts
  Xuids <- MCXuids
  Garbled = Garbled
INVARIANTS
  TypeOK
  DetectIsExact
  FieldHoldsText
  ReadIsText
  BlankIsFilled
  NextMemberUntouched
