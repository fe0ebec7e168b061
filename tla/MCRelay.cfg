SPECIFICATION Spec
CONSTANTS
  helper <- MChelper
  inject <- MCinject
  Leavings <- MCLeavings
INVARIANTS
  TypeOK
  CallsAsDocumented
  Transparent
