SPECIFICATION Spec
CONSTANTS
  Names = {interface, name, title}
  Blocks = {b1, b2, b3, b4}
  NUL = "NUL"
  Texts <- MCTexts
INVARIANTS TypeOK EachOwnsItsBytes FaultsOnlyForCause
CHECK_DEADLOCK FALSE
