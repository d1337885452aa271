SPECIFICATION Spec
CONSTANTS
  Fields = {1, 2, 3}
  Names = {"a", "b"}
  NameOf <- FormNames
  Attributes <- FormAttributes
  Checkboxes = {3}
  Replacing = {"a"}
CHECK_DEADLOCK FALSE
INVARIANTS
  FormInv
  OnlyKnownEscapes
  ErrorsAreExplained
