SPECIFICATION Spec
CONSTANTS
  Texts = {file}
  Rotating = {}
  Brokers = {}
INVARIANT
  JsonOnlyUserExtras
