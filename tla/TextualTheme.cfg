SPECIFICATION Spec
CONSTANTS
  Values = {100, 130}
  Opacities = {60, 100}
  Shifted = {130}
  MaxTokens = 2
INVARIANTS
  TypeOK FormatsUnlessAnsiMuted CriticalReadable
