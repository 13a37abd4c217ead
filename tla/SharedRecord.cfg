SPECIFICATION Spec
CONSTANTS
  Texts = {console, file}
  Rotating = {rotating}
  Brokers = {broker}
INVARIANTS
  TypeOK RenderedAsLogged
PROPERTIES
  SharedUntouched
