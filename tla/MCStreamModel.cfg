\* A line separator inside a content.
SPECIFICATION Spec
CONSTANTS
  MaxEvents = 1
  Payloads <- AllPayloads
  Bodies <- Texts
INVARIANTS ModelRewritten
CHECK_DEADLOCK FALSE
