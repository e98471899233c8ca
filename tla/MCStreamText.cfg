\* Streams of three events in every partition into chunks.
SPECIFICATION Spec
CONSTANTS
  MaxEvents = 3
  Payloads <- AllPayloads
  Bodies <- EveryBody
INVARIANTS OutputExact CountExact FirstContentOnce
CHECK_DEADLOCK FALSE
