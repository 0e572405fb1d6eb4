\* Two dials one after the other: whose parameters is a call created with?
SPECIFICATION Spec
CONSTANTS
  Slots = {"sim1"}
  Requests = {"a1", "a2"}
  MaxIdx = 2
  AsWritten <- Nothing
  SlotOf <- MCSlotOf
  DsdaMode = FALSE
  SyncResults = {TRUE}
  ModemFaults <- Nothing
  MaxHangups = 0
  Races <- Nothing
INVARIANT DialInfoIsOwn
CHECK_DEADLOCK FALSE
