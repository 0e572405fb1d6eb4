\* IsNewCallAllowedCreate taken literally: does a thread wait for its own lock?
SPECIFICATION Spec
CONSTANTS
  Slots = {"sim1"}
  Requests = {"a1"}
  MaxIdx = 2
  AsWritten = {"mutex"}
  SlotOf <- MCSlotOf
  DsdaMode = FALSE
  SyncResults = {TRUE}
  ModemFaults <- Nothing
  MaxHangups = 0
  Races <- Nothing
INVARIANT NeverRelocks
CHECK_DEADLOCK FALSE
