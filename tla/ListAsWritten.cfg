\* AddOneCallObject taken literally: does a reported call reach the table?
SPECIFICATION Spec
CONSTANTS
  Slots = {"sim1"}
  Requests = {"a1"}
  MaxIdx = 2
  AsWritten = {"list"}
  SlotOf <- MCSlotOf
  DsdaMode = FALSE
  SyncResults = {TRUE}
  ModemFaults <- Nothing
  MaxHangups = 0
  Races <- Nothing
INVARIANT DialedCallIsTabled
CHECK_DEADLOCK FALSE
