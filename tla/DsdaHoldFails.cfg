\* DSDA, and the modem may refuse the hold a dial waits for.
SPECIFICATION Spec
CONSTANTS
  Slots = {"sim1", "sim2"}
  Requests = {"a1", "b1"}
  MaxIdx = 1
  AsWritten <- Nothing
  SlotOf <- MCSlotOf
  DsdaMode = TRUE
  SyncResults = {TRUE}
  ModemFaults = {"hold"}
  MaxHangups = 0
  Races <- Nothing
INVARIANT NoStrandedDial
CHECK_DEADLOCK FALSE
