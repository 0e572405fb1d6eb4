\* Two SIM slots under DSDA: a dial on one slot waits for the hold of the other.
SPECIFICATION Spec
CONSTANTS
  Slots = {"sim1", "sim2"}
  Requests = {"a1", "b1"}
  MaxIdx = 2
  AsWritten <- Nothing
  SlotOf <- MCSlotOf
  DsdaMode = TRUE
  SyncResults = {TRUE}
  ModemFaults = {"dial"}
  MaxHangups = 2
  Races <- Nothing
INVARIANT DialedOnce
INVARIANT NoStrandedDial
INVARIANT TableMatchesModems
PROPERTY DialsIntoSilence
PROPERTY HangupHonoured
CHECK_DEADLOCK FALSE
