\* One SIM slot, two dials, two hang-ups; a dial may fail at once or later.
SPECIFICATION Spec
CONSTANTS
  Slots = {"sim1"}
  Requests = {"a1", "a2"}
  MaxIdx = 2
  AsWritten <- Nothing
  SlotOf <- MCSlotOf
  DsdaMode = FALSE
  SyncResults = {TRUE, FALSE}
  ModemFaults = {"dial"}
  MaxHangups = 2
  Races <- Nothing
INVARIANT TypeOK
INVARIANT PendingHangupIsLive
INVARIANT NoStrandedDial
INVARIANT TableMatchesModems
PROPERTY GateOpensAgain
CHECK_DEADLOCK FALSE
