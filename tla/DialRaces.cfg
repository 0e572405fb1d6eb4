\* One slot, two clients inside DialCall at once, timers and hang-ups racing the reports.
SPECIFICATION Spec
CONSTANTS
  Slots = {"sim1"}
  Requests = {"a1", "a2"}
  MaxIdx = 1
  AsWritten <- Nothing
  SlotOf <- MCSlotOf
  DsdaMode = FALSE
  SyncResults = {TRUE, FALSE}
  ModemFaults = {"dial"}
  MaxHangups = 1
  Races = {"dialers", "timeouts", "hangup"}
INVARIANT GateHasOwner
INVARIANT PendingMoIsUnplaced
CHECK_DEADLOCK FALSE
