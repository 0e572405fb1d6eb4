---------------------------- MODULE DialPipeline -----------------------------
(***************************************************************************)
(* The outgoing carrier call, from the dial request of a client to the     *)
(* call's removal: CallControlManager::DialCall and CallRequestProcess on  *)
(* the client's thread, CallStatusManager on the serial report queue, the  *)
(* hang-up client, the three timers, and the modems of the SIM slots       *)
(* behind cellular_call, which answer asynchronously.                      *)
(*                                                                         *)
(* A client thread takes one step per access to state it shares with the   *)
(* report queue; one report is handled in one step.                        *)
(***************************************************************************)
EXTENDS CallTable, Sequences

CONSTANTS
    SlotOf,       \* the slot (accountId) each request dials on
    DsdaMode,     \* TRUE when GetDsdsMode answers DSDS_MODE_V5_*
    SyncResults,  \* what a synchronous call to cellular_call may return
    ModemFaults,  \* the operations a modem may answer with a failure event
    MaxHangups,   \* bound: how many hang-ups the user asks for
    Races         \* orders of events the environment may produce, a subset of
                  \*   "dialers":  two clients are inside DialCall at once
                  \*   "hold":     a report is handled before the dialling thread
                  \*               that asked for a hold has left its dial waiting
                  \*   "timeouts": a timer beats a report already queued
                  \*   "hangup":   a report is handled while HangUpCall is
                  \*               between two steps of postponing a hang-up

ModemOps == {"dial", "hold", "unhold", "hangup", "hangupActive"}

ASSUME PipelineAssumption ==
    /\ SlotOf \in [Requests -> Slots]
    /\ DsdaMode \in BOOLEAN
    /\ SyncResults \subseteq BOOLEAN /\ TRUE \in SyncResults
    /\ ModemFaults \subseteq ModemOps
    /\ MaxHangups \in Nat
    /\ Races \subseteq {"dialers", "hold", "timeouts", "hangup"}

NoCall == [st |-> "NONE"]

VARIABLES
    calls,         \* callObjectPtrList_
    nextId,        \* callId_: the last id GetNewCallId handed out
    dialSrc,       \* dialSrcInfo_ and extras_: the one hand-over slot
    dialing,       \* isDialingCallProcessing_
    dialTimer,     \* the three-second task that reopens the gate is posted
    removing,      \* a handler has reopened the gate but not yet removed the task
    pendingMo,     \* pendingMoCallId_, NoId when pendingMo_ is false
    pendingHangup, \* pendingHangupCallId_, NoId when pendingHangup_ is false
    hangupTask,    \* pendingHangupHandle_ and the id its task captured
    needWaitHold,  \* needWaitHold_: a dial waits for a call to be held
    dialCallInfo,  \* dialCallInfo_: the dial that waits
    firstAdded,    \* isFirstDialCallAdded_
    queue,         \* report_call_info_queue
    pc, info,      \* each dialling thread's position and its DialParaInfo
    user,          \* the hang-up client
    req,           \* requests on their way to each modem, in order
    modem,         \* each modem's calls by index
    sent           \* history: how often each request was sent to a modem

manager == <<calls, nextId, dialing, removing, pendingMo, pendingHangup,
             hangupTask, needWaitHold, firstAdded, queue, req, sent>>
vars == <<manager, dialTimer, dialSrc, dialCallInfo, pc, info, user, modem>>
-----------------------------------------------------------------------------
(* Types *)

NoTask == [st |-> "none", id |-> NoId]
HangupTasks == [st: {"none", "armed", "spent"}, id: Nat]

Reports == [kind: {"call"}, tel: TelStates, idx: 0..MaxIdx, slot: Slots, num: Requests]
           \cup [kind: {"event"}, op: ModemOps]
ModemRequests == [op: ModemOps, idx: 0..MaxIdx, num: Requests]
ModemStates == {"DIALING", "ALERTING", "ACTIVE", "HOLDING"}
ModemCalls == [st: ModemStates, num: Requests] \cup {NoCall}

DialPcs == {"idle", "packaged", "requested", "gated", "closing", "entered", "blocked",
            "held", "reporting", "starting", "deferring", "failing",
            "refused", "reopened", "removed", "done"}
UserPcs == {"idle", "checked", "postponing", "unmarked", "claimed", "submitted"}
Users == [pc: UserPcs, id: Nat, left: 0..MaxHangups]

TypeOK ==
    /\ IsTable(calls)
    /\ nextId \in Nat
    /\ dialSrc \in Requests \cup {NoRequest}
    /\ dialing \in BOOLEAN /\ dialTimer \in BOOLEAN /\ removing \in BOOLEAN
    /\ pendingMo \in Nat /\ pendingHangup \in Nat
    /\ hangupTask \in HangupTasks
    /\ needWaitHold \in BOOLEAN
    /\ dialCallInfo \in Requests \cup {NoRequest}
    /\ firstAdded \in BOOLEAN
    /\ queue \in Seq(Reports)
    /\ pc \in [Requests -> DialPcs]
    /\ info \in [Requests -> Requests \cup {NoRequest}]
    /\ user \in Users
    /\ req \in [Slots -> Seq(ModemRequests)]
    /\ modem \in [Slots -> [1..MaxIdx -> ModemCalls]]
    /\ sent \in [Requests -> Nat]

CallReport(tel, idx, slot, num) ==
    [kind |-> "call", tel |-> tel, idx |-> idx, slot |-> slot, num |-> num]
-----------------------------------------------------------------------------
(* The handlers of the report queue call one another, so each maps the     *)
(* manager's state, as a record, to the state it leaves behind.            *)

Manager == [calls |-> calls, nextId |-> nextId, dialing |-> dialing,
            removing |-> removing, pendingMo |-> pendingMo,
            pendingHangup |-> pendingHangup, hangupTask |-> hangupTask,
            needWaitHold |-> needWaitHold, firstAdded |-> firstAdded,
            queue |-> queue, req |-> req, sent |-> sent]

Become(m) ==
    /\ calls' = m.calls /\ nextId' = m.nextId
    /\ dialing' = m.dialing /\ removing' = m.removing
    /\ pendingMo' = m.pendingMo /\ pendingHangup' = m.pendingHangup
    /\ hangupTask' = m.hangupTask /\ needWaitHold' = m.needWaitHold
    /\ firstAdded' = m.firstAdded
    /\ queue' = m.queue /\ req' = m.req /\ sent' = m.sent

\* CarrierHangUpCall, CarrierHoldCall, CarrierUnHoldCall: the call's place goes out.
Ask(m, op, id) ==
    LET c == m.calls[id]
    IN [m EXCEPT !.req[c.slot] = Append(@, [op |-> op, idx |-> c.idx, num |-> c.num])]

\* CellularCallConnection::Dial for request r.
SendDial(m, r) ==
    IF r = NoRequest THEN m
    ELSE [m EXCEPT !.req[SlotOf[r]] = Append(@, [op |-> "dial", idx |-> InitIndex, num |-> r]),
                   !.sent[r] = @ + 1]

\* DealFailDial, ReportCallDisconnected: the call is reported gone locally.
DealFailDial(m, id) ==
    LET c == m.calls[id]
    IN [m EXCEPT !.queue = Append(@, CallReport("DISCONNECTED", c.idx, c.slot, c.num))]

SetState(m, id, tel) == [m EXCEPT !.calls = UpdateCallState(@, id, tel)]

\* Mutant: the task is removed but the flag is not restored.
ReopenGateTaskOnly(m) == [m EXCEPT !.removing = TRUE]

\* RestoreDialingFlag(false); RemoveEventHandlerTask is a step of its own.
ReopenGate(m) == [m EXCEPT !.dialing = FALSE, !.removing = TRUE]

DropPendingHangup(m) == [m EXCEPT !.pendingHangup = NoId, !.hangupTask = NoTask]

\* Mutant: the protect task goes, the hang-up it protected stays.
ClearPendingStateTaskOnly(m, id) ==
    LET mo == IF m.pendingMo = id THEN [m EXCEPT !.pendingMo = NoId] ELSE m
    IN IF m.pendingHangup # id THEN mo
       ELSE [Ask(mo, "hangup", id) EXCEPT !.hangupTask = NoTask]

\* Mutant: a numbered call stays marked as not yet numbered.
ClearPendingStateKeepsMo(m, id) ==
    IF m.pendingHangup = id THEN DropPendingHangup(Ask(m, "hangup", id)) ELSE m

ClearPendingState(m, id) ==
    LET mo == IF m.pendingMo = id THEN [m EXCEPT !.pendingMo = NoId] ELSE m
    IN IF m.pendingHangup # id THEN mo
       ELSE IF m.calls[id].run = "ENDED" THEN DropPendingHangup(mo)
       ELSE DropPendingHangup(Ask(mo, "hangup", id))

\* Outside UpdateDialingCallInfo the call type never changes, so
\* RefreshCallIfNecessary leaves the table as it is.
UpdateDialingCallInfo(m, rep) ==
    LET call == GetOneCallObjectByIndex(m.calls, InitIndex)
        placed == [SetTelCallState(m.calls[call], rep.tel) EXCEPT
                       !.idx = rep.idx, !.slot = rep.slot]
    IN IF \/ GetOneCallObjectByIndexAndSlotId(m.calls, rep.idx, rep.slot) # NoId
          \/ call = NoId
       THEN m
       ELSE ClearPendingState([m EXCEPT !.calls[call] = placed], call)

\* CreateNewCall, AddOneCallObject and the flags; src is the content of the
\* hand-over slot PackParaInfo reads.
CreateDialing(m, rep, src) ==
    LET id == m.nextId + 1
        call == [tel |-> rep.tel, run |-> "CREATE", idx |-> rep.idx, slot |-> rep.slot,
                 canUnHold |-> TRUE, canSwitch |-> TRUE, num |-> rep.num, src |-> src]
        added == AddOneCallObject(m.calls, id, call)
        added2 == IF id \in DOMAIN added
                  THEN UpdateCallState([added EXCEPT ![id].run = "CONNECTING"], id, "DIALING")
                  ELSE added
    IN ReopenGate([m EXCEPT
           !.nextId = id,
           !.calls = added2,
           !.firstAdded = @ \/ FirstDialAdded(added),
           !.pendingMo = IF rep.idx = InitIndex THEN id ELSE @])

\* UpdateDialingHandle decides, for a numbered report, whether a call is there
\* to be updated.
UpdateDialingHandle(m, rep) ==
    /\ rep.idx > InitIndex
    /\ \/ GetOneCallObjectByIndexAndSlotId(m.calls, InitIndex, rep.slot) # NoId
       \/ GetOneCallObjectByIndexAndSlotId(m.calls, rep.idx, rep.slot) # NoId

DialingHandle(m, rep, src) ==
    IF UpdateDialingHandle(m, rep) THEN UpdateDialingCallInfo(m, rep)
    ELSE CreateDialing(m, rep, src)

\* HandleDsdaInfo, run after every call report.
HandleDsdaInfo(m, slot) ==
    LET hold == GetOneCallObject(m.calls, "HOLD")
    IN IF /\ DsdaMode /\ IsExistCallOtherSlot(m.calls, slot)
          /\ hold # NoId /\ GetCurrentCallNum(m.calls) > 2
       THEN [m EXCEPT !.calls[hold].canUnHold = FALSE]
       ELSE m

\* Mutant: the index alone, which both slots use, picks the call.
PlacedByIndex(m, rep) == GetOneCallObjectByIndex(m.calls, rep.idx)

\* The call a report is about; when there is none but a call still waits for
\* its index, the report is first handled as the DIALING report that is
\* missing (RefreshDialingStateByOtherState).
Placed(m, rep) == GetOneCallObjectByIndexAndSlotId(m.calls, rep.idx, rep.slot)

RefreshDialingStateByOtherState(m, rep, src) ==
    IF Placed(m, rep) # NoId \/ GetOneCallObjectByIndex(m.calls, InitIndex) = NoId
    THEN m
    ELSE HandleDsdaInfo(DialingHandle(m, [rep EXCEPT !.tel = "DIALING"], src), rep.slot)

\* Mutant: ALERTING is not taken for the DIALING report that is missing.
AlertHandleKnownOnly(m, rep, src) ==
    LET id == Placed(m, rep)
    IN IF id = NoId THEN m ELSE SetState(ClearPendingState(m, id), id, "ALERTING")

AlertHandle(m0, rep, src) ==
    LET m1 == RefreshDialingStateByOtherState(m0, rep, src)
        id == Placed(m1, rep)
        m2 == ClearPendingState(m1, id)
    IN IF id = NoId THEN m1
       ELSE IF m2.calls[id].tel = "DISCONNECTING" THEN m2
       ELSE SetState(m2, id, "ALERTING")

ActiveHandle(m0, rep, src) ==
    LET m1 == RefreshDialingStateByOtherState(m0, rep, src)
        id == Placed(m1, rep)
        m2 == SetState(ClearPendingState(m1, id), id, "ACTIVE")
        hold == GetOneCallObject(m2.calls, "HOLD")
    IN IF id = NoId THEN m1
       ELSE IF hold = NoId THEN m2
       ELSE [m2 EXCEPT !.calls[hold].canSwitch = TRUE]

DisconnectingHandle(m, rep) ==
    IF Placed(m, rep) = NoId THEN m ELSE SetState(m, Placed(m, rep), "DISCONNECTING")

\* The waited-for hold has come (call id is the held, or the ended, call):
\* send the dial that waits, or drop it when the user hung up meanwhile.
\* A failed send is reported as the end of call id.
HandleDialWhenHolding(m, id, ok) ==
    IF m.pendingHangup # NoId
    THEN LET unheld == Ask(m, "unhold", id)
         IN DropPendingHangup([unheld EXCEPT
                !.calls = DeleteOneCallObject(@, m.pendingHangup)])
    ELSE IF ok THEN SendDial(m, dialCallInfo)
    ELSE IF GetOneCallObject(m.calls, "DIALING") # NoId THEN DealFailDial(m, id)
    ELSE m

LatchReleased(m) == m.needWaitHold /\ GetCallNum(m.calls, "ACTIVE") = 0

\* AutoUnHoldForDsda, which is all AutoHandleForDsda comes to while no call
\* waits for an automatic answer.
AutoUnHoldForDsda(m, canSwitch, prior, noActive, slot) ==
    LET held == First({i \in InTel(m.calls, "HOLDING") :
                          m.calls[i].slot # slot /\ m.calls[i].canUnHold})
        two == GetCurrentCallNum(m.calls) = 2
    IN IF /\ held # NoId /\ noActive
          /\ GetCallNum(m.calls, "WAITING") = 0 /\ GetCallNum(m.calls, "DIALING") = 0
          /\ prior = "DISCONNECTING" \/ (~canSwitch /\ two)
       THEN Ask(m, "unhold", held)
       ELSE IF two
       THEN [m EXCEPT !.calls = [i \in DOMAIN @ |->
               IF @[i].tel = "HOLDING" THEN [@[i] EXCEPT !.canUnHold = TRUE] ELSE @[i]]]
       ELSE m

\* Mutant: the latch is read but not cleared.
HoldingHandleKeepsLatch(m0, rep, ok) ==
    LET id == Placed(m0, rep)
        m1 == SetState(m0, id, "HOLDING")
    IN IF id = NoId THEN m0
       ELSE IF DsdaMode /\ LatchReleased(m1) THEN HandleDialWhenHolding(m1, id, ok) ELSE m1

HoldingHandle(m0, rep, ok) ==
    LET id == Placed(m0, rep)
        m1 == SetState(m0, id, "HOLDING")
        noActive == GetCallNum(m1.calls, "ACTIVE") = 0
    IN IF id = NoId THEN m0
       ELSE IF ~DsdaMode THEN m1
       ELSE IF LatchReleased(m1)
       THEN HandleDialWhenHolding([m1 EXCEPT !.needWaitHold = FALSE], id, ok)
       ELSE AutoUnHoldForDsda(m1, m1.calls[id].canSwitch, m0.calls[id].tel,
                              noActive, m1.calls[id].slot)

\* IsCanUnHold, for a call that is in no conference.
IsCanUnHold(t) ==
    \A tel \in {"INCOMING", "WAITING", "ACTIVE", "ALERTING"} : GetCallNum(t, tel) = 0

\* HandleHoldCallOrAutoAnswerCall: resume the call held on the same slot, take
\* the ended call out of the table, resume a call held on another slot.
HandleHoldCallOrAutoAnswerCall(m, id, previous, prior) ==
    LET c == m.calls[id]
        noActive == GetCallNum(m.calls, "ACTIVE") = 0
        hold == GetOneCallObject(m.calls, "HOLD")
        resumed == IF /\ previous \notin {"HOLD", "ACTIVE"} /\ prior = "DISCONNECTING"
                      /\ hold # NoId /\ IsCanUnHold(m.calls)
                      /\ m.calls[hold].canUnHold /\ m.calls[hold].slot = c.slot
                   THEN Ask(m, "unhold", hold) ELSE m
        gone == [resumed EXCEPT !.calls = DeleteOneCallObject(@, id)]
    IN IF DsdaMode THEN AutoUnHoldForDsda(gone, c.canSwitch, prior, noActive, c.slot)
       ELSE gone

\* Mutant: the end of the call that was to be held releases no dial.
DisconnectedHandleKeepsLatch(m0, rep, src, ok) ==
    LET m1 == RefreshDialingStateByOtherState(m0, rep, src)
        id == Placed(m1, rep)
        m2 == ClearPendingState(m1, id)
    IN IF id = NoId THEN m1
       ELSE HandleHoldCallOrAutoAnswerCall(SetState(m2, id, "DISCONNECTED"), id,
                                           m2.calls[id].run, m2.calls[id].tel)

DisconnectedHandle(m0, rep, src, ok) ==
    LET m1 == RefreshDialingStateByOtherState(m0, rep, src)
        id == Placed(m1, rep)
        m2 == ClearPendingState(m1, id)
        m3 == SetState(m2, id, "DISCONNECTED")
        m4 == IF LatchReleased(m3)
              THEN HandleDialWhenHolding([m3 EXCEPT !.needWaitHold = FALSE], id, ok)
              ELSE m3
    IN IF id = NoId THEN m1
       ELSE HandleHoldCallOrAutoAnswerCall(m4, id, m2.calls[id].run, m2.calls[id].tel)

HandleCallReportInfo(m, rep, src, ok) ==
    LET handled == CASE rep.tel = "DIALING"       -> DialingHandle(m, rep, src)
                     [] rep.tel = "ALERTING"      -> AlertHandle(m, rep, src)
                     [] rep.tel = "ACTIVE"        -> ActiveHandle(m, rep, src)
                     [] rep.tel = "HOLDING"       -> HoldingHandle(m, rep, ok)
                     [] rep.tel = "DISCONNECTING" -> DisconnectingHandle(m, rep)
                     [] rep.tel = "DISCONNECTED"  -> DisconnectedHandle(m, rep, src, ok)
                     [] OTHER                     -> m
    IN HandleDsdaInfo(handled, rep.slot)

\* Whatever operation failed, the latest call being dialled is taken to have
\* failed; the failure of a hold also clears the latch.
HandleEventResultReportInfo(m, op) ==
    LET call == GetOneCallObject(m.calls, "DIALING")
        m1 == IF call = NoId THEN m ELSE DealFailDial(m, call)
    IN IF op = "hold" THEN [m1 EXCEPT !.needWaitHold = FALSE] ELSE m1
-----------------------------------------------------------------------------
(* The dialling threads *)

At(r, from) == pc[r] = from
Goto(r, to) == pc' = [pc EXCEPT ![r] = to]

\* listMutex_ is free unless a thread waits for it while holding it.
ListMutexFree == \A r \in Requests : pc[r] # "blocked"

\* DialCall: the request passes the dial policies and is put into the
\* hand-over slot.
PackageDialInformation(r) ==
    /\ At(r, "idle")
    /\ "dialers" \in Races \/ \A q \in Requests : pc[q] \in {"idle", "done"}
    /\ dialSrc' = r
    /\ Goto(r, "packaged")
    /\ UNCHANGED <<manager, dialTimer, dialCallInfo, info, user, modem>>

\* DialRequest: the thread takes whatever the slot holds by now.
DialRequest(r) ==
    /\ At(r, "packaged")
    /\ info' = [info EXCEPT ![r] = dialSrc]
    /\ Goto(r, "requested")
    /\ UNCHANGED <<manager, dialTimer, dialSrc, dialCallInfo, user, modem>>

\* CarrierDialProcess, the check of the gate.
IsDialingCallProcessing(r) ==
    /\ At(r, "requested")
    /\ Goto(r, IF dialing THEN "done" ELSE "gated")
    /\ UNCHANGED <<manager, dialTimer, dialSrc, dialCallInfo, info, user, modem>>

\* RestoreDialingFlag(true) closes the gate.
CloseGate(r) ==
    /\ At(r, "gated")
    /\ Become([Manager EXCEPT !.dialing = TRUE])
    /\ Goto(r, "closing")
    /\ UNCHANGED <<dialTimer, dialSrc, dialCallInfo, info, user, modem>>

\* The task that reopens the gate is posted, unless the gate is open again.
SetDialingCallProcessing(r) ==
    /\ At(r, "closing")
    /\ dialTimer' = (dialing \/ dialTimer)
    /\ Goto(r, "entered")
    /\ UNCHANGED <<manager, dialSrc, dialCallInfo, info, user, modem>>

\* The active call that a dial on another slot has to hold first.
CallToHold(r) ==
    LET active == GetOneCallObject(calls, "ACTIVE")
    IN IF DsdaMode /\ active # NoId /\ calls[active].slot # SlotOf[info[r]]
       THEN active ELSE NoId

\* HandleDialingInfo with IsDialCallForDsda, for a number that is no emergency
\* number.
HandleDialingInfo(r, ok) ==
    /\ At(r, "entered") /\ ListMutexFree
    /\ IF RelocksListMutex(calls)
       THEN Goto(r, "blocked") /\ UNCHANGED manager
       ELSE IF IsNewCallAllowedCreate(calls) /\ CallToHold(r) = NoId
       THEN Goto(r, "reporting") /\ UNCHANGED manager
       ELSE IF IsNewCallAllowedCreate(calls) /\ ok
       THEN Goto(r, "held") /\ Become(Ask(Manager, "hold", CallToHold(r)))
       ELSE Goto(r, "refused") /\ UNCHANGED manager
    /\ UNCHANGED <<dialTimer, dialSrc, dialCallInfo, info, user, modem>>

\* Mutant: a refused dial forgets to restore the flag.
RestoreDialingFlagSkipped(r) ==
    /\ At(r, "refused")
    /\ Goto(r, "reopened")
    /\ UNCHANGED <<manager, dialTimer, dialSrc, dialCallInfo, info, user, modem>>

\* The three statements a refused dial leaves CarrierDialProcess by.
RestoreDialingFlag(r) ==
    /\ At(r, "refused")
    /\ Become([Manager EXCEPT !.dialing = FALSE])
    /\ Goto(r, "reopened")
    /\ UNCHANGED <<dialTimer, dialSrc, dialCallInfo, info, user, modem>>

RemoveEventHandlerTask(r) ==
    /\ At(r, "reopened")
    /\ dialTimer' = FALSE
    /\ Goto(r, "removed")
    /\ UNCHANGED <<manager, dialSrc, dialCallInfo, info, user, modem>>

ClearNeedWaitHold(r) ==
    /\ At(r, "removed")
    /\ Become([Manager EXCEPT !.needWaitHold = FALSE])
    /\ Goto(r, "done")
    /\ UNCHANGED <<dialTimer, dialSrc, dialCallInfo, info, user, modem>>

\* IsDialCallForDsda, after HoldCall has returned: only now is the latch set.
SetNeedWaitHold(r) ==
    /\ At(r, "held")
    /\ Become([Manager EXCEPT !.needWaitHold = TRUE])
    /\ Goto(r, "reporting")
    /\ UNCHANGED <<dialTimer, dialSrc, dialCallInfo, info, user, modem>>

\* The DIALING report that makes the report queue create the call.
UpdateCallReportInfo(r) ==
    /\ At(r, "reporting")
    /\ Become([Manager EXCEPT
           !.firstAdded = FALSE,
           !.queue = Append(@, CallReport("DIALING", InitIndex, SlotOf[info[r]], info[r]))])
    /\ Goto(r, "starting")
    /\ UNCHANGED <<dialTimer, dialSrc, dialCallInfo, info, user, modem>>

\* Mutant: the dial is sent without waiting for the hold.
HandleStartDialAtOnce(r, ok) ==
    /\ At(r, "starting")
    /\ IF ok THEN Goto(r, "done") /\ Become(SendDial(Manager, info[r]))
       ELSE Goto(r, "failing") /\ UNCHANGED manager
    /\ UNCHANGED <<dialTimer, dialSrc, dialCallInfo, info, user, modem>>

HandleStartDial(r, ok) ==
    /\ At(r, "starting")
    /\ IF needWaitHold THEN Goto(r, "deferring") /\ UNCHANGED manager
       ELSE IF ok THEN Goto(r, "done") /\ Become(SendDial(Manager, info[r]))
       ELSE Goto(r, "failing") /\ UNCHANGED manager
    /\ UNCHANGED <<dialTimer, dialSrc, dialCallInfo, info, user, modem>>

\* HandleStartDial: the dial is left for HandleDialWhenHolding to send.
StoreDialCallInfo(r) ==
    /\ At(r, "deferring")
    /\ dialCallInfo' = info[r]
    /\ Goto(r, "done")
    /\ UNCHANGED <<manager, dialTimer, dialSrc, info, user, modem>>

\* Mutant: the failure is returned to the client and not reported.
HandleDialFailUnreported(r) ==
    /\ At(r, "failing") /\ ListMutexFree
    /\ firstAdded \/ queue = <<>> \/ "timeouts" \in Races
    /\ Goto(r, "done")
    /\ UNCHANGED <<manager, dialTimer, dialSrc, dialCallInfo, info, user, modem>>

\* HandleDialFail, woken because the call was added or after one second: the
\* call being dialled, if there is one, is reported gone.
HandleDialFail(r) ==
    /\ At(r, "failing") /\ ListMutexFree
    /\ firstAdded \/ queue = <<>> \/ "timeouts" \in Races
    /\ IF GetDialingCall(calls) = NoId THEN UNCHANGED manager
       ELSE Become(DealFailDial(Manager, GetDialingCall(calls)))
    /\ Goto(r, "done")
    /\ UNCHANGED <<dialTimer, dialSrc, dialCallInfo, info, user, modem>>
-----------------------------------------------------------------------------
(* The hang-up client *)

\* HangUpCall: the policy lets the request pass.
HangUpCall(id) ==
    /\ user.pc = "idle" /\ user.left > 0 /\ ListMutexFree
    /\ HangUpPolicy(calls, id)
    /\ user' = [pc |-> "checked", id |-> id, left |-> user.left - 1]
    /\ UNCHANGED <<manager, dialTimer, dialSrc, dialCallInfo, pc, info, modem>>

\* A call the modem has not numbered cannot be hung up yet and is to be
\* postponed.  Any other call is handed to a task of its own.
HasPendingMo ==
    /\ user.pc = "checked"
    /\ user' = [user EXCEPT !.pc = IF pendingMo = user.id THEN "postponing" ELSE "submitted"]
    /\ UNCHANGED <<manager, dialTimer, dialSrc, dialCallInfo, pc, info, modem>>

SetPendingMo ==
    /\ user.pc = "postponing"
    /\ Become([Manager EXCEPT !.pendingMo = NoId])
    /\ user' = [user EXCEPT !.pc = "unmarked"]
    /\ UNCHANGED <<dialTimer, dialSrc, dialCallInfo, pc, info, modem>>

SetPendingHangup ==
    /\ user.pc = "unmarked"
    /\ Become([Manager EXCEPT !.pendingHangup = user.id])
    /\ user' = [user EXCEPT !.pc = "claimed"]
    /\ UNCHANGED <<dialTimer, dialSrc, dialCallInfo, pc, info, modem>>

\* PostPendingHangupProtectTask does nothing while a handle is kept.
PostPendingHangupProtectTask ==
    /\ user.pc = "claimed"
    /\ Become(IF hangupTask.st # "none" THEN Manager
              ELSE [Manager EXCEPT !.hangupTask = [st |-> "armed", id |-> user.id]])
    /\ user' = [user EXCEPT !.pc = "idle"]
    /\ UNCHANGED <<dialTimer, dialSrc, dialCallInfo, pc, info, modem>>

\* HangUpRequest: an active call with a held one behind it is released with
\* the order to recover the held one, unless DSDA has a call on another slot.
HangUpRequest ==
    LET id == user.id
        recover == /\ calls[id].tel = "ACTIVE" /\ InTel(calls, "HOLDING") # {}
                   /\ InTel(calls, "WAITING") = {}
                   /\ ~(DsdaMode /\ IsExistCallOtherSlot(calls, calls[id].slot))
    IN /\ user.pc = "submitted" /\ ListMutexFree
       /\ IF id \notin DOMAIN calls THEN UNCHANGED manager
          ELSE Become(Ask(Manager, IF recover THEN "hangupActive" ELSE "hangup", id))
       /\ user' = [user EXCEPT !.pc = "idle"]
       /\ UNCHANGED <<dialTimer, dialSrc, dialCallInfo, pc, info, modem>>
-----------------------------------------------------------------------------
(* The report queue and the timers *)

\* Thread r has asked for a hold and not yet stored the dial that waits for it.
PreparesToWait(r) ==
    pc[r] \in {"held", "deferring"} \/ (needWaitHold /\ pc[r] \in {"reporting", "starting"})

\* When a report can be handled: the guard of ProcessReport.  Weak fairness of
\* ReportQueue is written out with it.
ReportDue ==
    /\ queue # <<>> /\ ListMutexFree /\ ~removing
    /\ "hold" \in Races \/ \A r \in Requests : ~PreparesToWait(r)
    /\ "hangup" \in Races \/ user.pc \notin {"postponing", "unmarked", "claimed"}

\* A handler that is given no answer of Dial ignores ok.
ProcessReport(ok) ==
    /\ ReportDue
    /\ LET rep == Head(queue)
           m == [Manager EXCEPT !.queue = Tail(@)]
       IN Become(IF rep.kind = "event" THEN HandleEventResultReportInfo(m, rep.op)
                 ELSE HandleCallReportInfo(m, rep, dialSrc, ok))
    /\ UNCHANGED <<dialTimer, dialSrc, dialCallInfo, pc, info, user, modem>>

\* DialingHandle, after RestoreDialingFlag(false): RemoveEventHandlerTask.
HandlerRemovesTask ==
    /\ removing
    /\ Become([Manager EXCEPT !.removing = FALSE]) /\ dialTimer' = FALSE
    /\ UNCHANGED <<dialSrc, dialCallInfo, pc, info, user, modem>>

\* The three-second task of SetDialingCallProcessing.
DialTimerFires ==
    /\ dialTimer
    /\ \/ "timeouts" \in Races
       \/ /\ queue = <<>> /\ ~removing
          /\ \A r \in Requests :
                pc[r] \notin {"closing", "entered", "held", "reporting", "refused", "reopened"}
    /\ Become([Manager EXCEPT !.dialing = FALSE]) /\ dialTimer' = FALSE
    /\ UNCHANGED <<dialSrc, dialCallInfo, pc, info, user, modem>>

\* No dialling thread is on its way, everything asked of the modems is
\* answered, and every answer handled.
Answered ==
    /\ \A r \in Requests : pc[r] \in {"idle", "done"}
    /\ queue = <<>> /\ ~removing /\ \A s \in Slots : req[s] = <<>>

\* The thirty-second task of PostPendingHangupProtectTask; when its hang-up is
\* no longer pending it leaves the handle as it is.
PendingHangupTimeout ==
    LET id == hangupTask.id
        failed == IF id \in DOMAIN calls THEN DealFailDial(Manager, id) ELSE Manager
    IN /\ hangupTask.st = "armed" /\ ListMutexFree
       /\ Answered \/ "timeouts" \in Races
       /\ Become(IF pendingHangup = id THEN DropPendingHangup(failed)
                 ELSE [Manager EXCEPT !.hangupTask.st = "spent"])
       /\ UNCHANGED <<dialTimer, dialSrc, dialCallInfo, pc, info, user, modem>>
-----------------------------------------------------------------------------
(* The modems behind cellular_call, modelled from the requests and reports *)
(* this code exchanges with them.  A modem serves its requests in order;   *)
(* the network may advance or end a call at any time.                      *)

InModemState(s, states) == {i \in 1..MaxIdx : modem[s][i].st \in states}
Seen(s, i, tel) == CallReport(tel, i, s, modem[s][i].num)

\* A step of modem s: its calls become c, its first request is done, and the
\* reports are queued.
Serve(s, c, reports) ==
    /\ modem' = [modem EXCEPT ![s] = c]
    /\ req' = [req EXCEPT ![s] = Tail(@)]
    /\ queue' = queue \o reports

Asked(s, ops) == req[s] # <<>> /\ Head(req[s]).op \in ops

environment == <<calls, nextId, dialing, removing, dialTimer, pendingMo, pendingHangup, hangupTask,
                 needWaitHold, firstAdded, sent, dialSrc, dialCallInfo, pc, info, user>>

\* A new call takes the least free index; an active call of the slot is held.
\* The first state seen may already be ALERTING.
ModemDial(s) ==
    LET free == InModemState(s, {"NONE"})
        num == Head(req[s]).num
        active == InModemState(s, {"ACTIVE"})
    IN /\ Asked(s, {"dial"})
       /\ \E i \in free, st \in {"DIALING", "ALERTING"} :
             /\ \A j \in free : i <= j
             /\ Serve(s, [j \in 1..MaxIdx |-> CASE j = i      -> [st |-> st, num |-> num]
                                                [] j \in active -> [modem[s][j] EXCEPT !.st = "HOLDING"]
                                                [] OTHER        -> modem[s][j]],
                      (IF active = {} THEN <<>>
                       ELSE <<Seen(s, CHOOSE j \in active : TRUE, "HOLDING")>>)
                      \o <<CallReport(st, i, s, num)>>)
       /\ UNCHANGED environment

ModemHold(s) ==
    LET i == Head(req[s]).idx
    IN /\ Asked(s, {"hold"}) /\ i \in InModemState(s, {"ACTIVE"})
       /\ Serve(s, [modem[s] EXCEPT ![i].st = "HOLDING"], <<Seen(s, i, "HOLDING")>>)
       /\ UNCHANGED environment

ModemUnHold(s) ==
    LET i == Head(req[s]).idx
    IN /\ Asked(s, {"unhold"}) /\ i \in InModemState(s, {"HOLDING"})
       /\ InModemState(s, {"DIALING", "ALERTING", "ACTIVE"}) = {}
       /\ Serve(s, [modem[s] EXCEPT ![i].st = "ACTIVE"], <<Seen(s, i, "ACTIVE")>>)
       /\ UNCHANGED environment

\* The end of a call may be announced by DISCONNECTING; with "hangupActive" a
\* held call of the slot is recovered.
ModemHangup(s) ==
    LET i == Head(req[s]).idx
        held == IF Head(req[s]).op = "hangup" THEN {} ELSE InModemState(s, {"HOLDING"}) \ {i}
        next == CHOOSE j \in held : TRUE
    IN /\ Asked(s, {"hangup", "hangupActive"}) /\ i \in InModemState(s, ModemStates)
       /\ \E announced \in BOOLEAN :
             Serve(s, [j \in 1..MaxIdx |-> IF j = i THEN NoCall
                                           ELSE IF held # {} /\ j = next
                                           THEN [modem[s][j] EXCEPT !.st = "ACTIVE"]
                                           ELSE modem[s][j]],
                   (IF announced THEN <<Seen(s, i, "DISCONNECTING")>> ELSE <<>>)
                   \o <<Seen(s, i, "DISCONNECTED")>>
                   \o (IF held = {} THEN <<>> ELSE <<Seen(s, next, "ACTIVE")>>))
       /\ UNCHANGED environment

\* A request fails, or there is no call it could apply to.
ModemRefuses(s) ==
    LET op == Head(req[s]).op
        fit == CASE op = "dial"   -> InModemState(s, {"NONE"}) # {}
                 [] op = "hold"   -> Head(req[s]).idx \in InModemState(s, {"ACTIVE"})
                 [] op = "unhold" -> /\ Head(req[s]).idx \in InModemState(s, {"HOLDING"})
                                     /\ InModemState(s, ModemStates \ {"HOLDING"}) = {}
                 [] OTHER         -> Head(req[s]).idx \in InModemState(s, ModemStates)
    IN /\ Asked(s, ModemOps)
       /\ op \in ModemFaults \/ ~fit
       /\ Serve(s, modem[s], IF op \in ModemFaults \/ op = "dial"
                             THEN <<[kind |-> "event", op |-> op]>> ELSE <<>>)
       /\ UNCHANGED environment

NetworkAdvances(s, i) ==
    LET next == IF modem[s][i].st = "DIALING" THEN "ALERTING" ELSE "ACTIVE"
    IN /\ i \in InModemState(s, {"DIALING", "ALERTING"})
       /\ modem' = [modem EXCEPT ![s][i].st = next]
       /\ queue' = Append(queue, Seen(s, i, next))
       /\ UNCHANGED <<environment, req>>

NetworkEnds(s, i) ==
    /\ i \in InModemState(s, ModemStates)
    /\ modem' = [modem EXCEPT ![s][i] = NoCall]
    /\ queue' = Append(queue, Seen(s, i, "DISCONNECTED"))
    /\ UNCHANGED <<environment, req>>
-----------------------------------------------------------------------------
Init ==
    /\ calls = EmptyTable /\ nextId = 0
    /\ dialSrc = NoRequest /\ dialCallInfo = NoRequest
    /\ dialing = FALSE /\ dialTimer = FALSE /\ removing = FALSE
    /\ pendingMo = NoId /\ pendingHangup = NoId /\ hangupTask = NoTask
    /\ needWaitHold = FALSE /\ firstAdded = FALSE
    /\ queue = <<>>
    /\ pc = [r \in Requests |-> "idle"] /\ info = [r \in Requests |-> NoRequest]
    /\ user = [pc |-> "idle", id |-> NoId, left |-> MaxHangups]
    /\ req = [s \in Slots |-> <<>>]
    /\ modem = [s \in Slots |-> [i \in 1..MaxIdx |-> NoCall]]
    /\ sent = [r \in Requests |-> 0]

DialThread(r) ==
    \/ DialRequest(r)
    \/ IsDialingCallProcessing(r)
    \/ CloseGate(r)
    \/ SetDialingCallProcessing(r)
    \/ \E ok \in SyncResults : HandleDialingInfo(r, ok)
    \/ RestoreDialingFlag(r)
    \/ RemoveEventHandlerTask(r)
    \/ ClearNeedWaitHold(r)
    \/ SetNeedWaitHold(r)
    \/ UpdateCallReportInfo(r)
    \/ \E ok \in SyncResults : HandleStartDial(r, ok)
    \/ StoreDialCallInfo(r)
    \/ HandleDialFail(r)

HangupThread == HasPendingMo \/ SetPendingMo \/ SetPendingHangup \/ PostPendingHangupProtectTask \/ HangUpRequest

ReportQueue == \E ok \in SyncResults : ProcessReport(ok)

Modem(s) == ModemDial(s) \/ ModemHold(s) \/ ModemUnHold(s) \/ ModemHangup(s) \/ ModemRefuses(s)

Next ==
    \/ \E r \in Requests : PackageDialInformation(r) \/ DialThread(r)
    \/ \E id \in DOMAIN calls : HangUpCall(id)
    \/ HangupThread
    \/ ReportQueue
    \/ HandlerRemovesTask
    \/ DialTimerFires
    \/ PendingHangupTimeout
    \/ \E s \in Slots : Modem(s)
    \/ \E s \in Slots : \E i \in 1..MaxIdx : NetworkAdvances(s, i) \/ NetworkEnds(s, i)

\* Threads that were started run on, the queue is served, timers expire, and
\* a modem answers what it was asked.  Clients and the network owe nothing.
Fairness ==
    /\ \A r \in Requests : WF_vars(DialThread(r))
    /\ WF_vars(HangupThread)
    /\ []<>~ReportDue \/ []<><<ReportQueue>>_vars
    /\ WF_vars(HandlerRemovesTask)
    /\ WF_vars(DialTimerFires)
    /\ WF_vars(PendingHangupTimeout)
    /\ \A s \in Slots : WF_vars(Modem(s))

Spec == Init /\ [][Next]_vars /\ Fairness
-----------------------------------------------------------------------------
(* Properties *)

\* GateHasOwner: while isDialingCallProcessing_ keeps further dials out, there
\* is a dial that has yet to reopen it: a thread between closing the gate and
\* reporting or being refused, or its DIALING report still in the queue.  No
\* order of the threads, the handler and the timer leaves the gate closed for
\* a dial that is over.
OwesGate(r) == pc[r] \in {"closing", "entered", "blocked", "held", "reporting", "refused"}
WillReopen(rep) == rep.kind = "call" /\ rep.tel = "DIALING" /\ rep.idx = InitIndex
GateHasOwner ==
    dialing => \/ \E r \in Requests : OwesGate(r)
               \/ \E k \in 1..Len(queue) : WillReopen(queue[k])

\* PendingMoIsUnplaced: the call remembered as "dialled but not yet numbered"
\* is in the table and indeed has no index, so that a hang-up is postponed
\* only for a call that a later report will number or end.
PendingMoIsUnplaced ==
    pendingMo # NoId => pendingMo \in AtIndex(calls, InitIndex)

\* PendingHangupIsLive: a hang-up waits only for a call that is still in the
\* table: whatever ends the call (a report, the dropped dial, the protect task)
\* also takes the hang-up that was waiting for it.
PendingHangupIsLive == pendingHangup # NoId => pendingHangup \in DOMAIN calls

\* DialedOnce: no request is sent to a modem twice, neither by its own thread
\* and HandleDialWhenHolding both, nor by two releases of the latch.
DialedOnce == \A r \in Requests : sent[r] <= 1

\* DialsIntoSilence: in DSDA mode no call is dialled on one slot while the
\* table has an active call on another.
DialsIntoSilence ==
    [][\A r \in Requests : DsdaMode /\ sent'[r] > sent[r] =>
          \A i \in InTel(calls', "ACTIVE") : calls'[i].slot = SlotOf[r]]_vars

\* Nothing is under way and no answer is owed.
AtRest ==
    /\ Answered
    /\ user.pc = "idle" /\ hangupTask.st # "armed"

\* NoStrandedDial: once everything is answered no call still waits for an
\* index and the latch needWaitHold_ is clear: no dial request hangs.
NoStrandedDial ==
    AtRest => AtIndex(calls, InitIndex) = {} /\ ~needWaitHold

\* TableMatchesModems: once everything is answered, the calls of the table
\* are the calls of the modems, in the same states and with the same numbers.
TableMatchesModems ==
    AtRest =>
        \A s \in Slots, i \in 1..MaxIdx :
            {[st |-> calls[c].tel, num |-> calls[c].num] : c \in AtPlace(calls, i, s)}
              = {modem[s][i]} \ {NoCall}

\* DialInfoIsOwn: a call is created with the parameters of the request it was
\* dialled for.
DialInfoIsOwn == \A i \in DOMAIN calls : calls[i].src = calls[i].num

\* DialedCallIsTabled: a call the modem has, and has reported, is in the table.
DialedCallIsTabled ==
    AtRest => \A s \in Slots : \A i \in InModemState(s, ModemStates) : AtPlace(calls, i, s) # {}

\* NeverRelocks: no thread waits for a lock it holds.
NeverRelocks == ListMutexFree

\* HangupHonoured: a hang-up that was postponed is carried out or given up.
HangupHonoured == pendingHangup # NoId ~> pendingHangup = NoId

\* GateOpensAgain: the gate never stays closed.
GateOpensAgain == dialing ~> ~dialing
=============================================================================
