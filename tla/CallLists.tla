------------------------------ MODULE CallLists ------------------------------
(***************************************************************************)
(* cellular_call reports, per SIM slot, the whole list of the slot's calls *)
(* whenever one of them changes.  ReportCallInfoHandler queues the lists;  *)
(* CallStatusManager compares each with the previous one, callDetailsInfo_,*)
(* and turns the differences into per-call reports, inventing a            *)
(* DISCONNECTED report for a call that is no longer listed.  The handlers  *)
(* of those reports keep the table of calls and fraud detection up to      *)
(* date.  Refused incoming calls never reach the table; a dialled call is  *)
(* in it under index 0 until a list numbers it.                            *)
(*                                                                         *)
(* cellular_call and the modem behind it are external: calls come, change  *)
(* and go, and the service may die and be restarted.  The handlers'        *)
(* requests to hold, resume and hang up calls are answered by the modem    *)
(* changing its calls, which it may do at any time.                        *)
(***************************************************************************)
EXTENDS AntiFraud, Ascending

CONSTANTS
    Slots,       \* the SIM slots
    MaxIdx,      \* greatest index the modem gives a call of one slot
    MaxCalls,    \* bound: how many calls there are in all
    MaxDials,    \* bound: how many of them are dialled
    MaxQueue,    \* bound: the modem waits while so many reports are queued
    MaxChanges,  \* bound: how often the modem changes a call it has
    MaxCrashes,  \* bound: how often cellular_call dies
    Detect,      \* the settings turn fraud detection on
    ClearReport, \* how cellular_call answers ClearAllCalls: "list" or "single"
    Races        \* orders the environment may produce, a subset of
                 \*   "screened": cellular_call dies, or is dead, while a refused
                 \*               call is listed
                 \*   "late":     it is back before its old reports are worked off
                 \*   "gap":      a call comes between the crash and ClearAllCalls
                 \*   "empty":    it sends an empty list when the last call is gone
                 \*   "glare":    a dial given up for an incoming call goes on and
                 \*               is ALERTING when it is first listed
                 \*   "reconnect": a request finds cellular_call again before
                 \*               OnAddSystemAbility does
                 \*   "revive":   fraud detection sets a call ACTIVE that was ACTIVE
                 \*               when it looked

ASSUME ListsAssumption ==
    /\ Slots \subseteq Nat /\ Slots # {}
    /\ MaxIdx \in Nat \ {0} /\ MaxCalls \in Nat \ {0} /\ MaxQueue \in Nat \ {0}
    /\ MaxDials \in Nat /\ MaxChanges \in Nat /\ MaxCrashes \in Nat
    /\ Detect \in BOOLEAN
    /\ ClearReport \in {"list", "single"}
    /\ Races \subseteq {"screened", "late", "gap", "empty", "glare", "reconnect", "revive"}

Indexes == 1..MaxIdx
Nums == 1..MaxCalls
InitIndex == 0

VARIABLES
    calls,     \* the table: per slot and index, a call or none
    queue,     \* reportCallInfoQueue
    details,   \* callDetailsInfo_
    work,      \* of the list at the queue's head: the reports still to handle
    busy,      \* HandleCallsReportInfo is at work on the queue's head
    af,        \* fraud detection, see AntiFraud
    screened,  \* history: the refused calls that are still listed
    modem,     \* the modem's calls by slot and index
    dialReq,   \* per slot, the call the modem was asked to dial, 0 when none
    up,        \* connectState_: cellular_call is there
    clearing,  \* the places ClearAllCalls is about to name
    reported,  \* history: slots the modem reported since cellular_call last died
    used       \* how many calls, dials, changes and crashes there were, and
               \* how many calls before the last crash

manager == <<calls, queue, details, af, screened>>
env == <<modem, dialReq, up, clearing, reported, used>>
vars == <<manager, work, busy, env>>

States == {"DIALING", "ALERTING", "INCOMING", "WAITING", "ACTIVE", "HOLDING",
           "DISCONNECTING"}
Types == {"CS", "IMS"}
RingingStates == {"INCOMING", "WAITING"}
Places == Slots \X Indexes

Ended == [st |-> "DISCONNECTED", type |-> "IMS", num |-> 0]  \* listed as gone
ModemCalls == [st: States, type: Types, num: Nums] \cup {NoCall}
TableCalls == [st: States, type: Types, num: Nums, af: AfStates] \cup {NoCall}
Reports == [slot: Slots, idx: 0..MaxIdx, st: States \cup {"DISCONNECTED"},
            type: Types, num: Nums \cup {0}]
Lists == [slot: Slots, calls: [Indexes -> ModemCalls \cup {Ended}]]
Objects == [place: Places, num: Nums, type: Types]
Tasks == [pc: {"submitted", "checked", "started"}, call: Objects]
Triggers == [state: AfStates, found: Objects \cup {NoCall}] \cup {NoTrigger}
Updates == [by: {"trigger", "celia"}, call: Objects]
AfPlaces == Places \cup {NoPlace}

\* Every reachable value has the type its C++ counterpart has.
TypeOK ==
    /\ calls \in [Slots -> [0..MaxIdx -> TableCalls]]
    /\ queue \in Seq(Lists \cup Reports)
    /\ details \in [Slots -> [Indexes -> [st: States, type: Types] \cup {NoCall}]]
    /\ work \in Seq(Reports) /\ busy \in BOOLEAN
    /\ af \in [latch: AfPlaces, stopped: AfPlaces, tasks: SUBSET Tasks, trig: Triggers,
               updates: SUBSET Updates, det: AfPlaces, late: SUBSET Places, abandoned: BOOLEAN]
    /\ screened \subseteq [place: Places, num: Nums]
    /\ modem \in [Slots -> [Indexes -> ModemCalls]]
    /\ dialReq \in [Slots -> Nums \cup {0}]
    /\ up \in BOOLEAN /\ clearing \subseteq Slots \X (0..MaxIdx) /\ reported \subseteq Slots
    /\ used \in [calls: 0..MaxCalls, dials: 0..MaxDials, changes: 0..MaxChanges,
                 crashes: 0..MaxCrashes, old: 0..MaxCalls]

There(c) == c.st # "NONE"
Live(c) == c.st \notin {"NONE", "DISCONNECTED"}
IsList(q) == "calls" \in DOMAIN q
Report(slot, idx, st, type, num) ==
    [slot |-> slot, idx |-> idx, st |-> st, type |-> type, num |-> num]
-----------------------------------------------------------------------------
(* The handlers of one call's report *)

Manager == [calls |-> calls, queue |-> queue, details |-> details, af |-> af,
            screened |-> screened]
Become(m) == /\ calls' = m.calls /\ queue' = m.queue /\ details' = m.details
             /\ af' = m.af /\ screened' = m.screened

Known(m, r) == There(m.calls[r.slot][r.idx])
SetState(m, r, st) == [m EXCEPT !.calls[r.slot][r.idx].st = st]
Put(m, r, st) ==
    [m EXCEPT !.calls[r.slot][r.idx] =
        [st |-> st, type |-> r.type, num |-> r.num, af |-> "DEFAULT"]]

\* RefreshCallIfNecessary: a call that changed its type becomes another object;
\* the verdict of fraud detection is not carried over.
RefreshCallIfNecessary(m, r) ==
    IF m.calls[r.slot][r.idx].type = r.type THEN m
    ELSE [m EXCEPT !.calls[r.slot][r.idx].type = r.type,
                   !.calls[r.slot][r.idx].af = "DEFAULT"]

\* The slot of a call with index 0, if there is one.
InitSlots(m) == {s \in Slots : There(m.calls[s][InitIndex])}

\* The call with index 0 is the one a list now numbers.
UpdateDialingCallInfo(m, r) ==
    LET s == CHOOSE s \in InitSlots(m) : TRUE
        call == m.calls[s][InitIndex]
    IN IF Known(m, r) THEN RefreshCallIfNecessary(m, r)
       ELSE [m EXCEPT !.calls[s][InitIndex] = NoCall,
                      !.calls[r.slot][r.idx] = [call EXCEPT !.st = "DIALING", !.type = r.type]]

DialingHandle(m, r) ==
    IF r.idx > InitIndex /\ (There(m.calls[r.slot][InitIndex]) \/ Known(m, r))
    THEN UpdateDialingCallInfo(m, r)
    ELSE Put(m, r, "DIALING")

\* Mutant: only a DIALING report may number the dialled call.
RefreshDialingStateByOtherStateNever(m, r) == m

\* A later report may be the first to show the index of the dialled call.
RefreshDialingStateByOtherState(m, r) ==
    IF Known(m, r) \/ InitSlots(m) = {} THEN m ELSE DialingHandle(m, r)

ActiveHandle(m, r, choice) ==
    LET n == RefreshDialingStateByOtherState(m, r)
        a == SetState(RefreshCallIfNecessary(n, r), r, "ACTIVE")
    IN IF ~Known(n, r) THEN n
       ELSE IF choice.detect THEN SetupAntiFraudService(a, <<r.slot, r.idx>>)
       ELSE a

AlertHandle(m, r) ==
    LET n == RefreshDialingStateByOtherState(m, r)
    IN IF ~Known(n, r) \/ n.calls[r.slot][r.idx].st = "DISCONNECTING" THEN n
       ELSE SetState(RefreshCallIfNecessary(n, r), r, "ALERTING")

HoldingHandle(m, r, choice) ==
    IF ~Known(m, r) THEN m
    ELSE SetState(RefreshCallIfNecessary(
             PauseAntiFraudDetect(m, <<r.slot, r.idx>>, choice.stop), r), r, "HOLDING")

DisconnectingHandle(m, r, choice) ==
    IF ~Known(m, r) THEN m
    ELSE SetState(RefreshCallIfNecessary(
             StopAntiFraudDetect(m, <<r.slot, r.idx>>, choice.stop), r), r, "DISCONNECTING")

\* Mutant: the call is marked as gone but not deleted.
DisconnectedHandleKeeps(m, r, choice) ==
    LET n == RefreshDialingStateByOtherState(m, r)
    IN IF ~Known(n, r) THEN n
       ELSE SetState(StopAntiFraudDetect(n, <<r.slot, r.idx>>, choice.stop), r, r.st)

\* HandleHoldCallOrAutoAnswerCall deletes the call from the table.
DisconnectedHandle(m, r, choice) ==
    LET n == RefreshDialingStateByOtherState(m, r)
    IN IF ~Known(n, r) THEN n
       ELSE [StopAntiFraudDetect(n, <<r.slot, r.idx>>, choice.stop) EXCEPT
                 !.calls[r.slot][r.idx] = NoCall]

\* RefreshOldCall gives up a dial the modem has not numbered.
DealFailDials(m) ==
    IF InitSlots(m) = {} THEN m
    ELSE LET s == CHOOSE s \in InitSlots(m) : TRUE
             c == m.calls[s][InitIndex]
         IN [m EXCEPT !.queue = Append(@, Report(s, InitIndex, "DISCONNECTED", c.type, c.num))]

\* A call that is known and rings again only has its object refreshed: a change
\* between INCOMING and WAITING does not reach the table.
RefreshOldCall(m, r) ==
    IF m.calls[r.slot][r.idx].type = r.type THEN m
    ELSE SetState(RefreshCallIfNecessary(m, r), r, r.st)

\* IncomingFilterPolicy, IsRejectCall and HandleRejectCall refuse a call, which
\* leaves no trace in the table.  IsRingOnceCall's wait for a DISCONNECTED report
\* blocks the queue that report would come on, so it always times out.
IncomingHandle(m, r, choice) ==
    LET n == DealFailDials(m)
        place == <<r.slot, r.idx>>
    IN IF Known(n, r) THEN RefreshOldCall(n, r)
       ELSE IF choice.show
       THEN [Put(n, r, r.st) EXCEPT !.screened = {x \in @ : x.place # place}]
       ELSE [n EXCEPT !.screened = @ \cup {[place |-> place, num |-> r.num]}]

HandleCallReportInfo(m, r, choice) ==
    CASE r.st = "ACTIVE"             -> ActiveHandle(m, r, choice)
      [] r.st = "HOLDING"            -> HoldingHandle(m, r, choice)
      [] r.st = "DIALING"            -> DialingHandle(m, r)
      [] r.st = "ALERTING"           -> AlertHandle(m, r)
      [] r.st \in RingingStates      -> IncomingHandle(m, r, choice)
      [] r.st = "DISCONNECTING"      -> DisconnectingHandle(m, r, choice)
      [] r.st = "DISCONNECTED"       -> DisconnectedHandle(m, r, choice)
-----------------------------------------------------------------------------
(* The report queue *)

\* Mutant: the call types are not compared.
ChangedStateOnly(old, new) == old.st # new.st \/ new.st = "ALERTING"

\* The comparison of a listed call with the previous list.
Changed(old, new) == old.st # new.st \/ new.st = "ALERTING" \/ old.type # new.type

\* Mutant: only calls that are still there are reported.
DifferencesOfLiveCalls(l, old) ==
    LET new == Ascending({i \in Indexes : Live(l.calls[i]) /\ Changed(old[i], l.calls[i])},
                         MaxIdx)
    IN [k \in DOMAIN new |-> LET c == l.calls[new[k]]
                             IN Report(l.slot, new[k], c.st, c.type, c.num)]

\* HandleCallsReportInfo: reports of new and changed calls, then of vanished ones.
Differences(l, old) ==
    LET new == Ascending({i \in Indexes : /\ There(l.calls[i])
                                          /\ ~There(old[i]) \/ Changed(old[i], l.calls[i])},
                         MaxIdx)
        gone == Ascending({i \in Indexes : There(old[i]) /\ ~There(l.calls[i])}, MaxIdx)
    IN [k \in DOMAIN new |-> LET c == l.calls[new[k]]
                             IN Report(l.slot, new[k], c.st, c.type, c.num)]
       \o [k \in DOMAIN gone |->
              Report(l.slot, gone[k], "DISCONNECTED", old[gone[k]].type, 0)]

\* What the policies, the settings and the anti-fraud service decide.
Choices == [show: BOOLEAN, detect: {Detect, FALSE}, stop: StopAnswers]

HandleCallsReportInfo ==
    /\ ~busy /\ queue # <<>> /\ IsList(Head(queue))
    /\ busy' = TRUE
    /\ work' = Differences(Head(queue), details[Head(queue).slot])
    /\ UNCHANGED <<manager, env>>

HandleListedCall ==
    /\ busy /\ work # <<>>
    /\ \E choice \in Choices :
         /\ choice.show \/ up \/ "screened" \in Races
         /\ Become(HandleCallReportInfo(Manager, Head(work), choice))
    /\ work' = Tail(work)
    /\ UNCHANGED <<busy, env>>

\* Mutant: the list is worked off but not remembered.
UpdateCallDetailsInfoSkipped(d, l) == d

\* Calls listed as DISCONNECTED are left out.
UpdateCallDetailsInfo(d, l) ==
    [d EXCEPT ![l.slot] = [i \in Indexes |->
        IF Live(l.calls[i]) THEN [st |-> l.calls[i].st, type |-> l.calls[i].type]
        ELSE NoCall]]

FinishCallsReportInfo ==
    /\ busy /\ work = <<>>
    /\ details' = UpdateCallDetailsInfo(details, Head(queue))
    /\ queue' = Tail(queue)
    /\ busy' = FALSE
    /\ screened' = {x \in screened : x.place[1] = Head(queue).slot =>
                                        Live(Head(queue).calls[x.place[2]])}
    /\ UNCHANGED <<calls, af, work, env>>

\* UpdateCallReportInfo's task: one report that is in no list.
HandleSingleReport ==
    /\ ~busy /\ queue # <<>> /\ ~IsList(Head(queue))
    /\ \E choice \in Choices :
         Become(HandleCallReportInfo([Manager EXCEPT !.queue = Tail(@)], Head(queue), choice))
    /\ UNCHANGED <<work, busy, env>>
-----------------------------------------------------------------------------
(* Fraud detection's own threads *)

\* The reporter that holds fraudMutex_ keeps it to the end of TriggerAntiFraud.
FraudMutexFree == af.trig = NoTrigger /\ \A u \in af.updates : u.by # "trigger"
Late == IF "revive" \in Races THEN BOOLEAN ELSE {FALSE}

TaskStarts ==
    /\ \E t \in af.tasks, ok \in BOOLEAN, answer \in StopAnswers :
         /\ t.pc = "submitted"
         /\ Become(StartAntiFraudService(Manager, t, ok, answer))
    /\ UNCHANGED <<work, busy, env>>

TaskDetects ==
    /\ \E t \in af.tasks, ok \in BOOLEAN, answer \in StopAnswers :
         /\ t.pc = "checked"
         /\ ok => af.det = NoPlace
         /\ Become(AntiFraudStartDetect(Manager, t, ok, answer))
    /\ UNCHANGED <<work, busy, env>>

TaskAnnounces ==
    /\ FraudMutexFree
    /\ \E t \in af.tasks : t.pc = "started" /\ Become(AnnounceStart(Manager, t))
    /\ UNCHANGED <<work, busy, env>>

ResultArrives ==
    /\ af.det # NoPlace /\ FraudMutexFree
    /\ \E state \in Verdicts :
         Become(RecordDetectResult([Manager EXCEPT !.af.det = NoPlace, !.af.abandoned = FALSE],
                                   af.det, state))
    /\ UNCHANGED <<work, busy, env>>

LateResultArrives ==
    /\ FraudMutexFree
    /\ \E place \in af.late, state \in Verdicts :
         Become(RecordDetectResult([Manager EXCEPT !.af.late = @ \ {place}], place, state))
    /\ UNCHANGED <<work, busy, env>>

TriggerFinishes ==
    /\ af.trig # NoTrigger
    /\ \E late \in Late : Become(FinishTrigger(Manager, late))
    /\ UNCHANGED <<work, busy, env>>

\* dealCeliaCallEvent: the assistant takes over a call.
HandleCeliaCall ==
    /\ \E place \in Places, answer \in StopAnswers, late \in Late :
         /\ There(calls[place[1]][place[2]]) /\ af.latch = place
         /\ Become(TakeOver(Manager, place, answer, late))
    /\ UNCHANGED <<work, busy, env>>

\* The thread that found a call ACTIVE comes to set it so.
CallSetActive ==
    /\ \E u \in af.updates : Become(UpdateActiveCall(Manager, u))
    /\ UNCHANGED <<work, busy, env>>
-----------------------------------------------------------------------------
(* The client, cellular_call and the modem *)

DialQueued == \E k \in DOMAIN queue : ~IsList(queue[k]) /\ queue[k].st = "DIALING"

\* IsNewCallAllowedCreate, and the gate that admits one dial at a time; the new
\* call is reported under index 0 and sent to the modem.
UserDials(s) ==
    LET there == {p \in Slots \X (0..MaxIdx) : There(calls[p[1]][p[2]])}
    IN /\ up /\ used.calls < MaxCalls /\ used.dials < MaxDials /\ Len(queue) < MaxQueue
       /\ Cardinality(there) < 2
       /\ \A p \in there : calls[p[1]][p[2]].st \notin
              RingingStates \cup {"DIALING", "ALERTING"}
       /\ ~DialQueued
       /\ \A t \in Slots : dialReq[t] = 0
       /\ queue' = Append(queue, Report(s, InitIndex, "DIALING", "IMS", used.calls + 1))
       /\ dialReq' = [dialReq EXCEPT ![s] = used.calls + 1]
       /\ used' = [used EXCEPT !.calls = @ + 1, !.dials = @ + 1]
       /\ UNCHANGED <<calls, details, af, screened, work, busy, modem, up, clearing, reported>>

\* The stub and UpdateCallsReportInfo: an empty list is refused, any other queued.
\* (Ten calls are never reached, the gate of an unfinished device set-up is open.)
OnUpdateCallsReportInfo(q, l) ==
    IF \A i \in Indexes : ~There(l.calls[i]) THEN q ELSE Append(q, l)

\* How cellular_call may list the calls cs of slot s: those that have ended since are
\* listed as DISCONNECTED or left out, but no list is left empty.
ListsOf(s, cs) ==
    LET ended == {i \in Indexes : There(modem[s][i]) /\ ~There(cs[i])}
    IN {l \in {[i \in Indexes |-> IF i \in named THEN Ended ELSE cs[i]] :
                    named \in SUBSET ended} :
            "empty" \in Races \/ \E i \in Indexes : There(l[i])}

\* The modem's calls of slot s become cs; a list says so, if someone is there to
\* send it.
ModemBecomes(s, cs) ==
    /\ Len(queue) < MaxQueue
    /\ modem' = [modem EXCEPT ![s] = cs]
    /\ IF up THEN \E l \in ListsOf(s, cs) :
                     queue' = OnUpdateCallsReportInfo(queue, [slot |-> s, calls |-> l])
       ELSE queue' = queue
    /\ reported' = IF up THEN reported \cup {s} ELSE reported
    /\ UNCHANGED <<calls, details, af, screened, work, busy, up, clearing>>

FreeIndex(s, i) == ~There(modem[s][i]) /\ \A j \in 1..(i - 1) : There(modem[s][j])

\* The first list to show a dialled call may already show it ALERTING.
ModemAcceptsDial(s) ==
    LET mayAlert == "glare" \in Races \/ (There(calls[s][InitIndex]) /\ queue = <<>>)
    IN
    /\ up /\ dialReq[s] # 0
    /\ clearing = {} \/ "gap" \in Races
    /\ \E i \in Indexes : FreeIndex(s, i) /\
         \E st \in {"DIALING"} \cup (IF mayAlert THEN {"ALERTING"} ELSE {}) :
            ModemBecomes(s, [modem[s] EXCEPT ![i] =
                [st |-> st, type |-> "IMS", num |-> dialReq[s]]])
    /\ dialReq' = [dialReq EXCEPT ![s] = 0]
    /\ UNCHANGED used

ModemRefusesDial(s) ==
    /\ up /\ dialReq[s] # 0 /\ Len(queue) < MaxQueue
    /\ queue' = Append(queue, Report(s, InitIndex, "DISCONNECTED", "IMS", dialReq[s]))
    /\ dialReq' = [dialReq EXCEPT ![s] = 0]
    /\ UNCHANGED <<calls, details, af, screened, work, busy, modem, up, clearing, reported, used>>

ModemRings(s) ==
    /\ used.calls < MaxCalls
    /\ (up /\ clearing = {}) \/ "gap" \in Races
    /\ \A i \in Indexes : There(modem[s][i]) =>
           modem[s][i].st \notin RingingStates \cup {"DIALING", "ALERTING"}
    /\ \E i \in Indexes : FreeIndex(s, i) /\
         ModemBecomes(s, [modem[s] EXCEPT ![i] =
             [st |-> IF \A j \in Indexes : ~There(modem[s][j]) THEN "INCOMING" ELSE "WAITING",
              type |-> "IMS", num |-> used.calls + 1]])
    /\ used' = [used EXCEPT !.calls = @ + 1]
    /\ UNCHANGED dialReq

\* One call moves on, and an active one is held when it becomes active.  A ringing
\* call is answered only where it is shown.
NextStates(s, i) ==
    LET c == modem[s][i]
    IN CASE c.st = "DIALING"  -> {"ALERTING", "ACTIVE"}
         [] c.st = "ALERTING" -> {"ACTIVE"}
         [] c.st = "INCOMING" -> IF calls[s][i].st \in RingingStates /\ calls[s][i].num = c.num
                                 THEN {"ACTIVE"} ELSE {}
         [] c.st = "WAITING"  -> IF calls[s][i].st \in RingingStates /\ calls[s][i].num = c.num
                                 THEN {"ACTIVE", "INCOMING"} ELSE {"INCOMING"}
         [] c.st = "ACTIVE"   -> {"HOLDING", "DISCONNECTING"}
         [] c.st = "HOLDING"  -> {"ACTIVE"}
         [] OTHER             -> {}

ModemChanges(s) ==
    /\ used.changes < MaxChanges
    /\ \E i \in Indexes :
         /\ There(modem[s][i])
         /\ \/ \E st \in NextStates(s, i) :
                 ModemBecomes(s, [j \in Indexes |->
                    IF j = i THEN [modem[s][i] EXCEPT !.st = st]
                    ELSE IF st = "ACTIVE" /\ modem[s][j].st = "ACTIVE"
                    THEN [modem[s][j] EXCEPT !.st = "HOLDING"]
                    ELSE modem[s][j]])
            \/ ModemBecomes(s, [modem[s] EXCEPT ![i] = NoCall])
    /\ used' = [used EXCEPT !.changes = @ + 1]
    /\ UNCHANGED dialReq

\* The network hands the slot's calls over from IMS to CS.
ModemHandsOver(s) ==
    /\ used.changes < MaxChanges
    /\ \E i \in Indexes : There(modem[s][i]) /\ modem[s][i].type = "IMS"
    /\ ModemBecomes(s, [i \in Indexes |->
           IF There(modem[s][i]) THEN [modem[s][i] EXCEPT !.type = "CS"] ELSE NoCall])
    /\ used' = [used EXCEPT !.changes = @ + 1]
    /\ UNCHANGED dialReq

\* OnRemoveSystemAbility: the proxy is dropped; what was asked of it is lost.
OnRemoveSystemAbility ==
    /\ up /\ used.crashes < MaxCrashes
    /\ screened = {} \/ "screened" \in Races
    /\ up' = FALSE
    /\ dialReq' = [s \in Slots |-> 0]
    /\ clearing' = {} /\ reported' = {}
    /\ used' = [used EXCEPT !.crashes = @ + 1, !.old = used.calls]
    /\ UNCHANGED <<manager, work, busy, modem>>

\* cellular_call is connected again and ClearAllCalls collects the calls of the table;
\* if a request was first to reconnect (ReConnectService), OnAddSystemAbility returns
\* at once and nothing is cleared.
OnAddSystemAbility ==
    /\ ~up
    /\ (queue = <<>> /\ ~busy) \/ "late" \in Races
    /\ up' = TRUE
    /\ \E requested \in IF "reconnect" \in Races THEN BOOLEAN ELSE {FALSE} :
         clearing' = IF requested THEN {}
                     ELSE {p \in Slots \X (0..MaxIdx) : There(calls[p[1]][p[2]])}
    /\ UNCHANGED <<manager, work, busy, modem, dialReq, reported, used>>

\* A tenth of a second later the collected calls go out and cellular_call ends them:
\* calls with an index are listed as DISCONNECTED, a dial it never saw is reported alone.
ClearAllCalls ==
    LET ended(s, i) == <<s, i>> \in clearing
        left(s) == [i \in Indexes |-> IF ended(s, i) THEN NoCall ELSE modem[s][i]]
        single(s, i) == Report(s, i, "DISCONNECTED", "IMS", 0)
        s == CHOOSE s \in Slots : \E p \in clearing : p[1] = s
        inits == IF ended(s, InitIndex) THEN <<single(s, InitIndex)>> ELSE <<>>
        numbered == Ascending({i \in Indexes : ended(s, i)}, MaxIdx)
    IN /\ up /\ clearing # {}
       /\ modem' = [modem EXCEPT ![s] = left(s)]
       /\ queue' = IF ClearReport = "list"
                   THEN OnUpdateCallsReportInfo(queue \o inits, [slot |-> s, calls |->
                            [i \in Indexes |-> IF ended(s, i) THEN Ended ELSE modem[s][i]]])
                   ELSE queue \o inits \o [k \in DOMAIN numbered |-> single(s, numbered[k])]
       /\ clearing' = {p \in clearing : p[1] # s}
       /\ reported' = reported \cup {s}
       /\ UNCHANGED <<calls, details, af, screened, work, busy, dialReq, up, used>>
-----------------------------------------------------------------------------
Init ==
    /\ calls = [s \in Slots |-> [i \in 0..MaxIdx |-> NoCall]]
    /\ queue = <<>> /\ work = <<>> /\ busy = FALSE
    /\ details = [s \in Slots |-> [i \in Indexes |-> NoCall]]
    /\ af = AfInit /\ screened = {}
    /\ modem = [s \in Slots |-> [i \in Indexes |-> NoCall]]
    /\ dialReq = [s \in Slots |-> 0]
    /\ up = TRUE /\ clearing = {} /\ reported = {}
    /\ used = [calls |-> 0, dials |-> 0, changes |-> 0, crashes |-> 0, old |-> 0]

ReportQueue == \/ HandleCallsReportInfo \/ HandleListedCall
               \/ FinishCallsReportInfo \/ HandleSingleReport
Detection == \/ TaskStarts \/ TaskDetects \/ TaskAnnounces \/ ResultArrives
             \/ LateResultArrives \/ TriggerFinishes \/ HandleCeliaCall \/ CallSetActive
Modem == \E s \in Slots : \/ UserDials(s) \/ ModemAcceptsDial(s) \/ ModemRefusesDial(s)
                          \/ ModemRings(s) \/ ModemChanges(s) \/ ModemHandsOver(s)
Service == OnRemoveSystemAbility \/ OnAddSystemAbility \/ ClearAllCalls

Next == ReportQueue \/ Detection \/ Modem \/ Service

\* The serial queue runs what is submitted to it, the delayed ClearAllCalls is made.
Fairness == WF_vars(ReportQueue) /\ WF_vars(ClearAllCalls)

Spec == Init /\ [][Next]_vars /\ Fairness
-----------------------------------------------------------------------------
(* Properties *)

\* A call's CallRunningState, which is all that INCOMING and WAITING differ in.
Running(st) == CASE st \in RingingStates            -> "RINGING"
                 [] st \in {"DIALING", "ALERTING"}  -> "DIALING"
                 [] OTHER                           -> st
Look(c) == IF Live(c) THEN [run |-> Running(c.st), type |-> c.type] ELSE NoCall

Quiet == queue = <<>> /\ ~busy /\ up /\ clearing = {}

\* Once every report is worked off, the table has exactly the calls the modem has,
\* the very same ones, in the same state and of the same type, except for refused
\* ones, which are not in it at all: inventing DISCONNECTED reports from two lists
\* loses no call and keeps none, whatever came, went, reused an index, was dialled
\* or was cleared after a crash of cellular_call in between.  A slot cellular_call
\* has not reported since it was restarted is excepted.
QuietTableMatches ==
    Quiet => \A s \in reported, i \in Indexes :
        LET c == calls[s][i]
            d == modem[s][i]
        IN \/ Look(c) = Look(d) /\ (There(d) => c.num = d.num)
           \/ ~There(c) /\ [place |-> <<s, i>>, num |-> d.num] \in screened

\* Fraud detection's threads write to the table beside the handlers, and late: a call
\* that was found ACTIVE is set ACTIVE after a report has held or ended it.  The harm
\* done is this: a call the modem is holding or disconnecting may be shown as active.
\* The late write brings no ended call back, does not reach another call that has got
\* the same index, and undoes no other change.  (Without "revive" QuietTableMatches
\* holds in the same run, with it TLC finds that violated.)
TableSurvivesDetection ==
    Quiet => \A s \in reported, i \in Indexes :
        LET c == calls[s][i]
            d == modem[s][i]
        IN \/ Look(c) = Look(d) /\ (There(d) => c.num = d.num)
           \/ There(c) /\ There(d) /\ c.num = d.num /\ c.type = d.type
                 /\ c.st = "ACTIVE" /\ d.st \in {"HOLDING", "DISCONNECTING"}
           \/ ~There(c) /\ [place |-> <<s, i>>, num |-> d.num] \in screened

\* When all is quiet a call is in the table under index 0 only while the modem still
\* owes an answer to its dial: no dial is stranded there, although an incoming call,
\* a refusal, a list and a crash of cellular_call each take it out in another way.
\* With "reconnect" it is false: a dial lost in a crash then stays.
DialIsOwedAnAnswer ==
    Quiet => \A s \in Slots : There(calls[s][InitIndex]) => dialReq[s] # 0

\* After a crash, once cellular_call is there again, the calls of before leave the
\* table, whether the modem still has them or not, unless it dies once more: the
\* delayed ClearAllCalls, the reports it provokes and their handlers end them.  With
\* "reconnect" it is false: OnAddSystemAbility returns before ClearAllCalls.
RestartEndsOldCalls ==
    up ~> \/ ~up
          \/ \A s \in Slots, i \in 0..MaxIdx : There(calls[s][i]) => calls[s][i].num > used.old

\* The call the latch names is in the table: StartAntiFraudDetectTask takes no new
\* detection while the latch is set, so a latch that outlived its call would end
\* fraud detection until the next start of the call manager.
LatchHasCall == af.latch # NoPlace => There(calls[af.latch[1]][af.latch[2]])

\* AFS listens to a call only while the latch names that call, so that the call's
\* end stops it.  Three detections are excepted (abandoned): one whose latch another
\* detection's verdict has freed, one AFS refused to stop, and one AFS started after
\* a handler had freed the latch the start task had read.
DetectionIsOwned == af.det # NoPlace => af.latch = af.det \/ af.abandoned

\* A call found fraudulent stays marked as long as it is the same call object:
\* neither a late start announcement nor a stop, a result or a second detection
\* overwrites the warning shown for it.  StopAntiFraudDetect is one step here, and so
\* is FinishTrigger: in between their parts a warning can be lost (a verdict given
\* while the call's detection is being stopped is overwritten by that stop).
VerdictSticks ==
    [][\A p \in Places :
          LET c == calls[p[1]][p[2]]
              d == calls'[p[1]][p[2]]
          IN There(c) /\ There(d) =>
             (c.af = "RISK" /\ d.num = c.num /\ d.type = c.type => d.af = "RISK")]_vars

\* The table, the queued lists and the refused calls implement CallMirror.
Mirror == INSTANCE CallMirror WITH
    Indexes <- Indexes,
    Shown <- [run: {Running(st) : st \in States}, type: Types],
    Ringing <- [run: {"RINGING"}, type: Types],
    Absent <- NoCall,
    shown <- [s \in Slots |-> [i \in Indexes |-> Look(calls[s][i])]],
    inbox <- LET at == Ascending({n \in DOMAIN queue : IsList(queue[n])}, Len(queue))
             IN [k \in DOMAIN at |-> [slot |-> queue[at[k]].slot,
                     calls |-> [i \in Indexes |-> Look(queue[at[k]].calls[i])]]],
    screened <- {x.place : x \in screened}

\* Between two lists the table changes one call at a time, only ever to what the
\* oldest unfinished list says, and HandleCallsReportInfo finishes no list before
\* the table agrees with it.
FollowsTheLists == Mirror!MirrorSpec
=============================================================================
