------------------------------ MODULE AntiFraud ------------------------------
(***************************************************************************)
(* Fraud detection on an active call: at most one call is being listened   *)
(* to, and CallStatusManager remembers which by slot and index in          *)
(* antiFraudSlotId_ and antiFraudIndex_.  The anti-fraud service (AFS)     *)
(* behind AntiFraudAdapter is external; it is started from an ffrt task    *)
(* and answers on threads of its own.                                      *)
(*                                                                         *)
(* Call handlers and AFS callbacks change the same fields, so both map a   *)
(* record m of the call manager's state to the state they leave behind.    *)
(* m.calls[s][i] is the call of slot s with index i; its verdict is af.    *)
(***************************************************************************)
EXTENDS Integers, Sequences, FiniteSets

CONSTANT
    StopAnswers  \* what stopping the AFS may do, a subset of
                 \*   "answers": it still reports the detection it was running
                 \*   "silent":  it does not
                 \*   "fails":   it returns an error and goes on listening

ASSUME AntiFraudAssumption ==
    StopAnswers \subseteq {"answers", "silent", "fails"} /\ StopAnswers # {}

NoCall == [st |-> "NONE"]
NoPlace == <<>>  \* slot id and index -1
NoTrigger == [state |-> "NONE"]  \* nobody is inside TriggerAntiFraud

\* AntiFraudState; "STOPPED" is ANTIFRAUD_STATE_NOT_RISK_OR_STOPPED.
AfStates == {"DEFAULT", "STARTED", "RISK", "STOPPED"}
Verdicts == {"RISK", "STOPPED"}

\* Detection's part of the state: the latch, AntiFraudService's stopped marker, the
\* submitted start tasks, the trigger in progress (fraudMutex_ admits one), and the
\* threads that have found a call ACTIVE and are about to set it ACTIVE; of AFS, the
\* place it listens to and the reports still to come of stopped detections; and, as
\* history, whether the running detection was abandoned: its latch was freed by
\* another detection's verdict or before AFS had started it, or AFS refused to stop.
AfInit == [latch |-> NoPlace, stopped |-> NoPlace, tasks |-> {}, trig |-> NoTrigger,
           updates |-> {}, det |-> NoPlace, late |-> {}, abandoned |-> FALSE]

CallAt(m, place) == m.calls[place[1]][place[2]]
SetAf(m, place, state) == [m EXCEPT !.calls[place[1]][place[2]].af = state]

\* AntiFraudService::StopAntiFraudService, with AFS's answer.
StopAntiFraudService(m, place, answer) ==
    IF answer = "fails" THEN [m EXCEPT !.af.abandoned = m.af.det # NoPlace]
    ELSE [m EXCEPT !.af.stopped = place,
                   !.af.det = NoPlace,
                   !.af.abandoned = FALSE,
                   !.af.late = IF answer = "answers" /\ m.af.det # NoPlace
                               THEN @ \cup {m.af.det} ELSE @]

\* Mutant: the running detection is left alone.
StopAntiFraudDetectForgets(m, place, answer) == m

\* Mutant: the latch is freed but the service goes on.
StopAntiFraudDetectLatchOnly(m, place, answer) ==
    IF m.af.latch # place THEN m ELSE SetAf([m EXCEPT !.af.latch = NoPlace], place, "STOPPED")

\* The call at place is ending, its detection could not start, or (HandleCeliaCall)
\* an assistant has taken it over.
StopAntiFraudDetect(m, place, answer) ==
    IF m.af.latch # place THEN m
    ELSE SetAf([StopAntiFraudService(m, place, answer) EXCEPT !.af.latch = NoPlace],
               place, "STOPPED")

\* The call is held: it may be listened to again, so only what is shown of it
\* (extraParams) changes and the call's own state stays.
PauseAntiFraudDetect(m, place, answer) ==
    IF m.af.latch # place THEN m
    ELSE [StopAntiFraudService(m, place, answer) EXCEPT !.af.latch = NoPlace]

\* A thread's hold on the call object at place.
Held(m, place) == [place |-> place, num |-> CallAt(m, place).num, type |-> CallAt(m, place).type]

\* The object o is still in the table: neither removed nor replaced by another.
StillThere(m, o) ==
    LET c == CallAt(m, o.place)
    IN c.st # "NONE" /\ c.num = o.num /\ c.type = o.type

StartTask(m, place) == [pc |-> "submitted", call |-> Held(m, place)]

\* Mutant: a call that has its verdict is listened to again.
SetupAntiFraudServiceAgain(m, place) ==
    IF m.af.latch # NoPlace THEN m
    ELSE [m EXCEPT !.af.latch = place,
                   !.af.tasks = @ \cup {StartTask(m, place)}]

\* SetupAntiFraudService and StartAntiFraudDetectTask, for a call the switches and
\* the caller's number leave to detect: claim the latch, submit the start.
SetupAntiFraudService(m, place) ==
    IF CallAt(m, place).af \in Verdicts \/ m.af.latch # NoPlace THEN m
    ELSE [m EXCEPT !.af.latch = place,
                   !.af.tasks = @ \cup {StartTask(m, place)}]

\* The first half of TriggerAntiFraud: who is listened to now; the call is looked
\* up if the last finished list had it.
TriggerAntiFraud(m, state) ==
    LET place == m.af.latch
        there == /\ m.details[place[1]][place[2]].st # "NONE"
                 /\ CallAt(m, place).st # "NONE"
    IN IF place = NoPlace THEN m
       ELSE [m EXCEPT !.af.trig = [state |-> state,
                                   found |-> IF there THEN Held(m, place) ELSE NoCall]]

\* What TriggerAntiFraud and HandleCeliaCall do last, on the thread named by: a call
\* found ACTIVE is set ACTIVE, to have it reported once more.  Nothing changes unless
\* the write comes late, after another thread has changed the call.
SetActiveAgain(m, o, by, late) ==
    IF late /\ StillThere(m, o) /\ CallAt(m, o.place).st = "ACTIVE"
    THEN [m EXCEPT !.af.updates = @ \cup {[by |-> by, call |-> o]}]
    ELSE m

\* Mutant: the call is looked up once more by its index.
UpdateActiveCallByIndex(m, u) ==
    LET done == [m EXCEPT !.af.updates = @ \ {u}]
    IN IF CallAt(m, u.call.place).st = "NONE" THEN done
       ELSE [done EXCEPT !.calls[u.call.place[1]][u.call.place[2]].st = "ACTIVE"]

\* The late write: it revives a held or a disconnecting call.  An object that is no
\* longer in the table is of no consequence to it.
UpdateActiveCall(m, u) ==
    LET done == [m EXCEPT !.af.updates = @ \ {u}]
    IN IF StillThere(m, u.call)
       THEN [done EXCEPT !.calls[u.call.place[1]][u.call.place[2]].st = "ACTIVE"]
       ELSE done

\* The second half: a verdict frees the latch, whoever has it by now, and the call
\* that was found is told.
FinishTrigger(m, late) ==
    LET t == m.af.trig
        freed == [m EXCEPT !.af.trig = NoTrigger,
                           !.af.latch = IF t.state \in Verdicts THEN NoPlace ELSE @,
                           !.af.abandoned = @ \/ (t.state \in Verdicts /\ m.af.det # NoPlace)]
    IN IF t.found # NoCall /\ StillThere(m, t.found)
       THEN SetActiveAgain(SetAf(freed, t.found.place, t.state), t.found, "trigger", late)
       ELSE freed

\* AFS reports on the detection started for place.
RecordDetectResult(m, place, state) ==
    IF m.af.stopped = place THEN [m EXCEPT !.af.stopped = NoPlace]
    ELSE TriggerAntiFraud(m, state)

\* HandleCeliaCall: an assistant takes over the call the latch names.
TakeOver(m, place, answer, late) ==
    SetActiveAgain(StopAntiFraudDetect(m, place, answer), Held(m, place), "celia", late)

\* A start that failed: the task's weak pointer is promoted if it can be.
GiveUpStart(m, t, answer) ==
    IF StillThere(m, t.call) THEN StopAntiFraudDetect(m, t.call.place, answer) ELSE m

\* The submitted task runs: AFS is asked (ok is its answer) and the latch is read.
StartAntiFraudService(m, t, ok, answer) ==
    LET begun == [m EXCEPT !.af.tasks = @ \ {t}]
    IN IF ok /\ m.af.latch = t.call.place
       THEN [begun EXCEPT !.af.tasks = @ \cup {[t EXCEPT !.pc = "checked"]}]
       ELSE GiveUpStart(begun, t, answer)

\* The same task, whatever became of the latch, starts AFS; ok is whether AFS agrees.
AntiFraudStartDetect(m, t, ok, answer) ==
    LET begun == [m EXCEPT !.af.tasks = @ \ {t}]
    IN IF ok THEN [begun EXCEPT !.af.det = t.call.place,
                                !.af.abandoned = m.af.latch # t.call.place,
                                !.af.tasks = @ \cup {[t EXCEPT !.pc = "started"]}]
       ELSE GiveUpStart(begun, t, answer)

\* The same task once it has fraudMutex_: it announces the start.
AnnounceStart(m, t) == TriggerAntiFraud([m EXCEPT !.af.tasks = @ \ {t}], "STARTED")
=============================================================================
