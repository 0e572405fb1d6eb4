--------------------------- MODULE DsdaArbitration ---------------------------
(***************************************************************************)
(* What happens to the other calls of a device with two SIM slots when the *)
(* user answers a call.  CallRequestProcess::AnswerRequest runs in an ffrt *)
(* task; where other calls are in the way it marks the ringing call (auto, *)
(* the call's autoAnswerState_), asks the modems to hold or end the others *)
(* and returns.  The ringing call is answered later, by the handler of the *)
(* HOLDING or DISCONNECTED report that makes room for it.  The same handler*)
(* resumes held calls.  Both sides read and write the flags of the calls   *)
(* without a common lock.                                                  *)
(*                                                                         *)
(* Calls are numbered in the order of the call manager's list.  The table's*)
(* part of the state and the requests sent are one record, k, which the    *)
(* operators map to what they leave behind.  The modems are external.      *)
(* There is no conference, no VoIP and no dial waiting for a hold (for     *)
(* that see DialPipeline).                                                 *)
(***************************************************************************)
EXTENDS Integers, Sequences, FiniteSets, FiniteSetsExt, Ascending

CONSTANTS
    Modes,     \* GetDsdsMode: "V2", "V3" (DSDS) or "V5" (DSDA and TDM)
    Kinds,     \* "voice", "video", or "crs": a voice call whose ringing is a video
    MaxCalls,  \* bound: how many calls there are in all
    MaxOps,    \* bound: how many requests the user makes
    MaxQueue,  \* bound: the modems do nothing by themselves while so many
               \* reports are queued
    Races      \* orders the environment may produce, a subset of
               \*   "hasty":    the user asks before the last request has settled, or
               \*               holds or resumes a call while another one rings
               \*   "crossing": a call comes in while a call is being answered or a
               \*               request is on its way to a modem
               \*   "connect":  a dialled call connects while a call is being answered
               \*   "quick":    the report of a hang-up is handled before the task that
               \*               asked for it has marked the call to answer
               \*   "crowd":    a call comes in while another rings, see Crowd

ASSUME ArbitrationAssumption ==
    /\ Modes \subseteq {"V2", "V3", "V5"} /\ Modes # {}
    /\ Kinds \subseteq {"voice", "video", "crs"} /\ Kinds # {}
    /\ MaxCalls \in Nat \ {0} /\ MaxOps \in Nat /\ MaxQueue \in Nat \ {0}
    /\ Races \subseteq {"hasty", "crossing", "connect", "quick", "crowd"}

Ids == 1..MaxCalls
MaxPerSlot == 2 \* a modem has an active and a held call, or one of them and a ringing one
Slots == {0, 1}

VARIABLES
    mode,     \* the device's mode, which does not change
    calls,    \* the table
    reqs,     \* per slot, the requests cellular_call has not carried out
    flag,     \* g_flagForDsda
    answer,   \* the task that runs AnswerRequest
    pending,  \* a report handler between its state update and AutoHandleForDsda
    reports,  \* the report queue
    modem,    \* the calls as the modems have them
    accepted, \* history: calls the user has answered
    used      \* how many calls and user requests there were; resume: history, the call
              \* (of at most two) that the user wants back, until something else happens

task == <<answer, accepted>>
vars == <<mode, calls, reqs, flag, answer, pending, reports, modem, accepted, used>>

NoCall == [st |-> "NONE"]
NoTask == [pc |-> "none"]
Nothing == [what |-> "none"]
RingingStates == {"INCOMING", "WAITING"}
States == {"DIALING", "ALERTING", "ACTIVE", "HOLDING", "DISCONNECTING"} \cup RingingStates

Calls == [st: States, slot: Slots, kind: Kinds \cup {"voice"},
          auto: BOOLEAN, canUnHold: BOOLEAN, canSwitch: BOOLEAN]
Requests == [op: {"answer", "hold", "unhold", "hangup", "hangupActive"}, call: Ids]
ModemCalls == [st: {"DIALING", "ALERTING", "RINGING", "ACTIVE", "HOLDING"}, slot: Slots]
Tasks == [pc: {"submitted", "accept", "arbitrate", "loop"}, call: Ids, slot: Slots,
          video: BOOLEAN, todo: Seq(Ids), waiting: 0..MaxCalls, active: 0..MaxCalls,
          held: BOOLEAN]
Reports == [call: Ids, st: States \cup {"DISCONNECTED"}, slot: Slots,
            kind: Kinds \cup {"voice"}]
Rooms == [what: {"room"}, slot: Slots, prior: States, canSwitch: BOOLEAN,
          video: BOOLEAN, active: 0..MaxCalls, waiting: 0..MaxCalls, ended: BOOLEAN]

\* Tasks, marks, requests and reports have their types; no call is kept after its end.
TypeOK ==
    /\ mode \in Modes
    /\ calls \in [Ids -> Calls \cup {NoCall}]
    /\ reqs \in [Slots -> Seq(Requests)]
    /\ flag \in BOOLEAN
    /\ answer \in Tasks \cup {NoTask}
    /\ pending \in Rooms \cup {Nothing}
    /\ reports \in Seq(Reports)
    /\ modem \in [Ids -> ModemCalls \cup {NoCall}]
    /\ accepted \subseteq Ids
    /\ used \in [calls: 0..MaxCalls, ops: 0..MaxOps, resume: 0..MaxCalls]

There(c) == c.st # "NONE"
Shows(st, mt) == mt = IF st \in RingingStates THEN "RINGING" ELSE st
Rings(c) == c.st \in RingingStates
First(S) == Min(S)
Listed(S) == Ascending(S, MaxCalls)
-----------------------------------------------------------------------------
(* The table and the requests *)

Desk == [calls |-> calls, reqs |-> reqs]
Become(k) == calls' = k.calls /\ reqs' = k.reqs

GetCarrierCallList(k) == {c \in Ids : There(k.calls[c])}
GetCallNum(k, st) == Cardinality({c \in Ids : k.calls[c].st = st})
GetCurrentCallNum(k) == Cardinality(GetCarrierCallList(k))

\* GetOneCallObject(CALL_RUNNING_STATE_HOLD), which searches from the end; 0 is none.
HoldCallOf(k) == Max({0} \cup {c \in Ids : k.calls[c].st = "HOLDING"})

IsExistCallOtherSlot(k, slot) ==
    /\ GetCurrentCallNum(k) > 1
    /\ \E c \in GetCarrierCallList(k) : k.calls[c].slot # slot

Send(k, op, c, slot) == [k EXCEPT !.reqs[slot] = Append(@, [op |-> op, call |-> c])]
HangUpCall(k, c) == Send(k, "hangup", c, k.calls[c].slot)
HoldCall(k, c) == Send(k, "hold", c, k.calls[c].slot)
UnHoldCall(k, c) == Send(k, "unhold", c, k.calls[c].slot)

\* AnswerCallBase refuses a call that does not ring (any more).
AnswerCall(k, c) ==
    IF Rings(k.calls[c]) THEN Send(k, "answer", c, k.calls[c].slot) ELSE k

SetAutoAnswerState(k, c, b) ==
    IF There(k.calls[c]) THEN [k EXCEPT !.calls[c].auto = b] ELSE k

\* Mutant: the call is answered but keeps its mark.
AnswerNowKeepsMark(k, c) == AnswerCall(k, c)

AnswerNow(k, c) == SetAutoAnswerState(AnswerCall(k, c), c, FALSE)

HangUpAll(k, S) ==
    [k EXCEPT !.reqs = [s \in Slots |->
        LET mine == Listed({c \in S : k.calls[c].slot = s})
        IN @[s] \o [i \in DOMAIN mine |-> [op |-> "hangup", call |-> mine[i]]]]]
-----------------------------------------------------------------------------
(* The task that runs AnswerRequest *)

Busy(k) == \E c \in Ids : k.calls[c].st \in {"DIALING", "ALERTING", "ACTIVE", "HOLDING"}

\* GetOneCarrierCallObject(ACTIVE or HOLD): the last such call, as a set.
LastOf(k, st) == LET cs == {c \in Ids : k.calls[c].st = st}
                 IN IF cs = {} THEN {} ELSE {Max(cs)}

NeedAnswerVTAndEndActiveVO(k, call, video) ==
    video /\ Busy(k) /\ call \notin LastOf(k, "ACTIVE") \cup LastOf(k, "HOLDING")

NeedAnswerVOAndEndActiveVT(k, call, video) ==
    /\ ~video
    /\ \E c \in (LastOf(k, "ACTIVE") \cup LastOf(k, "HOLDING")) \ {call} :
          k.calls[c].kind = "video"

DisconnectOtherCallForVideoCall(k, call) ==
    HangUpAll(k, {c \in Ids \ {call} :
                     k.calls[c].st \in {"DIALING", "ALERTING", "ACTIVE", "HOLDING"}})

DisconnectOtherSubIdCall(k, call, slot) ==
    LET others == {c \in GetCarrierCallList(k) : k.calls[c].slot # slot}
    IN IF others = {} THEN AnswerCall(k, call)
       ELSE HangUpAll(SetAutoAnswerState(k, call, TRUE), others)

GetOtherRingingCall(k, call) ==
    LET others == {c \in Ids \ {call} : Rings(k.calls[c])}
    IN IF others = {} THEN 0 ELSE First(others)

NoneSent == \A s \in Slots : reqs[s] = <<>>
Quiet == reports = <<>> /\ pending = Nothing /\ answer = NoTask /\ NoneSent
Ready == used.ops < MaxOps /\ (Quiet \/ "hasty" \in Races)

\* CallControlManager::AnswerCall: the policy admits a ringing call, which becomes a
\* voice or video call as the user answers it; the rest is the task's.
UserAnswers(c, video) ==
    /\ Ready /\ answer = NoTask
    /\ Rings(calls[c]) /\ (video => calls[c].kind = "video")
    /\ calls' = [calls EXCEPT ![c].kind = IF video THEN "video"
                                         ELSE IF @ = "crs" THEN @ ELSE "voice"]
    /\ answer' = [pc |-> "submitted", call |-> c, slot |-> calls[c].slot, video |-> video,
                  todo |-> <<>>, waiting |-> 0, active |-> 0, held |-> FALSE]
    /\ accepted' = accepted \cup {c}
    /\ used' = [used EXCEPT !.ops = @ + 1, !.resume = 0]
    /\ UNCHANGED <<mode, reqs, flag, pending, reports, modem>>

Goes(pc) == answer' = [answer EXCEPT !.pc = pc]
Ends == answer' = NoTask

\* AnswerRequest and AnswerRequestForDsda as far as the first mark or answer.
AnswerRequestForDsda ==
    LET c == answer.call
        ring == GetOtherRingingCall(Desk, c)
    IN /\ answer.pc = "submitted"
       /\ CASE ~There(calls[c]) -> Ends /\ UNCHANGED <<calls, reqs>>
            [] /\ There(calls[c])
               /\ \/ NeedAnswerVTAndEndActiveVO(Desk, c, answer.video)
                  \/ NeedAnswerVOAndEndActiveVT(Desk, c, answer.video)
               -> Become(DisconnectOtherCallForVideoCall(Desk, c)) /\ Goes("accept")
            [] OTHER ->
               \/ mode = "V2" /\ Become(AnswerCall(Desk, c)) /\ Ends
               \/ /\ mode = "V3"
                  /\ Become(DisconnectOtherSubIdCall(Desk, c, answer.slot)) /\ Ends
               \/ /\ mode = "V5" /\ ring # 0 /\ calls[ring].kind = "crs"
                  /\ Become(HangUpCall(Desk, ring)) /\ Goes("accept")
               \/ /\ mode = "V5" /\ ~(ring # 0 /\ calls[ring].kind = "crs")
                  /\ Become(SetAutoAnswerState(Desk, c, TRUE)) /\ Goes("arbitrate")
       /\ UNCHANGED <<mode, flag, pending, reports, modem, accepted, used>>

\* The mark that follows the hang-up requests.
AcceptLater ==
    /\ answer.pc = "accept"
    /\ Become(SetAutoAnswerState(Desk, answer.call, TRUE))
    /\ Ends
    /\ UNCHANGED <<mode, flag, pending, reports, modem, accepted, used>>

\* The head of HoldOrDisconnectedCall: nobody in the way, or the counts the loop uses.
HoldOrDisconnectedCall ==
    /\ answer.pc = "arbitrate"
    /\ IF IsExistCallOtherSlot(Desk, answer.slot) /\ There(calls[answer.call])
       THEN /\ answer' = [answer EXCEPT
                 !.pc = "loop", !.todo = Listed(GetCarrierCallList(Desk) \ {answer.call}),
                 !.waiting = GetCallNum(Desk, "WAITING"),
                 !.active = GetCallNum(Desk, "ACTIVE")]
            /\ UNCHANGED <<calls, reqs>>
       ELSE Become(AnswerNow(Desk, answer.call)) /\ Ends
    /\ UNCHANGED <<mode, flag, pending, reports, modem, accepted, used>>
-----------------------------------------------------------------------------
(* What the loop does with one other call, x.  w is what it knows: the call to *)
(* answer and its slot, the counts, flagForConference (held) and flag; the     *)
(* results are k, held and flag.                                               *)

Result(k, w) == [k |-> k, held |-> w.held, flag |-> w.flag]
Holding(k, x, w) == [k |-> HoldCall(k, x), held |-> TRUE, flag |-> w.flag]
Dials(k, x) == k.calls[x].st \in {"DIALING", "ALERTING"}
Free(k, x, w) == k.calls[x].st = "ACTIVE" /\ ~w.held
NoneDialled(k) == GetCallNum(k, "DIALING") = 0 /\ GetCallNum(k, "ALERTING") = 0

\* Mutant: an active call is not looked for.
OnlyHeldOrEndingAnyActive(k, x, w) ==
    k.calls[x].st \in {"DISCONNECTING", "HOLDING"} /\ NoneDialled(k)

\* HandleDsdaIncomingCall: nothing is in the way but a held or ending call.
OnlyHeldOrEnding(k, x, w) ==
    k.calls[x].st \in {"DISCONNECTING", "HOLDING"} /\ w.active = 0 /\ NoneDialled(k)

HandleDsdaIncomingCall(k, x, w) ==
    Result(IF k.calls[x].slot # w.slot THEN AnswerNow(k, w.call) ELSE k, w)

HandleCallWaitingNumZero(k, x, w) ==
    LET hold == HoldCallOf(k)
        ended == IF Dials(k, x) THEN HangUpCall(k, x)
                 ELSE IF w.active > 0 THEN HangUpCall(k, hold) ELSE k
    IN IF hold # 0
       THEN IF Free(k, x, w) THEN Holding(ended, x, w) ELSE Result(ended, w)
       ELSE IF Dials(k, x) THEN Result(HangUpCall(k, x), w)
       ELSE IF Free(k, x, w) THEN Holding(k, x, w)
       ELSE IF k.calls[w.call].st # "NONE" /\ k.calls[w.call].auto /\ Rings(k.calls[x])
       THEN Result(AnswerNow(k, w.call), w)
       ELSE Result(k, w)

HandleCallWaitingNumOneNext(k, x, w) ==
    LET hold == HoldCallOf(k)
        active == GetCallNum(k, "ACTIVE")
        drop == ~Dials(k, x) /\ active > 0
        ended == IF Dials(k, x) THEN HangUpCall(k, x)
                 ELSE IF drop THEN HangUpCall(k, hold) ELSE k
        v == [w EXCEPT !.flag = @ \/ drop]
    IN IF Free(k, x, w)
       THEN IF GetCallNum(k, "INCOMING") > 0 /\ k.calls[x].slot # w.slot
            THEN Result(HangUpCall(ended, x), v)
            ELSE Holding(ended, x, v)
       ELSE IF /\ active = 0 /\ NoneDialled(k)
               /\ k.calls[w.call].st # "NONE" /\ k.calls[w.call].auto
       THEN Result(AnswerNow(ended, w.call), v)
       ELSE Result(ended, v)

HandleCallWaitingNumOne(k, x, w) ==
    IF HoldCallOf(k) # 0 THEN HandleCallWaitingNumOneNext(k, x, w)
    ELSE IF GetCurrentCallNum(k) = 2 THEN HandleCallWaitingNumZero(k, x, w)
    ELSE IF ~Free(k, x, w) THEN Result(k, w)
    ELSE IF k.calls[x].slot # w.slot /\ w.flag THEN Holding(k, x, [w EXCEPT !.flag = FALSE])
    ELSE IF k.calls[x].slot # w.slot THEN Result(HangUpCall(k, x), w)
    ELSE Holding(k, x, w)

HandleCallWaitingNumTwo(k, x, w) ==
    LET hold == HoldCallOf(k)
        ended == IF hold # 0 THEN HangUpCall(k, hold) ELSE k
    IN IF GetCurrentCallNum(k) = 3 THEN HandleCallWaitingNumOne(k, x, w)
       ELSE IF ~Free(k, x, w) THEN Result(ended, w)
       ELSE IF k.calls[x].slot = w.slot THEN Holding(ended, x, w)
       ELSE Result(HangUpCall(ended, x), w)

ArbitrateOne(k, x, w) ==
    IF ~There(k.calls[x]) THEN Result(k, w)
    ELSE IF OnlyHeldOrEnding(k, x, w) THEN HandleDsdaIncomingCall(k, x, w)
    ELSE IF w.waiting > 1 \/ GetCurrentCallNum(k) = 4 THEN HandleCallWaitingNumTwo(k, x, w)
    ELSE IF w.waiting = 1 THEN HandleCallWaitingNumOne(k, x, w)
    ELSE HandleCallWaitingNumZero(k, x, w)

ArbitrationLoop ==
    /\ answer.pc = "loop"
    /\ IF answer.todo = <<>> THEN Ends /\ UNCHANGED <<calls, reqs, flag>>
       ELSE LET w == [call |-> answer.call, slot |-> answer.slot, active |-> answer.active,
                      waiting |-> answer.waiting, held |-> answer.held, flag |-> flag]
                n == ArbitrateOne(Desk, Head(answer.todo), w)
            IN /\ Become(n.k) /\ flag' = n.flag
               /\ answer' = [answer EXCEPT !.todo = Tail(@), !.held = n.held]
    /\ UNCHANGED <<mode, pending, reports, modem, accepted, used>>
-----------------------------------------------------------------------------
(* The report queue *)

\* HandleDsdaInfo, after each report of a call of the slot: with three calls the held
\* one is not to be resumed.
HandleDsdaInfo(k, slot) ==
    LET hold == HoldCallOf(k)
    IN IF /\ mode = "V5" /\ IsExistCallOtherSlot(k, slot)
          /\ hold # 0 /\ GetCurrentCallNum(k) > 2
       THEN [k EXCEPT !.calls[hold].canUnHold = FALSE] ELSE k

\* Mutant: the end of a call of the same slot is taken for a hold.
AutoAnswerForVoiceCallOtherSlot(k, c, p) ==
    IF p.slot # k.calls[c].slot THEN AnswerNow(k, c) ELSE SetAutoAnswerState(k, c, FALSE)

\* The call is answered, unless it is on the slot of a call that was held: the modem
\* has then accepted it with the hold.
AutoAnswerForVoiceCall(k, c, p) ==
    IF p.ended \/ p.slot # k.calls[c].slot THEN AnswerNow(k, c)
    ELSE SetAutoAnswerState(k, c, FALSE)

\* AutoAnswer and AutoAnswerForVideoCall.
AutoAnswer(k, active, waiting) ==
    LET marked == {c \in Ids : Rings(k.calls[c]) /\ k.calls[c].auto}
    IN IF /\ active = 0 /\ waiting = 0 /\ marked # {}
          /\ GetCallNum(k, "HOLDING") = 0 /\ NoneDialled(k)
       THEN AnswerNow(k, First(marked)) ELSE k

\* Mutant: a held call is resumed after a hang-up only.
AutoUnHoldForDsdaNoSwap(k, p) ==
    LET held == {c \in Ids : /\ k.calls[c].st = "HOLDING" /\ k.calls[c].slot # p.slot
                             /\ k.calls[c].canUnHold /\ p.active = 0}
    IN IF held # {} /\ p.prior = "DISCONNECTING" THEN UnHoldCall(k, First(held)) ELSE k

\* A held call of the other slot is resumed when the user ended a call or is swapping
\* two calls; failing that, a held call that is one of two may be resumed again.
AutoUnHoldForDsda(k, p) ==
    LET two == GetCurrentCallNum(k) = 2
        resumable ==
          {c \in Ids : /\ k.calls[c].st = "HOLDING" /\ k.calls[c].slot # p.slot
                       /\ k.calls[c].canUnHold
                       /\ p.active = 0 /\ GetCallNum(k, "WAITING") = 0
                       /\ GetCallNum(k, "DIALING") = 0
                       /\ p.prior = "DISCONNECTING" \/ (~p.canSwitch /\ two)}
    IN IF resumable # {} THEN UnHoldCall(k, First(resumable))
       ELSE [k EXCEPT !.calls = [c \in Ids |->
                IF two /\ @[c].st = "HOLDING" THEN [@[c] EXCEPT !.canUnHold = TRUE] ELSE @[c]]]

AutoHandleForDsda(k, p) ==
    LET room == p.active = 0 /\ NoneDialled(k)
        marked == {c \in GetCarrierCallList(k) :
                      k.calls[c].auto /\ (k.calls[c].kind = "video" \/ (room /\ Rings(k.calls[c])))}
        c == First(marked)
    IN AutoUnHoldForDsda(
         IF marked = {} THEN k
         ELSE IF k.calls[c].kind = "video" THEN AutoAnswer(k, p.active, 0)
         ELSE AutoAnswerForVoiceCall(k, c, p), p)

\* AutoAnswerVideoCallForNotDsda, or AutoAnswer in mode V3.
AutoHandleForDsds(k, p) ==
    LET marked == {c \in GetCarrierCallList(k) : k.calls[c].auto}
    IN IF \E c \in marked : p.video \/ k.calls[c].kind = "video"
       THEN AutoAnswer(k, p.active, 0)
       ELSE IF mode = "V3" THEN AutoAnswer(k, p.active, p.waiting) ELSE k

\* IsCanUnHold with the first part of HandleHoldCallOrAutoAnswerCall: a call the user
\* ended gives way to a held one of its slot.
RecoverHeldCall(k, c, prior) ==
    LET hold == HoldCallOf(k)
    IN IF /\ prior = "DISCONNECTING" /\ hold # 0
          /\ \A st \in {"ACTIVE", "WAITING", "INCOMING", "ALERTING"} : GetCallNum(k, st) = 0
          /\ k.calls[hold].canUnHold /\ k.calls[hold].slot = k.calls[c].slot
       THEN UnHoldCall(k, hold) ELSE k

SetState(k, c, st) == [k EXCEPT !.calls[c].st = st]

\* Mutant: with a held call only that call is written.
ActiveHandleHeldOnly(k, c) ==
    LET hold == HoldCallOf(k)
    IN IF hold = 0 THEN SetState(k, c, "ACTIVE") ELSE [k EXCEPT !.calls[hold].canSwitch = TRUE]

ActiveHandle(k, c) ==
    LET hold == HoldCallOf(SetState(k, c, "ACTIVE"))
    IN IF hold = 0 THEN SetState(k, c, "ACTIVE")
       ELSE [SetState(k, c, "ACTIVE") EXCEPT !.calls[hold].canSwitch = TRUE]

NewCall(r) == [st |-> r.st, slot |-> r.slot, kind |-> r.kind,
               auto |-> FALSE, canUnHold |-> TRUE, canSwitch |-> TRUE]

Room(k, c, ended) ==
    [what |-> "room", slot |-> calls[c].slot, prior |-> calls[c].st,
     canSwitch |-> calls[c].canSwitch, video |-> calls[c].kind = "video",
     active |-> GetCallNum(k, "ACTIVE"), waiting |-> GetCallNum(k, "WAITING"), ended |-> ended]

\* A report that makes no room for anyone.
HandlePlainReport(r) ==
    /\ CASE r.st \in RingingStates \cup {"DIALING"} ->
                Become(HandleDsdaInfo([Desk EXCEPT !.calls[r.call] = NewCall(r)], r.slot))
         [] r.st = "ACTIVE" -> Become(HandleDsdaInfo(ActiveHandle(Desk, r.call), r.slot))
         [] r.st = "ALERTING" /\ calls[r.call].st = "DISCONNECTING" ->
                Become(HandleDsdaInfo(Desk, r.slot))
         [] OTHER -> Become(HandleDsdaInfo(SetState(Desk, r.call, r.st), r.slot))
    /\ UNCHANGED pending

\* UpdateCallStateAndHandleDsdsMode as far as the count of active calls.
HoldingHandle(r) ==
    LET k == SetState(Desk, r.call, "HOLDING")
    IN IF mode = "V5" THEN Become(k) /\ pending' = Room(k, r.call, FALSE)
       ELSE Become(HandleDsdaInfo(k, r.slot)) /\ UNCHANGED pending

\* Mutant: the call is not deleted.
DisconnectedHandleKeeps(r) ==
    LET k == SetState(Desk, r.call, "DISCONNECTED")
    IN Become(k) /\ pending' = Room(k, r.call, TRUE)

\* DisconnectedHandle as far as the deletion.
DisconnectedHandle(r) ==
    LET k == SetState(Desk, r.call, "DISCONNECTED")
        n == RecoverHeldCall(k, r.call, calls[r.call].st)
    IN /\ Become([n EXCEPT !.calls[r.call] = NoCall])
       /\ pending' = Room(k, r.call, TRUE)

HandleCallReportInfo ==
    /\ reports # <<>> /\ pending = Nothing
    /\ LET r == Head(reports)
       IN \/ r.st = "HOLDING" /\ HoldingHandle(r)
          \/ r.st = "DISCONNECTED" /\ DisconnectedHandle(r)
          \/ r.st \notin {"HOLDING", "DISCONNECTED"} /\ HandlePlainReport(r)
    /\ reports' = Tail(reports)
    /\ UNCHANGED <<mode, flag, task, modem, used>>

\* The rest of the handler, with the counts its first half took.
HandleRoom ==
    /\ pending # Nothing
    /\ answer.pc # "accept" \/ "quick" \in Races
    /\ Become(HandleDsdaInfo(IF mode = "V5" THEN AutoHandleForDsda(Desk, pending)
                             ELSE AutoHandleForDsds(Desk, pending), pending.slot))
    /\ pending' = Nothing
    /\ UNCHANGED <<mode, flag, task, reports, modem, used>>
-----------------------------------------------------------------------------
(* The user's other requests *)

\* resume is the call the user wants to speak to, if any.
Asks(resume) == Ready /\ used' = [used EXCEPT !.ops = @ + 1, !.resume = resume]

RejectRequest(c) ==
    LET hold == HoldCallOf(Desk)
        k == HangUpCall(Desk, c)
    IN /\ Asks(0) /\ Rings(calls[c])
       /\ Become(IF hold = 0 THEN k ELSE [k EXCEPT !.calls[hold].canUnHold = FALSE])
       /\ UNCHANGED <<mode, flag, task, pending, reports, modem>>

\* Without a call on the other slot the modem is told to resume the held call itself.
HangUpRequest(c) ==
    LET swap == /\ calls[c].st = "ACTIVE"
                /\ GetCallNum(Desk, "HOLDING") > 0 /\ GetCallNum(Desk, "WAITING") = 0
                /\ ~(mode = "V5" /\ IsExistCallOtherSlot(Desk, calls[c].slot))
    IN /\ Asks(0) /\ There(calls[c]) /\ calls[c].st # "DISCONNECTING"
       /\ Become(Send(Desk, IF swap THEN "hangupActive" ELSE "hangup", c, calls[c].slot))
       /\ UNCHANGED <<mode, flag, task, pending, reports, modem>>

NoNewCall == (\A c \in Ids : calls[c].st \in {"NONE", "ACTIVE", "HOLDING"}) \/ "hasty" \in Races

HoldRequest(c) ==
    /\ NoNewCall /\ Asks(0) /\ calls[c].st = "ACTIVE"
    /\ Become(HoldCall(Desk, c))
    /\ UNCHANGED <<mode, flag, task, pending, reports, modem>>

\* With a call on the other slot only the first half of a swap is asked for here: the
\* active call is held, and AutoUnHoldForDsda resumes the other one.
UnHoldRequest(c) ==
    LET k == [Desk EXCEPT !.calls[c].canUnHold = TRUE]
        other == IsExistCallOtherSlot(k, k.calls[c].slot)
        active == {x \in Ids : k.calls[x].st = "ACTIVE"}
        x == First(active)
        swap == mode = "V5" /\ other /\ active # {} /\ k.calls[x].canSwitch
    IN /\ NoNewCall /\ calls[c].st = "HOLDING"
       /\ Asks(IF (swap \/ ~other) /\ GetCurrentCallNum(k) < 3 THEN c ELSE 0)
       /\ Become(IF swap THEN HoldCall([k EXCEPT !.calls[x].canSwitch = FALSE], x)
                 ELSE IF other THEN k ELSE UnHoldCall(k, c))
       /\ UNCHANGED <<mode, flag, task, pending, reports, modem>>
-----------------------------------------------------------------------------
(* The modems *)

OnSlot(s) == {c \in Ids : There(modem[c]) /\ modem[c].slot = s}
With(s, st) == {c \in OnSlot(s) : modem[c].st = st}

Says(c, st) == [call |-> c, st |-> st, slot |-> modem[c].slot, kind |-> "voice"]
SayAll(S, st) == LET l == Listed(S) IN [i \in DOMAIN l |-> Says(l[i], st)]

\* The calls of a become st, those of b become tt, as the two lists of reports say.
Moves(a, st, b, tt) ==
    /\ modem' = [c \in Ids |-> IF c \in a THEN [modem[c] EXCEPT !.st = st]
                               ELSE IF c \in b THEN [modem[c] EXCEPT !.st = tt] ELSE modem[c]]
    /\ reports' = reports \o SayAll(a, st) \o SayAll(b, tt)

\* What the radios can do: in mode V2 the other slot is out of service while one has a
\* call; in V3 it still hears a call come in.
InService(s, incoming) ==
    mode = "V5" \/ OnSlot(1 - s) = {} \/ (mode = "V3" /\ incoming)

\* Whom a hold or the end of the active call lets speak: a ringing call, or a held one.
NextSpeaker(s) == IF With(s, "RINGING") # {} THEN With(s, "RINGING") ELSE With(s, "HOLDING")

CarryOut(s, q) ==
    LET c == q.call
        st == modem[c].st
    IN CASE q.op = "answer" /\ st = "RINGING" -> Moves(With(s, "ACTIVE"), "HOLDING", {c}, "ACTIVE")
         [] q.op = "unhold" /\ st = "HOLDING" -> Moves(With(s, "ACTIVE"), "HOLDING", {c}, "ACTIVE")
         [] q.op = "hold" /\ st = "ACTIVE" -> Moves({c}, "HOLDING", NextSpeaker(s), "ACTIVE")
         [] q.op \in {"hangup", "hangupActive"} /\ st # "NONE" ->
              LET next == IF q.op = "hangupActive" /\ st = "ACTIVE" THEN NextSpeaker(s) ELSE {}
              IN /\ modem' = [x \in Ids |-> IF x = c THEN NoCall
                                 ELSE IF x \in next THEN [modem[x] EXCEPT !.st = "ACTIVE"]
                                 ELSE modem[x]]
                 /\ reports' = reports \o <<Says(c, "DISCONNECTING"), Says(c, "DISCONNECTED")>>
                                 \o SayAll(next, "ACTIVE")
         [] OTHER -> UNCHANGED <<modem, reports>>

ModemObeys(s) ==
    /\ reqs[s] # <<>>
    /\ CarryOut(s, Head(reqs[s]))
    /\ reqs' = [reqs EXCEPT ![s] = Tail(@)]
    /\ UNCHANGED <<mode, calls, flag, task, pending, used>>

\* A call comes in while another one rings, in mode V3 or, with a third call that does
\* not ring, where one of the two is a CRS call.
Crowd(kind) ==
    /\ \E c \in Ids : modem[c].st = "RINGING"
    /\ \/ mode = "V3"
       \/ /\ \/ kind = "crs" \/ \E i \in DOMAIN reports : reports[i].kind = "crs"
             \/ \E c \in Ids : Rings(calls[c]) /\ calls[c].kind = "crs"
          /\ \E c \in Ids : modem[c].st \notin {"NONE", "RINGING"}

ModemRings(s) ==
    /\ used.calls < MaxCalls /\ Len(reports) < MaxQueue
    /\ (answer = NoTask /\ NoneSent) \/ "crossing" \in Races
    /\ InService(s, TRUE)
    /\ OnSlot(s) = With(s, "ACTIVE") \cup With(s, "HOLDING") /\ Cardinality(OnSlot(s)) < MaxPerSlot
    /\ LET c == used.calls + 1
       IN \E kind \in Kinds :
            /\ ~Crowd(kind) \/ "crowd" \in Races
            /\ modem' = [modem EXCEPT ![c] = [st |-> "RINGING", slot |-> s]]
            /\ reports' = Append(reports, [call |-> c, slot |-> s, kind |-> kind,
                   st |-> IF OnSlot(s) = {} THEN "INCOMING" ELSE "WAITING"])
    /\ used' = [used EXCEPT !.calls = @ + 1, !.resume = 0]
    /\ UNCHANGED <<mode, calls, reqs, flag, task, pending>>

RemoteAnswers(c) ==
    /\ Len(reports) < MaxQueue
    /\ \/ modem[c].st = "DIALING" /\ Moves({c}, "ALERTING", {}, "ALERTING")
       \/ /\ modem[c].st = "ALERTING"
          /\ answer = NoTask \/ "connect" \in Races
          /\ Moves({c}, "ACTIVE", {}, "ACTIVE")
    /\ UNCHANGED <<mode, calls, reqs, flag, task, pending, used>>

RemoteEnds(c) ==
    /\ There(modem[c]) /\ Len(reports) < MaxQueue
    /\ modem' = [modem EXCEPT ![c] = NoCall]
    /\ reports' = Append(reports, Says(c, "DISCONNECTED"))
    /\ used' = [used EXCEPT !.resume = 0]
    /\ UNCHANGED <<mode, calls, reqs, flag, task, pending>>

\* A dial; its way to the modem is DialPipeline's.
UserDials(s) ==
    /\ Ready /\ used.calls < MaxCalls /\ InService(s, FALSE)
    /\ GetCurrentCallNum(Desk) < 2
    /\ \A c \in Ids : calls[c].st \in {"NONE", "HOLDING"}
    /\ LET c == used.calls + 1
       IN /\ modem' = [modem EXCEPT ![c] = [st |-> "DIALING", slot |-> s]]
          /\ reports' = Append(reports, [call |-> c, slot |-> s, kind |-> "voice", st |-> "DIALING"])
    /\ used' = [calls |-> used.calls + 1, ops |-> used.ops + 1, resume |-> 0]
    /\ UNCHANGED <<mode, calls, reqs, flag, task, pending>>
-----------------------------------------------------------------------------
Init ==
    /\ mode \in Modes
    /\ calls = [c \in Ids |-> NoCall] /\ modem = [c \in Ids |-> NoCall]
    /\ reqs = [s \in Slots |-> <<>>] /\ reports = <<>>
    /\ flag = FALSE /\ answer = NoTask /\ pending = Nothing
    /\ accepted = {} /\ used = [calls |-> 0, ops |-> 0, resume |-> 0]

Answering == \/ AnswerRequestForDsda \/ AcceptLater
             \/ HoldOrDisconnectedCall \/ ArbitrationLoop
ReportQueue == HandleCallReportInfo \/ HandleRoom
User == \/ \E c \in Ids : \/ \E video \in BOOLEAN : UserAnswers(c, video)
                           \/ RejectRequest(c) \/ HangUpRequest(c)
                           \/ HoldRequest(c) \/ UnHoldRequest(c)
        \/ \E s \in Slots : UserDials(s)
Modem == \/ \E s \in Slots : ModemObeys(s) \/ ModemRings(s)
         \/ \E c \in Ids : RemoteAnswers(c) \/ RemoteEnds(c)

Next == Answering \/ ReportQueue \/ User \/ Modem

Spec == Init /\ [][Next]_vars
-----------------------------------------------------------------------------
(* Properties *)

\* Whenever all reports are handled the table shows every call as the modem has it:
\* no handler leaves a state behind, keeps a call that ended or loses one that lives.
TableShowsModems == reports = <<>> => \A c \in Ids : Shows(calls[c].st, modem[c].st)

\* A call the user has answered is not left ringing: once all reports are handled and
\* all requests carried out, it is connected or gone.  AnswerRequestForDsda returns
\* before the call is answered and leaves that to whichever report makes room.
AcceptedIsConnected == Quiet => \A c \in accepted : modem[c].st # "RINGING"

\* Two parties are never connected at the same time: the arbitration holds or ends one
\* before the other is answered or resumed, whatever reports come in between.
OneVoice == Cardinality({c \in Ids : modem[c].st = "ACTIVE"}) <= 1

\* The user's request to resume one of at most two calls is granted: UnHoldRequest only
\* holds the active call of the other slot, and AutoUnHoldForDsda does the rest when the
\* HOLDING report comes.
SwapCompletes == Quiet /\ used.resume # 0 => modem[used.resume].st # "HOLDING"

\* No mark outlives the request it was made for: a call left with autoAnswerState_ would
\* be answered by a later report that has nothing to do with it.
MarksAreSpent == Quiet => \A c \in GetCarrierCallList(Desk) : ~calls[c].auto
=============================================================================
