----------------------------- MODULE AudioScene ------------------------------
(***************************************************************************)
(* What the phone sounds like while calls come and go: CallStateProcessor  *)
(* keeps the sets of calls by state, AudioControlManager translates call   *)
(* notifications into audio events and owns the ringtone, the tones, the   *)
(* sound stream and the microphone, and AudioSceneProcessor drives the     *)
(* scene (audio_state/ *.cpp) from a serial queue of its own.              *)
(*                                                                         *)
(* The notifier is the thread that reports a state change, or a client's   *)
(* thread inside AnswerCall; CallStateListener's mutex admits one at a     *)
(* time.  It takes two steps, HandleNextState and HandlePriorState, and    *)
(* the audio queue runs between them: the sets an event meets are not the  *)
(* sets it was raised for.                                                 *)
(*                                                                         *)
(* Three threads ring: the notifier, the audio queue and a retry task.     *)
(* Each decides, starts the player and looks for a note that the call is   *)
(* to be muted, in separate steps; MuteRinger tests the ringer in one step *)
(* and leaves the note in another.  ringMutex_ covers only some of them.   *)
(*                                                                         *)
(* Carrier calls without network ringtone (CRS) or video ring; ringer mode *)
(* normal, nothing played by VoIP.                                         *)
(***************************************************************************)
EXTENDS Integers, Sequences, FiniteSets, FiniteSetsExt

CONSTANTS
    NCalls,    \* how many calls there are, each lives once
    ImsCalls,  \* those of type IMS; the others are CS
    MaxQueue,  \* bound: notifications wait while so many audio events do
    MaxAnswers \* bound: how many threads are inside AnswerCall at once

Calls == 1..NCalls

ASSUME AudioAssumption ==
    /\ NCalls \in Nat \ {0} /\ ImsCalls \subseteq Calls
    /\ MaxQueue \in Nat \ {0} /\ MaxAnswers \in Nat \ {0}

NoCall == 0

VARIABLES
    calls,      \* per call: TelCallState and answeredByPhone_
    sets,       \* CallStateProcessor's five sets of call ids
    notify,     \* the CallStateUpdated in progress
    answering,  \* calls that threads inside AnswerCall have picked
    scene,      \* AudioSceneProcessor::currentState_
    queue,      \* reportAudioStateChangeQueue
    out,        \* ringState_, toneState_, soundState_ and what goes with them
    odd         \* history: which of the orders below have happened

vars == <<calls, sets, notify, answering, scene, queue, out, odd>>

\* "overlap": two calls were active at once; "stale": AnswerCall's thread
\* notified for a call that no longer rang; "late": the retry task rang although
\* the only call left ringing had been answered; "behind": a call changed while
\* two or more audio events were still queued; "crossed": the note that an answered
\* call is to be muted was left for a ringer that had begun to ring meanwhile.
Odd == {"overlap", "stale", "late", "behind", "crossed"}

Groups == {"dialing", "alerting", "incoming", "active", "holding"}
Scenes == {"INACTIVE", "DIALING", "ALERTING", "INCOMING", "CS", "IMS", "HOLDING"}
TelStates == {"NONE", "DIALING", "ALERTING", "INCOMING", "WAITING", "ACTIVE",
              "HOLDING", "DISCONNECTING", "DISCONNECTED"}
EndStates == {"DISCONNECTING", "DISCONNECTED"}
NewEvents == {"NEW_DIALING", "NEW_ALERTING", "NEW_INCOMING", "NEW_CS", "NEW_IMS"}
NoMoreEvents == {"NO_MORE_DIALING", "NO_MORE_ALERTING", "NO_MORE_INCOMING",
                 "NO_MORE_ACTIVE", "NO_MORE_HOLDING"}
\* memberFuncMap_: the scene each SWITCH event leads to.
SceneOf == [SWITCH_INACTIVE |-> "INACTIVE", SWITCH_DIALING |-> "DIALING",
            SWITCH_ALERTING |-> "ALERTING", SWITCH_INCOMING |-> "INCOMING",
            SWITCH_CS |-> "CS", SWITCH_IMS |-> "IMS", SWITCH_HOLDING |-> "HOLDING"]
Events == NewEvents \cup NoMoreEvents \cup DOMAIN SceneOf
-----------------------------------------------------------------------------
(* CallStateProcessor *)

GroupOf == [DIALING  |-> "dialing",  ALERTING |-> "alerting",
            INCOMING |-> "incoming", WAITING  |-> "incoming",
            ACTIVE   |-> "active",   ANSWERED |-> "active",
            HOLDING  |-> "holding"]

AddCall(s, c, tel) ==
    IF tel \in DOMAIN GroupOf THEN [s EXCEPT ![GroupOf[tel]] = @ \cup {c}] ELSE s

\* DeleteCall has no case for ANSWERED.
DeleteCallNotWaiting(s, c, tel) ==
    IF tel \in DOMAIN GroupOf \ {"ANSWERED", "WAITING"}
    THEN [s EXCEPT ![GroupOf[tel]] = @ \ {c}] ELSE s
DeleteCall(s, c, tel) ==
    IF tel \in DOMAIN GroupOf \ {"ANSWERED"}
    THEN [s EXCEPT ![GroupOf[tel]] = @ \ {c}] ELSE s

Empty(s, gs) == \A g \in gs : s[g] = {}

ShouldSwitchState(s, g) ==
    /\ Cardinality(s[g]) = 1
    /\ g # "active" => Empty(s, {"active", "incoming", "dialing", "alerting"} \ {g})

\* UpdateCurrentCallState: the event it queues, if any.
UpdateCurrentCallStateHeldFirst(s) ==
    IF s["holding"] # {} THEN <<"SWITCH_HOLDING">>
    ELSE IF s["active"] # {} THEN <<>>
    ELSE IF s["incoming"] # {} THEN <<"SWITCH_INCOMING">>
    ELSE IF s["dialing"] # {} THEN <<"SWITCH_DIALING">>
    ELSE IF s["alerting"] # {} THEN <<"SWITCH_ALERTING">>
    ELSE <<"SWITCH_INACTIVE">>
UpdateCurrentCallState(s) ==
    IF s["active"] # {} THEN <<>>
    ELSE IF s["holding"] # {} THEN <<"SWITCH_HOLDING">>
    ELSE IF s["incoming"] # {} THEN <<"SWITCH_INCOMING">>
    ELSE IF s["dialing"] # {} THEN <<"SWITCH_DIALING">>
    ELSE IF s["alerting"] # {} THEN <<"SWITCH_ALERTING">>
    ELSE <<"SWITCH_INACTIVE">>

ShouldStopSoundtone(s) == Empty(s, {"active", "holding", "dialing", "alerting"})

\* The foreground call: the least id of the first group that is not empty.
GetAudioForegroundLiveCall(s) ==
    LET Of(g) == Min(s[g])
    IN  CASE s["active"] # {}   -> Of("active")
          [] s["active"] = {} /\ s["dialing"] # {} -> Of("dialing")
          [] Empty(s, {"active", "dialing"}) /\ s["alerting"] # {} -> Of("alerting")
          [] Empty(s, {"active", "dialing", "alerting"}) /\ s["incoming"] # {}
                -> Of("incoming")
          [] Empty(s, Groups \ {"holding"}) /\ s["holding"] # {} -> Of("holding")
          [] OTHER -> NoCall
-----------------------------------------------------------------------------
(* Ring, tones and sound of AudioControlManager.  o is the value of out,   *)
(* c the value of calls.                                                   *)

Live(c) == {i \in Calls : c[i].tel \notin {"NONE", "DISCONNECTED"}}
Ringing(c) == {i \in Calls : c[i].tel \in {"INCOMING", "WAITING"}}
\* GetOneCallObject searches from the end: the latest call.
LatestOf(s) == IF s = {} THEN NoCall ELSE Max(s)
RingingCall(c) == LatestOf(Ringing(c))

StopRingtone(o) == [o EXCEPT !.ring = "STOPPED"]
StopCallTone(o) == [o EXCEPT !.tone = "STOPPED"]
StopWaitingToneWrong(o) == IF o.tone = "RINGBACK" THEN StopCallTone(o) ELSE o
StopWaitingTone(o) == IF o.tone = "WAITING" THEN StopCallTone(o) ELSE o
StopRingback(o) ==
    [(IF o.tone = "RINGBACK" THEN StopCallTone(o) ELSE o) EXCEPT !.ringback = FALSE]

PlayCallTone(o, t) == IF o.tone = "STOPPED" THEN [o EXCEPT !.tone = t] ELSE o
PlayWaitingToneWrong(o) == PlayCallTone(o, "DIAL")
PlayWaitingTone(o) == PlayCallTone(o, "WAITING")
PlayRingback(o) == IF o.ringback THEN PlayCallTone(o, "RINGBACK") ELSE o

\* The whole of the call-ended tone is played under toneStateLock_, on the
\* audio queue: nobody sees it begin or end.
PlayCallEndedTone(o) == StopCallTone(o)

PlaySoundtone(o, call) ==
    IF call # NoCall THEN [o EXCEPT !.sound = "SOUNDING"] ELSE o
StopSoundtone(o) == [o EXCEPT !.sound = "STOPPED"]

ShouldPlayRingtone(o, s) ==
    s["incoming"] # {} /\ s["alerting"] = {} /\ o.ring = "STOPPED"

\* The threads inside PlayRingtone: those that have found a call to ring for, and
\* those that have started the player and have not looked for a note yet.  The
\* audio queue and the notifier hold ringMutex_ from the start on, the retry task
\* does not.
Threads == {"queue", "notifier", "retry"}
Ringers(o) == o.due \cup o.playing
RingMutexFree(o) == {"queue", "notifier"} \cap o.playing = {}

\* PlayRingtone on thread th, up to ringMutex_.
PlayRingtone(o, s, c, th) ==
    IF ~ShouldPlayRingtone(o, s) \/ Ringing(c) = {} THEN o
    ELSE [o EXCEPT !.due = @ \cup {th}]

\* PlayRing: the player runs from here on.
PlayRing(o, th) == [o EXCEPT !.ring = "RINGING", !.due = @ \ {th},
                             !.playing = @ \cup {th}]

SetMute(o) == IF o.ring = "STOPPED" THEN o ELSE [o EXCEPT !.ring = "MUTED"]

\* What MuteRinger does once it has tested ringState_ (idle: the ringer was stopped),
\* with MuteWaitingTone: an idle ringer is muted in advance, by a note on the ringing
\* call (isNeedMuteRing).
MuteRingerLater(o, c, idle) ==
    IF Ringing(c) = {} THEN o ELSE [o EXCEPT !.needMute = @ \cup {RingingCall(c)}]
MuteRinger(o, c, idle) ==
    IF ~idle THEN SetMute(o)
    ELSE IF Ringing(c) = {} THEN o
    ELSE [(IF \E i \in Calls : c[i].tel = "WAITING" THEN StopWaitingTone(o) ELSE o)
             EXCEPT !.needMute = @ \cup {RingingCall(c)}]

\* PostProcessRingtone: a ring nobody needs any more is stopped at once, one that
\* was muted in advance is muted.
PostProcess(o, c) ==
    LET r == RingingCall(c)
    IN  IF r = NoCall THEN StopRingtone(o)
        ELSE IF r \in o.needMute THEN [SetMute(o) EXCEPT !.needMute = @ \ {r}]
        ELSE o

\* ProcessAudioWhenCallActive: an incoming call that has been answered gets
\* the sound stream, unless other calls already have it.
ProcessAudioWhenCallActive(o, c, i) ==
    LET busy == Cardinality(Live(c)) - Cardinality(Ringing(c))
    IN  IF \/ c[i].tel \notin {"ACTIVE", "INCOMING", "WAITING"}
           \/ busy >= (IF c[i].byPhone THEN 1 ELSE 2)
        THEN o ELSE PlaySoundtone(StopSoundtone(o), i)
-----------------------------------------------------------------------------
(* The scene: currentState_->ProcessEvent, as the events it queues. *)

Guarded(s, g, e) == IF ShouldSwitchState(s, g) THEN <<e>> ELSE <<>>

\* The NEW events every state but CS and IMS treats alike.
NewActive(s, e) ==
    Guarded(s, "active", IF e = "NEW_CS" THEN "SWITCH_CS" ELSE "SWITCH_IMS")

InActiveState(s, e) ==
    CASE e \in {"NEW_CS", "NEW_IMS"} -> NewActive(s, e)
      [] e = "NEW_DIALING"  -> Guarded(s, "dialing", "SWITCH_DIALING")
      [] e = "NEW_ALERTING" -> Guarded(s, "alerting", "SWITCH_ALERTING")
      [] e = "NEW_INCOMING" -> Guarded(s, "incoming", "SWITCH_INCOMING")
      [] OTHER -> <<>>

DialingState(s, e) ==
    CASE e = "NO_MORE_DIALING" -> UpdateCurrentCallState(s)
      [] e \in {"NEW_CS", "NEW_IMS"} -> NewActive(s, e)
      [] e = "NEW_ALERTING" -> Guarded(s, "alerting", "SWITCH_ALERTING")
      [] OTHER -> <<>>

AlertingState(s, e) ==
    CASE e = "NO_MORE_ALERTING" -> UpdateCurrentCallState(s)
      [] e \in {"NEW_CS", "NEW_IMS"} -> NewActive(s, e)
      [] e = "NEW_ALERTING" -> Guarded(s, "alerting", "SWITCH_ALERTING")
      [] OTHER -> <<>>

IncomingState(s, e) ==
    CASE e = "NO_MORE_INCOMING" -> UpdateCurrentCallState(s)
      [] e \in {"NEW_CS", "NEW_IMS"} -> NewActive(s, e)
      [] e = "NEW_INCOMING" -> <<"SWITCH_INCOMING">>
      [] OTHER -> <<>>

\* CSCallState and IMSCallState; nothing raises the CALL_TYPE events.
InCallState(s, e) ==
    IF e \in {"NO_MORE_ACTIVE", "NO_MORE_INCOMING"}
    THEN UpdateCurrentCallState(s) ELSE <<>>

HoldingState(s, e) ==
    CASE e = "NO_MORE_HOLDING" -> UpdateCurrentCallState(s)
      [] e \in {"NEW_CS", "NEW_IMS"} -> NewActive(s, e)
      [] e = "NEW_INCOMING" -> Guarded(s, "incoming", "SWITCH_INCOMING")
      [] e = "NEW_ALERTING" -> Guarded(s, "alerting", "SWITCH_ALERTING")
      [] OTHER -> <<>>

StateEvents(sc, s, e) ==
    CASE sc = "INACTIVE" -> InActiveState(s, e)
      [] sc = "DIALING"  -> DialingState(s, e)
      [] sc = "ALERTING" -> AlertingState(s, e)
      [] sc = "INCOMING" -> IncomingState(s, e)
      [] sc = "HOLDING"  -> HoldingState(s, e)
      [] OTHER           -> InCallState(s, e)

\* AudioDeviceManager::ProcessEvent: the device is on from the first dialling
\* or ringing call until the scene becomes inactive (which device, is left out).
DeviceActivated(o) == [o EXCEPT !.activated = TRUE]
DeviceStaysOn(o) == o
DeviceDeactivated(o) == [o EXCEPT !.activated = FALSE]

SwitchDialing(o, c) ==
    DeviceActivated(PlaySoundtone(o, LatestOf({i \in Calls : c[i].tel = "DIALING"})))

SwitchIncoming(o, s, c) ==
    LET p == IF Cardinality(s["incoming"]) > 1 THEN [o EXCEPT !.conflict = TRUE] ELSE o
    IN  DeviceActivated(PlayRingtone(StopRingtone(p), s, c, "queue"))

\* SwitchState(event): what entering a scene plays.
SwitchState(o, s, c, sc) ==
    CASE sc = "DIALING"  -> SwitchDialing(o, c)
      [] sc = "ALERTING" -> PlayRingback(o)
      [] sc = "INCOMING" -> SwitchIncoming(o, s, c)
      [] sc = "INACTIVE" -> DeviceDeactivated(o)
      [] OTHER -> o

\* ReleaseDisconnectedLock goes with the sound stream.
SilenceIfIdle(o, s) ==
    IF ShouldStopSoundtone(s) THEN [StopSoundtone(o) EXCEPT !.lock = FALSE] ELSE o
EndedToneIfIdle(o, s) == IF ShouldStopSoundtone(s) THEN PlayCallEndedTone(o) ELSE o

\* What ProcessEventInner plays and stops, the scene aside.
EventEffect(o, s, c, sc, e) ==
    CASE e \in DOMAIN SceneOf ->
            SwitchState(SilenceIfIdle(o, s), s, c, SceneOf[e])
      [] e = "NO_MORE_INCOMING" -> StopWaitingTone(StopRingtone(o))
      [] e \in {"NO_MORE_ACTIVE", "NO_MORE_ALERTING"} ->
            EndedToneIfIdle(StopRingback(o), s)
      [] e \in {"NO_MORE_DIALING", "NO_MORE_HOLDING"} -> EndedToneIfIdle(o, s)
      [] e = "NEW_INCOMING" /\ sc \in {"ALERTING", "CS", "IMS"} -> PlayWaitingTone(o)
      [] OTHER -> o
-----------------------------------------------------------------------------
(* Notifications *)

Idle == [phase |-> "IDLE"]
Muting == notify.phase \in {"MUTE", "NOTE"}

NewCall(tel) == [tel |-> tel, byPhone |-> FALSE]

Init ==
    /\ calls = [i \in Calls |-> NewCall("NONE")]
    /\ sets = [g \in Groups |-> {}]
    /\ notify = Idle /\ answering = {}
    /\ scene = "INACTIVE" /\ queue = <<>>
    /\ out = [ring |-> "STOPPED", due |-> {}, playing |-> {}, needMute |-> {},
              tone |-> "STOPPED", sound |-> "STOPPED", ringback |-> FALSE,
              conflict |-> FALSE, activated |-> FALSE, lock |-> FALSE]
    /\ odd = {}

\* PreHandleAnswerdState for an answered call: what its early branches do.
SkipsStateMachine(c, i, prior, next) ==
    /\ c[i].byPhone
    /\ \/ next = "ACTIVE" /\ prior \in {"INCOMING", "WAITING"}
       \/ next = "ANSWERED"
EndsAnswered(c, i, next) ==
    c[i].byPhone /\ next \in EndStates

\* HandleNextState: the event it queues.
NextEvent(i, next) ==
    CASE next = "DIALING"  -> <<"NEW_DIALING">>
      [] next = "ALERTING" -> <<"NEW_ALERTING">>
      [] next \in {"INCOMING", "WAITING"} -> <<"NEW_INCOMING">>
      [] next \in {"ACTIVE", "ANSWERED"} ->
            IF i \in ImsCalls THEN <<"NEW_IMS">> ELSE <<"NEW_CS">>
      [] OTHER -> <<>>

Overlap(s) == IF Cardinality(s["active"]) > 1 THEN {"overlap"} ELSE {}

\* CallStateUpdated up to the end of HandleNextState, for call i whose record
\* is already in c; the first ANSWERED of a call takes the two steps below.
HandleNextState(c, o, i, prior, next) ==
    LET skip == SkipsStateMachine(c, i, prior, next)
        pre  == IF EndsAnswered(c, i, next) THEN DeleteCall(sets, i, "ACTIVE") ELSE sets
    IN  /\ calls' = c /\ out' = o
        /\ notify' = [phase |-> IF skip \/ prior = next THEN "FRONT" ELSE "PRIOR",
                      call |-> i, prior |-> prior, next |-> next]
        /\ IF skip
           THEN sets' = DeleteCall(sets, i, prior) /\ UNCHANGED queue
           ELSE sets' = AddCall(pre, i, next) /\ queue' = queue \o NextEvent(i, next)
        /\ odd' = odd \cup Overlap(sets')
                      \cup (IF Len(queue) > 1 THEN {"behind"} ELSE {})
        /\ UNCHANGED scene

\* PreHandleAnswerdState for the first ANSWERED of a call, up to MuteRinger's test
\* of the ringer ...
PreHandleAnswerdState(i) ==
    /\ calls' = [calls EXCEPT ![i].byPhone = TRUE]
    /\ sets' = DeleteCall(sets, i, "INCOMING")
    /\ notify' = [phase |-> IF out.ring = "STOPPED" THEN "NOTE" ELSE "MUTE",
                  call |-> i, prior |-> "INCOMING", next |-> "ANSWERED"]
    /\ odd' = odd \cup (IF i \notin Ringing(calls) THEN {"stale"} ELSE {})
                  \cup (IF Len(queue) > 1 THEN {"behind"} ELSE {})
    /\ UNCHANGED <<scene, queue, out>>

\* ... and from there to the end of HandleNextState.
AnswerMutesRinger ==
    LET idle == notify.phase = "NOTE"
    IN  /\ Muting /\ (idle \/ RingMutexFree(out))
        /\ out' = MuteRinger(out, calls, idle)
        /\ sets' = AddCall(sets, notify.call, "ANSWERED")
        /\ queue' = queue \o NextEvent(notify.call, "ANSWERED")
        /\ notify' = [notify EXCEPT !.phase = "PRIOR"]
        /\ odd' = odd \cup Overlap(sets')
              \cup (IF idle /\ out.ring = "RINGING" /\ out.playing = {}
                    THEN {"crossed"} ELSE {})
    /\ UNCHANGED <<calls, answering, scene>>

\* HandlePriorState: the last call leaving a group is announced, and so is
\* every call that stops ringing.
PriorEventNotWaiting(s, prior) ==
    CASE prior = "INCOMING" -> <<"NO_MORE_INCOMING">>
      [] prior = "DIALING"  /\ s["dialing"] = {}  -> <<"NO_MORE_DIALING">>
      [] prior = "ALERTING" /\ s["alerting"] = {} -> <<"NO_MORE_ALERTING">>
      [] prior = "ACTIVE"   /\ s["active"] = {}   -> <<"NO_MORE_ACTIVE">>
      [] prior = "HOLDING"  /\ s["holding"] = {}  -> <<"NO_MORE_HOLDING">>
      [] OTHER -> <<>>
PriorEvent(s, prior) ==
    CASE prior \in {"INCOMING", "WAITING"} -> <<"NO_MORE_INCOMING">>
      [] prior = "DIALING"  /\ s["dialing"] = {}  -> <<"NO_MORE_DIALING">>
      [] prior = "ALERTING" /\ s["alerting"] = {} -> <<"NO_MORE_ALERTING">>
      [] prior = "ACTIVE"   /\ s["active"] = {}   -> <<"NO_MORE_ACTIVE">>
      [] prior = "HOLDING"  /\ s["holding"] = {}  -> <<"NO_MORE_HOLDING">>
      [] OTHER -> <<>>

HandlePriorState ==
    /\ notify.phase = "PRIOR"
    /\ LET s == DeleteCall(sets, notify.call, notify.prior)
       IN  /\ sets' = s
           /\ queue' = queue \o PriorEvent(s, notify.prior)
           /\ out' = IF notify.prior \in {"INCOMING", "WAITING"}
                     THEN ProcessAudioWhenCallActive(out, calls, notify.call) ELSE out
    /\ notify' = [notify EXCEPT !.phase = "FRONT"]
    /\ UNCHANGED <<calls, answering, scene, odd>>

\* UpdateForegroundLiveCall: a waiting call that has become the foreground
\* call rings.
UpdateForegroundLiveCall(o, s, c) ==
    LET f == GetAudioForegroundLiveCall(s)
    IN  IF f # NoCall /\ c[f].tel = "WAITING"
        THEN PlayRingtone(StopWaitingTone(o), s, c, "notifier") ELSE o

\* The rest of CallStateUpdated, but for the ring it may have to start; the handler
\* then drops a call that has ended.
FinishNotify ==
    /\ notify.phase = "FRONT"
    /\ LET o == IF /\ notify.prior = "INCOMING" /\ notify.next # "INCOMING"
                   /\ sets["incoming"] = {}
                THEN [out EXCEPT !.conflict = FALSE] ELSE out
       IN  out' = UpdateForegroundLiveCall(o, sets, calls)
    /\ calls' = IF notify.next = "DISCONNECTED"
                THEN [calls EXCEPT ![notify.call] = NewCall("DISCONNECTED")] ELSE calls
    /\ notify' = Idle
    /\ UNCHANGED <<sets, answering, scene, queue, odd>>

\* What the modems may report next about a call, given the other calls.
Reportable(i) ==
    LET tel == calls[i].tel
        setup == {j \in Calls : calls[j].tel \in {"DIALING", "ALERTING", "INCOMING", "WAITING"}}
    IN  CASE tel = "NONE" -> {"INCOMING"}
                \cup (IF setup = {} THEN {"DIALING"} ELSE {})
                \cup (IF Live(calls) # {} THEN {"WAITING"} ELSE {})
          [] tel = "DIALING" -> {"ALERTING", "ACTIVE"} \cup EndStates
          [] tel \in {"ALERTING", "INCOMING", "WAITING"} -> {"ACTIVE"} \cup EndStates
          [] tel = "ACTIVE" -> {"HOLDING"} \cup EndStates
          [] tel = "HOLDING" -> {"ACTIVE"} \cup EndStates
          [] tel = "DISCONNECTING" -> {"DISCONNECTED"}
          [] OTHER -> {}

NotifierFree == notify = Idle /\ "notifier" \notin Ringers(out)

\* A call handler of CallStatusManager: UpdateCallState sets the state and
\* notifies; a new call is created in the state it is reported in, so its
\* first notification has equal states; ids ascend.  DisconnectedHandle takes the
\* running lock first when the remote party hung up.
Report(i) ==
    /\ NotifierFree /\ Len(queue) < MaxQueue
    /\ \A j \in 1..(i - 1) : calls[j].tel # "NONE"
    /\ \E next \in Reportable(i) :
         LET old == calls[i].tel
             o == [out EXCEPT !.lock = @ \/ (next = "DISCONNECTED" /\ old # "DISCONNECTING"),
                              !.needMute = @ \ {i}]
         IN  HandleNextState([calls EXCEPT ![i].tel = next], o, i,
                             IF old = "NONE" THEN next ELSE old, next)
    /\ UNCHANGED answering

\* AnswerCall finds the ringing call ...
AnswerCall(i) ==
    /\ i \in Ringing(calls) \ answering /\ Cardinality(answering) < MaxAnswers
    /\ answering' = answering \cup {i}
    /\ UNCHANGED <<calls, sets, notify, scene, queue, out, odd>>

\* ... and its thread notifies, whatever has become of the call meanwhile.
NotifyAnswered(i) ==
    /\ i \in answering /\ NotifierFree /\ Len(queue) < MaxQueue
    /\ answering' = answering \ {i}
    /\ IF calls[i].byPhone THEN HandleNextState(calls, out, i, "INCOMING", "ANSWERED")
       ELSE PreHandleAnswerdState(i)
-----------------------------------------------------------------------------
(* The audio queue, the retry task, and the user *)

\* The queue's thread is done with the previous event; StopRingtone needs ringMutex_.
ProcessEventInner ==
    /\ queue # <<>> /\ "queue" \notin Ringers(out)
    /\ Head(queue) \in {"NO_MORE_INCOMING", "SWITCH_INCOMING"} => RingMutexFree(out)
    /\ LET e == Head(queue)
       IN  /\ out' = EventEffect(out, sets, calls, scene, e)
           /\ queue' = Tail(queue) \o StateEvents(scene, sets, e)
           /\ scene' = IF e \in DOMAIN SceneOf THEN SceneOf[e] ELSE scene
    /\ UNCHANGED <<calls, sets, notify, answering, odd>>

\* PlayRingtone from ringMutex_ on: at once, or by a task of its own when two calls
\* came in together and the earlier ring may not be out of the way.
StartRing(th) ==
    /\ th \in {"queue", "notifier"} \cap out.due /\ RingMutexFree(out)
    /\ out' = IF out.conflict THEN [out EXCEPT !.due = (@ \ {th}) \cup {"retry"}]
              ELSE PlayRing(out, th)
    /\ UNCHANGED <<calls, sets, notify, answering, scene, queue, odd>>

\* The ffrt task of PlayRingtone: plays once the stream is free, or gives up.
RetryRing ==
    /\ "retry" \in out.due \ out.playing
    /\ \/ /\ out' = PlayRing(out, "retry")
          /\ odd' = odd \cup (IF sets["incoming"] = {} THEN {"late"} ELSE {})
       \/ out' = [out EXCEPT !.due = @ \ {"retry"}] /\ UNCHANGED odd
    /\ UNCHANGED <<calls, sets, notify, answering, scene, queue>>

\* The end of PlayRing; the retry task too needs ringMutex_ to stop or to mute.
PostProcessRingtone(th) ==
    /\ th \in out.playing /\ (th = "retry" => RingMutexFree(out))
    /\ out' = PostProcess([out EXCEPT !.playing = @ \ {th}], calls)
    /\ UNCHANGED <<calls, sets, notify, answering, scene, queue, odd>>

\* UpdateRBTPlayInfo
SetLocalRingbackNeeded(needed) ==
    /\ \E i \in Calls : calls[i].tel \in {"DIALING", "ALERTING"}
    /\ out.ringback # needed
    /\ out' = [(IF out.ringback /\ ~needed THEN StopRingback(out) ELSE out)
                   EXCEPT !.ringback = needed]
    /\ UNCHANGED <<calls, sets, notify, answering, scene, queue, odd>>

\* A client calls MuteRinger: its test of the ringer may be an old one, the ring
\* having begun or ended since. A call that changes nothing is left out.
UserMutesRinger ==
    /\ \E idle \in BOOLEAN :
          /\ idle \/ RingMutexFree(out)
          /\ out' = MuteRinger(out, calls, idle)
    /\ out' # out
    /\ UNCHANGED <<calls, sets, notify, answering, scene, queue, odd>>

Next ==
    \/ \E i \in Calls : Report(i) \/ AnswerCall(i) \/ NotifyAnswered(i)
    \/ AnswerMutesRinger \/ HandlePriorState \/ FinishNotify
    \/ ProcessEventInner \/ RetryRing
    \/ \E th \in Threads : StartRing(th) \/ PostProcessRingtone(th)
    \/ \E b \in BOOLEAN : SetLocalRingbackNeeded(b)
    \/ UserMutesRinger

Spec == Init /\ [][Next]_vars
-----------------------------------------------------------------------------
(* Properties *)

\* Every reachable value has the type its C++ counterpart has.
TypeOK ==
    /\ calls \in [Calls -> [tel : TelStates, byPhone : BOOLEAN]]
    /\ sets \in [Groups -> SUBSET Calls]
    /\ notify \in {Idle} \cup [phase : {"MUTE", "NOTE", "PRIOR", "FRONT"}, call : Calls,
                               prior : TelStates, next : TelStates \cup {"ANSWERED"}]
    /\ answering \subseteq Calls
    /\ scene \in Scenes /\ queue \in Seq(Events)
    /\ out \in [ring : {"STOPPED", "RINGING", "MUTED"},
                due : SUBSET Threads, playing : SUBSET Threads,
                needMute : SUBSET Calls, tone : {"STOPPED", "RINGBACK", "WAITING"},
                sound : {"STOPPED", "SOUNDING"}, ringback : BOOLEAN,
                conflict : BOOLEAN, activated : BOOLEAN, lock : BOOLEAN]
    /\ odd \subseteq Odd

\* No notification is in progress and the audio queue has been worked off.
Quiet == queue = <<>> /\ notify = Idle

\* Between notifications every call is in the set of its state, or has been
\* answered and counts as active already; and unless AnswerCall's thread came
\* too late, the sets hold no call that is gone.
SetsMatchCalls ==
    notify = Idle =>
        /\ \A i \in Calls : calls[i].tel \in DOMAIN GroupOf =>
              \/ i \in sets[GroupOf[calls[i].tel]]
              \/ calls[i].byPhone /\ i \in sets["active"]
        /\ "stale" \notin odd => \A g \in Groups : sets[g] \subseteq Live(calls)

\* Once the queue is worked off the scene belongs to a call that exists, an
\* active call has the scene, and without calls the scene is inactive: no
\* lagging event leaves the machine in the scene of a call that is over.
\* (Two calls active at once do, an answer that came too late, and calls that change
\* faster than the audio queue is worked off: a SWITCH event then meets sets that
\* have changed since it was queued, and nothing looks at them again.)
SceneFollowsCalls ==
    Quiet /\ odd \cap {"stale", "behind"} = {} =>
        /\ scene = "DIALING"  => sets["dialing"] # {}
        /\ scene = "ALERTING" => sets["alerting"] # {}
        /\ scene = "INCOMING" => sets["incoming"] # {}
        /\ scene \in {"CS", "IMS"} => sets["active"] # {}
        /\ "overlap" \notin odd =>
              /\ sets["active"] # {} => scene \in {"CS", "IMS"}
              /\ scene = "HOLDING" => sets["holding"] # {}
              /\ Empty(sets, Groups) => scene = "INACTIVE"

\* When the last call is over and the queue is worked off, no tone sounds and
\* the audio device is off.
SilentWhenIdle ==
    Quiet /\ Empty(sets, Groups) /\ odd \cap {"overlap", "stale", "behind"} = {} =>
        out.tone = "STOPPED" /\ ~out.activated

\* The phone rings only for an incoming call nobody has answered, except when
\* the retry task rings late.
RingHasCause ==
    Quiet /\ out.ring # "STOPPED" /\ "late" \notin odd => sets["incoming"] # {}

\* The waiting tone goes with a call that waits, the local ringback tone with a
\* call that alerts, whatever events were queued when the call went away.
TonesHaveCause ==
    Quiet => /\ out.tone = "WAITING" => sets["incoming"] # {}
             /\ out.tone = "RINGBACK" => sets["alerting"] # {}

\* Once its answer is past MuteRinger, the only call does not ring aloud, not even
\* when its ring starts after the answer; except for the moment between the start
\* of the player and the look for the note, and when the note was left too late.
AnsweredIsMuted ==
    \A i \in Calls :
        /\ calls[i].byPhone /\ Ringing(calls) = {i}
        /\ \A j \in Calls \ {i} : calls[j].tel = "NONE"
        /\ ~Muting /\ out.playing = {} /\ "crossed" \notin odd
        => out.ring # "RINGING"

\* "Acquire disconnected lock when the remote hangup and will release after
\* StopSoundtone" (call_status_manager.cpp:1491): once everything has come to
\* rest and no call is left, the running lock is free.
LockReleased == Quiet /\ Live(calls) = {} => ~out.lock
=============================================================================
