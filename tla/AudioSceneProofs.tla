-------------------------- MODULE AudioSceneProofs ---------------------------
(***************************************************************************)
(* Proofs about AudioScene, for any number of calls, any of them IMS, and  *)
(* any bound on the queue.  First what the helpers do to sets, output and  *)
(* queue; then each action described once, by what the invariant needs of  *)
(* it; then the parts of the invariant, in order: types, calls and sets,   *)
(* what rings and sounds, the answered call.                               *)
(***************************************************************************)
EXTENDS AudioScene, AscendingProofs, FiniteSetTheorems

GroupStates == {"DIALING", "ALERTING", "INCOMING", "WAITING", "ACTIVE", "ANSWERED", "HOLDING"}
RingStates == {"INCOMING", "WAITING"}
CallTypes == [Calls -> [tel : TelStates, byPhone : BOOLEAN]]
SetTypes == [Groups -> SUBSET Calls]
OutTypes == [ring : {"STOPPED", "RINGING", "MUTED"},
             due : SUBSET Threads, playing : SUBSET Threads,
             needMute : SUBSET Calls, tone : {"STOPPED", "RINGBACK", "WAITING"},
             sound : {"STOPPED", "SOUNDING"}, ringback : BOOLEAN,
             conflict : BOOLEAN, activated : BOOLEAN, lock : BOOLEAN]

\* What a step leaves alone of the ringer.
SameRinger(x, o) ==
    /\ x.ring = o.ring /\ x.due = o.due /\ x.playing = o.playing
    /\ x.needMute = o.needMute /\ x.conflict = o.conflict

\* The table GroupOf, entry by entry.
LEMMA GroupTable ==
    /\ DOMAIN GroupOf = GroupStates
    /\ GroupOf["DIALING"] = "dialing" /\ GroupOf["ALERTING"] = "alerting"
    /\ GroupOf["INCOMING"] = "incoming" /\ GroupOf["WAITING"] = "incoming"
    /\ GroupOf["ACTIVE"] = "active" /\ GroupOf["ANSWERED"] = "active"
    /\ GroupOf["HOLDING"] = "holding"
  BY DEF GroupOf, GroupStates

\* Every state that has a set has it in Groups.
LEMMA GroupTypes == \A t \in GroupStates : GroupOf[t] \in Groups
  BY GroupTable DEF GroupStates, Groups

\* The table SceneOf.
LEMMA SceneTable ==
    /\ DOMAIN SceneOf = {"SWITCH_INACTIVE", "SWITCH_DIALING", "SWITCH_ALERTING",
                         "SWITCH_INCOMING", "SWITCH_CS", "SWITCH_IMS", "SWITCH_HOLDING"}
    /\ \A e \in DOMAIN SceneOf : SceneOf[e] \in Scenes
  BY DEF SceneOf, Scenes

\* The latest call of a set.
LEMMA LatestCall ==
    ASSUME NEW S \in SUBSET Calls
    PROVE  /\ S = {} => LatestOf(S) = NoCall
           /\ S # {} => LatestOf(S) \in S /\ LatestOf(S) # NoCall
<1>0. NCalls \in Nat /\ Calls = 1..NCalls
  BY AudioAssumption DEF Calls
<1>1. ASSUME S # {} PROVE Max(S) \in S
  <2> DEFINE D == {NCalls - n : n \in S}
  <2>1. D \in SUBSET Nat /\ D # {}
    <3>1. \A n \in S : NCalls - n \in Nat
      BY <1>0
    <3>2. PICK n \in S : TRUE
      BY <1>1
    <3>3. NCalls - n \in D
      OBVIOUS
    <3> QED BY <3>1, <3>3
  <2>2. PICK d \in D : \A e \in D : d <= e
    BY <2>1, LeastMember
  <2>3. PICK n \in S : d = NCalls - n
    BY <2>2
  <2>4. \A m \in S : m <= n
    <3> SUFFICES ASSUME NEW m \in S PROVE m <= n
      OBVIOUS
    <3>1. NCalls - n <= NCalls - m
      BY <2>2, <2>3
    <3> QED BY <1>0, <3>1
  <2> QED BY <1>0, <2>4 DEF Max
<1>2. CASE S = {}
  BY <1>2 DEF LatestOf
<1>3. CASE S # {}
  <2>1. LatestOf(S) \in S
    BY <1>1, <1>3 DEF LatestOf
  <2>2. \A n \in S : n # 0
    BY <1>0
  <2> QED BY <1>3, <2>1, <2>2 DEF NoCall
<1> QED BY <1>2, <1>3

\* What AddCall and DeleteCall do to each set.
LEMMA SetsChange ==
    ASSUME NEW s \in SetTypes, NEW i \in Calls, NEW t
    PROVE  /\ AddCall(s, i, t) \in SetTypes
           /\ DeleteCall(s, i, t) \in SetTypes
           /\ \A g \in Groups : \A j : j \in AddCall(s, i, t)[g] <=>
                 \/ j \in s[g]
                 \/ j = i /\ t \in GroupStates /\ g = GroupOf[t]
           /\ \A g \in Groups : \A j : j \in DeleteCall(s, i, t)[g] <=>
                 /\ j \in s[g]
                 /\ ~(j = i /\ t \in GroupStates \ {"ANSWERED"} /\ g = GroupOf[t])
<1>1. t \in GroupStates => GroupOf[t] \in Groups
  BY GroupTypes
<1>2. AddCall(s, i, t) = IF t \in GroupStates THEN [s EXCEPT ![GroupOf[t]] = @ \cup {i}] ELSE s
  BY GroupTable DEF AddCall
<1>3. DeleteCall(s, i, t) = IF t \in GroupStates \ {"ANSWERED"}
                            THEN [s EXCEPT ![GroupOf[t]] = @ \ {i}] ELSE s
  BY GroupTable DEF DeleteCall
<1> QED BY <1>1, <1>2, <1>3 DEF SetTypes
-----------------------------------------------------------------------------
(* What rings and sounds *)

\* The call the ringtone is played for is one that rings.
LEMMA RingingCallType ==
    ASSUME NEW c \in CallTypes
    PROVE  /\ Ringing(c) \in SUBSET Calls
           /\ Ringing(c) # {} => RingingCall(c) \in Ringing(c) /\ RingingCall(c) # NoCall
           /\ Ringing(c) = {} => RingingCall(c) = NoCall
<1>1. Ringing(c) \in SUBSET Calls
  BY DEF Ringing
<1> QED BY <1>1, LatestCall DEF RingingCall

\* A thread that decides to ring has found an incoming call.
LEMMA RingtonePlays ==
    ASSUME NEW o \in OutTypes, NEW s, NEW c, NEW th \in Threads
    PROVE  LET x == PlayRingtone(o, s, c, th)
           IN /\ x \in OutTypes
              /\ x.ring = o.ring /\ x.playing = o.playing /\ x.needMute = o.needMute
              /\ x.tone = o.tone /\ x.conflict = o.conflict
              /\ x.due = o.due \/ (x.due = o.due \cup {th} /\ s["incoming"] # {} /\ o.ring = "STOPPED")
<1> DEFINE x == PlayRingtone(o, s, c, th)
<1>1. CASE ~ShouldPlayRingtone(o, s) \/ Ringing(c) = {}
  BY <1>1 DEF PlayRingtone
<1>2. CASE ShouldPlayRingtone(o, s) /\ Ringing(c) # {}
  <2>1. x = [o EXCEPT !.due = @ \cup {th}]
    BY <1>2 DEF PlayRingtone
  <2>2. o.due \cup {th} \in SUBSET Threads
    BY DEF OutTypes
  <2> HIDE DEF x
  <2> QED BY <1>2, <2>1, <2>2 DEF OutTypes, ShouldPlayRingtone, x
<1> QED BY <1>1, <1>2

\* The player starts.
LEMMA RingPlays ==
    ASSUME NEW o \in OutTypes, NEW th \in Threads
    PROVE  LET x == PlayRing(o, th)
           IN /\ x \in OutTypes /\ x.ring = "RINGING" /\ x.tone = o.tone
              /\ x.conflict = o.conflict /\ x.needMute = o.needMute
              /\ x.due = o.due \ {th} /\ x.playing = o.playing \cup {th}
<1>1. o.due \ {th} \in SUBSET Threads /\ o.playing \cup {th} \in SUBSET Threads
  BY DEF OutTypes
<1> QED BY <1>1 DEF PlayRing, OutTypes

\* Muting a ring.
LEMMA RingIsMuted ==
    ASSUME NEW o \in OutTypes
    PROVE  LET x == SetMute(o)
           IN /\ x \in OutTypes /\ x.ring # "RINGING"
              /\ x.ring = "STOPPED" <=> o.ring = "STOPPED"
              /\ x.tone = o.tone /\ x.conflict = o.conflict
              /\ x.needMute = o.needMute /\ x.due = o.due /\ x.playing = o.playing
  BY DEF SetMute, OutTypes

\* MuteRinger starts nothing: it silences the ring, or leaves a note.
LEMMA RingerMutes ==
    ASSUME NEW o \in OutTypes, NEW c \in CallTypes, NEW idle \in BOOLEAN
    PROVE  LET x == MuteRinger(o, c, idle)
           IN /\ x \in OutTypes
              /\ x.ring = "STOPPED" <=> o.ring = "STOPPED"
              /\ x.ring = "RINGING" => o.ring = "RINGING" /\ idle
              /\ x.tone \in {o.tone, "STOPPED"}
              /\ x.conflict = o.conflict /\ x.due = o.due /\ x.playing = o.playing
              /\ o.needMute \subseteq x.needMute
              /\ idle /\ Ringing(c) # {} => RingingCall(c) \in x.needMute
<1> DEFINE x == MuteRinger(o, c, idle)
           y == IF \E i \in Calls : c[i].tel = "WAITING" THEN StopWaitingTone(o) ELSE o
           r == RingingCall(c)
<1>1. CASE ~idle
  BY <1>1, RingIsMuted DEF MuteRinger
<1>2. CASE idle /\ Ringing(c) = {}
  BY <1>2 DEF MuteRinger
<1>3. CASE idle /\ Ringing(c) # {}
  <2>1. r \in Calls
    BY <1>3, RingingCallType
  <2>2. y \in OutTypes /\ y.tone \in {o.tone, "STOPPED"} /\ SameRinger(y, o)
    BY DEF StopWaitingTone, StopCallTone, OutTypes, SameRinger
  <2>3. x = [y EXCEPT !.needMute = @ \cup {r}]
    BY <1>3 DEF MuteRinger
  <2> HIDE DEF x, y
  <2>4. y.needMute \cup {r} \in SUBSET Calls
    BY <2>1, <2>2 DEF OutTypes
  <2> HIDE DEF r
  <2>5. /\ x \in OutTypes /\ x.ring = y.ring /\ x.tone = y.tone /\ x.conflict = y.conflict
        /\ x.due = y.due /\ x.playing = y.playing /\ x.needMute = y.needMute \cup {r}
    BY <2>2, <2>3, <2>4 DEF OutTypes
  <2> QED BY <1>3, <2>2, <2>5 DEF SameRinger, x, r
<1> QED BY <1>1, <1>2, <1>3

\* The look for a note after the player has started.
LEMMA RingIsProcessed ==
    ASSUME NEW o \in OutTypes, NEW c \in CallTypes
    PROVE  LET x == PostProcess(o, c)
           IN /\ x \in OutTypes
              /\ x.ring \in {o.ring, "STOPPED"} \/ (x.ring = "MUTED" /\ o.ring # "STOPPED")
              /\ x.tone = o.tone /\ x.conflict = o.conflict
              /\ x.due = o.due /\ x.playing = o.playing
              /\ RingingCall(c) # NoCall /\ RingingCall(c) \in o.needMute => x.ring # "RINGING"
<1> DEFINE r == RingingCall(c)
           y == SetMute(o)
<1>1. CASE r = NoCall
  BY <1>1 DEF PostProcess, StopRingtone, OutTypes
<1>2. CASE r # NoCall /\ r \in o.needMute
  <2>1. PostProcess(o, c) = [y EXCEPT !.needMute = @ \ {r}]
    BY <1>2 DEF PostProcess
  <2>2. /\ y \in OutTypes /\ y.ring # "RINGING" /\ (y.ring = "STOPPED" <=> o.ring = "STOPPED")
        /\ y.tone = o.tone /\ y.conflict = o.conflict /\ y.due = o.due /\ y.playing = o.playing
    BY RingIsMuted
  <2> HIDE DEF y, r
  <2>3. y.needMute \ {r} \in SUBSET Calls
    BY <2>2 DEF OutTypes
  <2> DEFINE x == PostProcess(o, c)
  <2>4. /\ x \in OutTypes /\ x.ring = y.ring /\ x.tone = y.tone /\ x.conflict = y.conflict
        /\ x.due = y.due /\ x.playing = y.playing
    BY <2>1, <2>2, <2>3 DEF OutTypes
  <2>5. x.ring \in {"STOPPED", "MUTED"}
    BY <2>2, <2>4 DEF OutTypes
  <2> HIDE DEF x
  <2> QED BY <2>2, <2>4, <2>5 DEF x
<1>3. CASE r # NoCall /\ r \notin o.needMute
  BY <1>3 DEF PostProcess
<1> QED BY <1>1, <1>2, <1>3

\* A call that becomes active changes neither ring nor tone.
LEMMA ActiveSounds ==
    ASSUME NEW o \in OutTypes, NEW c, NEW i
    PROVE  LET x == ProcessAudioWhenCallActive(o, c, i)
           IN x \in OutTypes /\ x.tone = o.tone /\ SameRinger(x, o)
<1> DEFINE y == StopSoundtone(o)
           x == ProcessAudioWhenCallActive(o, c, i)
<1>1. y \in OutTypes /\ y.tone = o.tone /\ SameRinger(y, o)
  BY DEF StopSoundtone, OutTypes, SameRinger
<1>2. x = o \/ x = PlaySoundtone(y, i)
  BY DEF ProcessAudioWhenCallActive
<1> HIDE DEF y, x
<1>3. PlaySoundtone(y, i) \in OutTypes /\ PlaySoundtone(y, i).tone = y.tone
      /\ SameRinger(PlaySoundtone(y, i), y)
  BY <1>1 DEF PlaySoundtone, OutTypes, SameRinger
<1> QED BY <1>1, <1>2, <1>3 DEF SameRinger, x

\* The least call of a set.
LEMMA FirstCall == ASSUME NEW S \in SUBSET Calls, S # {} PROVE Min(S) \in S
<1>0. NCalls \in Nat /\ Calls = 1..NCalls
  BY AudioAssumption DEF Calls
<1>1. S \in SUBSET Nat
  BY <1>0
<1>2. PICK n \in S : \A m \in S : n <= m
  BY <1>1, LeastMember
<1> QED BY <1>2 DEF Min

\* The foreground call is one of the calls.
LEMMA ForegroundIsCall ==
    ASSUME NEW s \in SetTypes
    PROVE  GetAudioForegroundLiveCall(s) \in Calls \cup {NoCall}
<1>1. \A g \in Groups : s[g] # {} => Min(s[g]) \in Calls
  <2> SUFFICES ASSUME NEW g \in Groups, s[g] # {} PROVE Min(s[g]) \in Calls
    OBVIOUS
  <2>1. s[g] \in SUBSET Calls
    BY DEF SetTypes
  <2> QED BY <2>1, FirstCall
<1>2. "active" \in Groups /\ "dialing" \in Groups /\ "alerting" \in Groups
      /\ "incoming" \in Groups /\ "holding" \in Groups
  BY DEF Groups
<1> QED BY <1>1, <1>2 DEF GetAudioForegroundLiveCall

\* The foreground call is updated: a ring that is decided on is for an incoming call,
\* and only for one that waits.
LEMMA ForegroundRings ==
    ASSUME NEW o \in OutTypes, NEW s \in SetTypes, NEW c \in CallTypes
    PROVE  LET x == UpdateForegroundLiveCall(o, s, c)
           IN /\ x \in OutTypes
              /\ x.ring = o.ring /\ x.playing = o.playing /\ x.needMute = o.needMute
              /\ x.tone \in {o.tone, "STOPPED"} /\ x.conflict = o.conflict
              /\ \/ x.due = o.due
                 \/ /\ x.due = o.due \cup {"notifier"} /\ s["incoming"] # {}
                    /\ o.ring = "STOPPED" /\ \E i \in Calls : c[i].tel = "WAITING"
<1> DEFINE x == UpdateForegroundLiveCall(o, s, c)
           y == StopWaitingTone(o)
           z == PlayRingtone(y, s, c, "notifier")
<1>1. y \in OutTypes /\ y.tone \in {o.tone, "STOPPED"} /\ SameRinger(y, o)
  BY DEF StopWaitingTone, StopCallTone, OutTypes, SameRinger
<1>2. x = o \/ (x = z /\ \E i \in Calls : c[i].tel = "WAITING")
  BY ForegroundIsCall DEF UpdateForegroundLiveCall
<1> HIDE DEF y
<1>3. "notifier" \in Threads
  BY DEF Threads
<1>4. /\ z \in OutTypes
      /\ z.ring = y.ring /\ z.playing = y.playing /\ z.needMute = y.needMute
      /\ z.tone = y.tone /\ z.conflict = y.conflict
      /\ \/ z.due = y.due
         \/ z.due = y.due \cup {"notifier"} /\ s["incoming"] # {} /\ y.ring = "STOPPED"
  BY <1>1, <1>3, RingtonePlays
<1> HIDE DEF x, z
<1> QED BY <1>1, <1>2, <1>4 DEF SameRinger, x

\* What processing an event may start and must stop.
EffectOf(o, s, e, x) ==
    /\ x \in OutTypes
    /\ e = "NO_MORE_INCOMING" => x.ring = "STOPPED" /\ x.tone # "WAITING"
    /\ x.ring \in {o.ring, "STOPPED"} /\ x.playing = o.playing /\ x.needMute = o.needMute
    /\ x.due = o.due \/ (x.due = o.due \cup {"queue"} /\ s["incoming"] # {} /\ x.ring = "STOPPED")
    /\ x.tone = "WAITING" => o.tone = "WAITING" \/ e = "NEW_INCOMING"
    /\ x.tone = "RINGBACK" =>
          (o.tone = "RINGBACK" /\ e # "NO_MORE_ALERTING") \/ e = "SWITCH_ALERTING"
    /\ x.conflict => o.conflict \/ Cardinality(s["incoming"]) > 1

\* Going idle starts nothing.
LEMMA SilenceType ==
    ASSUME NEW o \in OutTypes, NEW s
    PROVE  /\ SilenceIfIdle(o, s) \in OutTypes
           /\ SilenceIfIdle(o, s).tone = o.tone /\ SameRinger(SilenceIfIdle(o, s), o)
           /\ EndedToneIfIdle(o, s) \in OutTypes
           /\ EndedToneIfIdle(o, s).tone \in {o.tone, "STOPPED"}
           /\ SameRinger(EndedToneIfIdle(o, s), o)
  BY DEF SilenceIfIdle, EndedToneIfIdle, StopSoundtone, PlayCallEndedTone, StopCallTone, OutTypes, SameRinger

\* The effect of SWITCH_INCOMING.
LEMMA IncomingSwitches ==
    ASSUME NEW o \in OutTypes, NEW s \in SetTypes, NEW c \in CallTypes
    PROVE  EffectOf(o, s, "SWITCH_INCOMING", SwitchIncoming(o, s, c))
<1> DEFINE p == IF Cardinality(s["incoming"]) > 1 THEN [o EXCEPT !.conflict = TRUE] ELSE o
           q == StopRingtone(p)
           y == PlayRingtone(q, s, c, "queue")
           x == SwitchIncoming(o, s, c)
<1>1. q \in OutTypes /\ q.ring = "STOPPED" /\ q.tone = o.tone
      /\ q.due = o.due /\ q.playing = o.playing /\ q.needMute = o.needMute
      /\ (q.conflict => o.conflict \/ Cardinality(s["incoming"]) > 1)
  BY DEF StopRingtone, OutTypes
<1>2. x = DeviceActivated(y) /\ "queue" \in Threads
  BY DEF SwitchIncoming, Threads
<1> HIDE DEF q
<1>3. /\ y \in OutTypes
      /\ y.ring = q.ring /\ y.playing = q.playing /\ y.needMute = q.needMute
      /\ y.tone = q.tone /\ y.conflict = q.conflict
      /\ y.due = q.due \/ (y.due = q.due \cup {"queue"} /\ s["incoming"] # {})
  BY <1>1, <1>2, RingtonePlays
<1> HIDE DEF x, y
<1>4. x \in OutTypes /\ x.tone = y.tone /\ SameRinger(x, y)
  BY <1>2, <1>3 DEF DeviceActivated, OutTypes, SameRinger
<1> QED BY <1>1, <1>3, <1>4 DEF EffectOf, SameRinger, x

\* The effect of any event of the scene machine.
LEMMA Effects ==
    ASSUME NEW o \in OutTypes, NEW s \in SetTypes, NEW c \in CallTypes, NEW sc, NEW e \in Events
    PROVE  EffectOf(o, s, e, EventEffect(o, s, c, sc, e))
<1> DEFINE x == EventEffect(o, s, c, sc, e)
<1>1. CASE e \in DOMAIN SceneOf
  <2> DEFINE q == SilenceIfIdle(o, s)
             k == SceneOf[e]
  <2>1. x = SwitchState(q, s, c, k)
    BY <1>1, SceneTable DEF EventEffect
  <2>2. q \in OutTypes /\ q.tone = o.tone /\ SameRinger(q, o)
    BY SilenceType
  <2>3. e \notin {"NO_MORE_INCOMING", "NEW_INCOMING", "NO_MORE_ALERTING"} /\ (k = "ALERTING" => e = "SWITCH_ALERTING")
    BY <1>1 DEF SceneOf
  <2> HIDE DEF q, k, x
  <2> SUFFICES EffectOf(o, s, e, x)
    BY DEF x
  <2>4. CASE k = "INCOMING"
    <3>1. x = SwitchIncoming(q, s, c)
      BY <2>1, <2>4 DEF SwitchState
    <3> QED BY <2>2, <2>3, <3>1, IncomingSwitches DEF EffectOf, SameRinger
  <2>5. CASE k = "DIALING"
    <3>1. x \in OutTypes /\ x.tone = q.tone /\ SameRinger(x, q)
      BY <2>1, <2>2, <2>5 DEF SwitchState, SwitchDialing, DeviceActivated, PlaySoundtone, OutTypes, SameRinger
    <3> QED BY <2>2, <2>3, <3>1 DEF EffectOf, SameRinger
  <2>6. CASE k = "ALERTING"
    <3>1. x \in OutTypes /\ x.tone \in {q.tone, "RINGBACK"} /\ SameRinger(x, q)
      BY <2>1, <2>2, <2>6 DEF SwitchState, PlayRingback, PlayCallTone, OutTypes, SameRinger
    <3> QED BY <2>2, <2>3, <2>6, <3>1 DEF EffectOf, SameRinger
  <2>7. CASE k \notin {"DIALING", "INCOMING", "ALERTING"}
    <3>1. x \in OutTypes /\ x.tone = q.tone /\ SameRinger(x, q)
      BY <2>1, <2>2, <2>7 DEF SwitchState, DeviceDeactivated, OutTypes, SameRinger
    <3> QED BY <2>2, <2>3, <3>1 DEF EffectOf, SameRinger
  <2> QED BY <2>4, <2>5, <2>6, <2>7
<1>2. CASE e = "NO_MORE_INCOMING"
  <2> DEFINE q == StopRingtone(o)
  <2>1. x = StopWaitingTone(q)
    BY <1>2, SceneTable DEF EventEffect
  <2>2. /\ q \in OutTypes /\ q.ring = "STOPPED" /\ q.tone = o.tone /\ q.due = o.due
        /\ q.playing = o.playing /\ q.needMute = o.needMute /\ q.conflict = o.conflict
    BY DEF StopRingtone, OutTypes
  <2> HIDE DEF q
  <2>3. /\ StopWaitingTone(q) \in OutTypes /\ SameRinger(StopWaitingTone(q), q)
        /\ StopWaitingTone(q).tone \in {q.tone, "STOPPED"} /\ StopWaitingTone(q).tone # "WAITING"
    BY <2>2 DEF StopWaitingTone, StopCallTone, OutTypes, SameRinger
  <2> HIDE DEF x
  <2> QED BY <1>2, <2>1, <2>2, <2>3 DEF SameRinger, EffectOf, x
<1>3. CASE e \in {"NO_MORE_ACTIVE", "NO_MORE_ALERTING"}
  <2> DEFINE q == StopRingback(o)
  <2>1. x = EndedToneIfIdle(q, s)
    BY <1>3, SceneTable DEF EventEffect
  <2>2. q \in OutTypes /\ q.tone \in {o.tone, "STOPPED"} /\ q.tone # "RINGBACK" /\ SameRinger(q, o)
    BY DEF StopRingback, StopCallTone, OutTypes, SameRinger
  <2> HIDE DEF q
  <2> QED BY <1>3, <2>1, <2>2, SilenceType DEF EffectOf, SameRinger
<1>4. CASE e \in {"NO_MORE_DIALING", "NO_MORE_HOLDING"}
  <2>1. x = EndedToneIfIdle(o, s)
    BY <1>4, SceneTable DEF EventEffect
  <2> QED BY <1>4, <2>1, SilenceType DEF EffectOf, SameRinger
<1>5. CASE e = "NEW_INCOMING" /\ sc \in {"ALERTING", "CS", "IMS"}
  <2>1. x = PlayWaitingTone(o)
    BY <1>5, SceneTable DEF EventEffect
  <2>2. x \in OutTypes /\ x.tone \in {o.tone, "WAITING"} /\ SameRinger(x, o)
    BY <2>1 DEF PlayWaitingTone, PlayCallTone, OutTypes, SameRinger
  <2> QED BY <1>5, <2>2 DEF EffectOf, SameRinger
<1>6. CASE ~(e \in DOMAIN SceneOf \cup NoMoreEvents) /\ ~(e = "NEW_INCOMING" /\ sc \in {"ALERTING", "CS", "IMS"})
  <2>1. x = o
    BY <1>6 DEF EventEffect, NoMoreEvents
  <2> QED BY <1>6, <2>1 DEF EffectOf, NoMoreEvents
<1> QED BY <1>1, <1>2, <1>3, <1>4, <1>5, <1>6 DEF NoMoreEvents
-----------------------------------------------------------------------------
(* The events *)

\* Zero or one event, and the scene of the alerting call only while a call alerts.
AtMost(q, s) ==
    \/ q = <<>>
    \/ \E e \in DOMAIN SceneOf : q = <<e>> /\ (e = "SWITCH_ALERTING" => s["alerting"] # {})

\* An event chosen from a set is chosen for a call in it.
LEMMA GuardedEvent ==
    ASSUME NEW s, NEW g, NEW e \in DOMAIN SceneOf, e = "SWITCH_ALERTING" => g = "alerting"
    PROVE  AtMost(Guarded(s, g, e), s)
<1>1. s[g] = {} => ~ShouldSwitchState(s, g)
  BY FS_EmptySet DEF ShouldSwitchState
<1> QED BY <1>1 DEF Guarded, AtMost

\* UpdateCurrentCallState queues at most one event.
LEMMA CurrentEvent == ASSUME NEW s PROVE AtMost(UpdateCurrentCallState(s), s)
  BY SceneTable DEF UpdateCurrentCallState, AtMost

\* So does ProcessNewActiveCall.
LEMMA NewActiveEvent == ASSUME NEW s, NEW e PROVE AtMost(NewActive(s, e), s)
  BY GuardedEvent, SceneTable DEF NewActive

\* So does each state of the scene machine.
LEMMA SceneEvents == ASSUME NEW sc, NEW s, NEW e PROVE AtMost(StateEvents(sc, s, e), s)
<1>0. AtMost(<<>>, s) /\ AtMost(<<"SWITCH_INCOMING">>, s)
  BY SceneTable DEF AtMost
<1>1. /\ AtMost(Guarded(s, "dialing", "SWITCH_DIALING"), s)
      /\ AtMost(Guarded(s, "alerting", "SWITCH_ALERTING"), s)
      /\ AtMost(Guarded(s, "incoming", "SWITCH_INCOMING"), s)
  BY GuardedEvent, SceneTable
<1>2. AtMost(InActiveState(s, e), s)
  BY <1>0, <1>1, NewActiveEvent DEF InActiveState
<1>3. AtMost(DialingState(s, e), s)
  BY <1>0, <1>1, NewActiveEvent, CurrentEvent DEF DialingState
<1>4. AtMost(AlertingState(s, e), s)
  BY <1>0, <1>1, NewActiveEvent, CurrentEvent DEF AlertingState
<1>5. AtMost(IncomingState(s, e), s)
  BY <1>0, <1>1, NewActiveEvent, CurrentEvent DEF IncomingState
<1>6. AtMost(HoldingState(s, e), s)
  BY <1>0, <1>1, NewActiveEvent, CurrentEvent DEF HoldingState
<1>7. AtMost(InCallState(s, e), s)
  BY <1>0, CurrentEvent DEF InCallState
<1> QED BY <1>2, <1>3, <1>4, <1>5, <1>6, <1>7 DEF StateEvents

\* What is queued are events.
LEMMA EventTypes ==
    /\ \A s : \A q : AtMost(q, s) => q \in Seq(Events)
    /\ \A i, next : NextEvent(i, next) \in Seq(Events)
    /\ \A s, prior : PriorEvent(s, prior) \in Seq(Events)
<1>1. \A e \in Events : <<e>> \in Seq(Events)
  OBVIOUS
<1>2. <<>> \in Seq(Events)
  OBVIOUS
<1>3. \A s : \A q : AtMost(q, s) => q \in Seq(Events)
  BY <1>1, <1>2 DEF AtMost, Events
<1>4. \A i, next : NextEvent(i, next) \in Seq(Events)
  BY <1>1, <1>2 DEF NextEvent, Events, NewEvents
<1>5. \A s, prior : PriorEvent(s, prior) \in Seq(Events)
  BY <1>1, <1>2 DEF PriorEvent, Events, NoMoreEvents
<1> QED BY <1>3, <1>4, <1>5
-----------------------------------------------------------------------------
(* What a notification does *)

Notifications == [phase : {"MUTE", "NOTE", "PRIOR", "FRONT"}, call : Calls,
                  prior : TelStates, next : TelStates \cup {"ANSWERED"}]

\* A notification in progress names a call and its states.
LEMMA NotifyTypes ==
    ASSUME TypeOK
    PROVE  /\ notify = Idle <=> notify.phase = "IDLE"
           /\ notify.phase \in {"IDLE", "MUTE", "NOTE", "PRIOR", "FRONT"}
           /\ notify.phase # "IDLE" => notify \in Notifications
  BY DEF TypeOK, Idle, Notifications

\* A reported change that skips the state machine, and one that does not.
LEMMA ReportIs ==
    ASSUME TypeOK, NEW i \in Calls, Report(i)
    PROVE  \E next \in Reportable(i) :
              LET old == calls[i].tel
                  prior == IF old = "NONE" THEN next ELSE old
                  skip == calls[i].byPhone /\ next = "ACTIVE" /\ prior \in RingStates
                  ends == calls[i].byPhone /\ next \in EndStates
                  pre == IF ends THEN DeleteCall(sets, i, "ACTIVE") ELSE sets
              IN /\ notify.phase = "IDLE"
                 /\ next \in TelStates \ {"NONE"} /\ prior \in TelStates
                 /\ old # "NONE" => next # old /\ next \notin RingStates
                 /\ calls' = [calls EXCEPT ![i].tel = next]
                 /\ notify' = [phase |-> IF skip \/ prior = next THEN "FRONT" ELSE "PRIOR",
                               call |-> i, prior |-> prior, next |-> next]
                 /\ sets' = IF skip THEN DeleteCall(sets, i, prior) ELSE AddCall(pre, i, next)
                 /\ queue' = IF skip THEN queue ELSE queue \o NextEvent(i, next)
                 /\ out' \in OutTypes /\ out'.tone = out.tone /\ out'.conflict = out.conflict
                 /\ out'.ring = out.ring /\ out'.due = out.due /\ out'.playing = out.playing
                 /\ "notifier" \notin Ringers(out)
                 /\ odd \subseteq odd' /\ odd' \subseteq Odd
                 /\ UNCHANGED <<answering, scene>>
<1>1. PICK next \in Reportable(i) :
         LET old == calls[i].tel
             o == [out EXCEPT !.lock = @ \/ (next = "DISCONNECTED" /\ old # "DISCONNECTING"),
                              !.needMute = @ \ {i}]
         IN  HandleNextState([calls EXCEPT ![i].tel = next], o, i,
                             IF old = "NONE" THEN next ELSE old, next)
  BY DEF Report
<1> DEFINE old == calls[i].tel
           prior == IF old = "NONE" THEN next ELSE old
           c == [calls EXCEPT ![i].tel = next]
           b == next = "DISCONNECTED" /\ old # "DISCONNECTING"
           o == [out EXCEPT !.lock = @ \/ b, !.needMute = @ \ {i}]
           skip == calls[i].byPhone /\ next = "ACTIVE" /\ prior \in RingStates
           ends == calls[i].byPhone /\ next \in EndStates
           pre == IF ends THEN DeleteCall(sets, i, "ACTIVE") ELSE sets
<1>2. old \in TelStates /\ next \in TelStates \ {"NONE"} /\ prior \in TelStates
      /\ (old # "NONE" => next # old /\ next \notin RingStates)
  BY DEF Reportable, TelStates, EndStates, TypeOK, RingStates
<1>3. c[i].byPhone = calls[i].byPhone /\ next # "ANSWERED"
  BY <1>2 DEF TypeOK, TelStates
<1>4. /\ SkipsStateMachine(c, i, prior, next) = skip
      /\ EndsAnswered(c, i, next) = ends
  BY <1>3 DEF SkipsStateMachine, EndsAnswered, RingStates, TypeOK
<1>5. HandleNextState(c, o, i, prior, next)
  BY <1>1
<1> HIDE DEF skip, ends, prior, c, o
<1>6. /\ calls' = c
      /\ notify' = [phase |-> IF skip \/ prior = next THEN "FRONT" ELSE "PRIOR",
                    call |-> i, prior |-> prior, next |-> next]
      /\ sets' = IF skip THEN DeleteCall(sets, i, prior) ELSE AddCall(pre, i, next)
      /\ queue' = IF skip THEN queue ELSE queue \o NextEvent(i, next)
      /\ out' = o /\ odd \subseteq odd' /\ scene' = scene
      /\ odd' \subseteq odd \cup {"overlap", "behind"}
  BY <1>4, <1>5 DEF HandleNextState, Overlap
<1>7. /\ o \in OutTypes /\ o.tone = out.tone /\ o.conflict = out.conflict
      /\ o.ring = out.ring /\ o.due = out.due /\ o.playing = out.playing
  <2>1. out.needMute \ {i} \in SUBSET Calls /\ (out.lock \/ b) \in BOOLEAN
    BY DEF TypeOK
  <2> HIDE DEF b
  <2> QED BY <2>1 DEF o, TypeOK, OutTypes
<1>8. odd' \subseteq Odd
  BY <1>6 DEF TypeOK, Odd
<1> QED BY <1>2, <1>6, <1>7, <1>8, NotifyTypes DEF Report, NotifierFree, c, skip, ends, prior

\* A notification of AnswerCall: the first one about a call, and a later one.
LEMMA NotifyAnsweredIs ==
    ASSUME TypeOK, NEW i \in Calls, NotifyAnswered(i)
    PROVE  /\ notify.phase = "IDLE" /\ i \in answering /\ answering' = answering \ {i}
           /\ notify' = [phase |-> IF calls[i].byPhone THEN "FRONT"
                                   ELSE IF out.ring = "STOPPED" THEN "NOTE" ELSE "MUTE",
                         call |-> i, prior |-> "INCOMING", next |-> "ANSWERED"]
           /\ calls' = IF calls[i].byPhone THEN calls ELSE [calls EXCEPT ![i].byPhone = TRUE]
           /\ sets' = DeleteCall(sets, i, "INCOMING")
           /\ "notifier" \notin Ringers(out)
           /\ odd \subseteq odd' /\ odd' \subseteq Odd
           /\ UNCHANGED <<scene, queue, out>>
           /\ ~calls[i].byPhone /\ i \notin Ringing(calls) => "stale" \in odd'
<1>1. CASE calls[i].byPhone
  <2>1. HandleNextState(calls, out, i, "INCOMING", "ANSWERED")
    BY <1>1 DEF NotifyAnswered
  <2>2. SkipsStateMachine(calls, i, "INCOMING", "ANSWERED")
    BY <1>1 DEF SkipsStateMachine
  <2>3. /\ notify' = [phase |-> "FRONT", call |-> i, prior |-> "INCOMING", next |-> "ANSWERED"]
        /\ calls' = calls /\ sets' = DeleteCall(sets, i, "INCOMING")
        /\ odd \subseteq odd' /\ odd' \subseteq odd \cup {"overlap", "behind"}
        /\ UNCHANGED <<scene, queue, out>>
    BY <2>1, <2>2 DEF HandleNextState, Overlap
  <2> QED BY <1>1, <2>3, NotifyTypes DEF NotifyAnswered, NotifierFree, TypeOK, Odd
<1>2. CASE ~calls[i].byPhone
  BY <1>2, NotifyTypes DEF NotifyAnswered, NotifierFree, PreHandleAnswerdState, TypeOK, Odd
<1> QED BY <1>1, <1>2

\* The rest of the first one.
LEMMA MutesIs ==
    ASSUME TypeOK, AnswerMutesRinger
    PROVE  /\ Muting /\ notify.call \in Calls
           /\ notify' \in Notifications
           /\ notify'.phase = "PRIOR" /\ notify'.call = notify.call
           /\ notify'.prior = notify.prior /\ notify'.next = notify.next
           /\ sets' = AddCall(sets, notify.call, "ANSWERED")
           /\ queue' = queue \o NextEvent(notify.call, "ANSWERED")
           /\ out' \in OutTypes
           /\ out'.ring = "STOPPED" <=> out.ring = "STOPPED"
           /\ out'.ring = "RINGING" => out.ring = "RINGING" /\ notify.phase = "NOTE"
           /\ out'.tone \in {out.tone, "STOPPED"} /\ out'.conflict = out.conflict
           /\ out'.due = out.due /\ out'.playing = out.playing
           /\ out.needMute \subseteq out'.needMute
           /\ notify.phase = "NOTE" /\ Ringing(calls) # {} => RingingCall(calls) \in out'.needMute
           /\ notify.phase = "NOTE" /\ out.ring = "RINGING" /\ out.playing = {} => "crossed" \in odd'
           /\ odd \subseteq odd' /\ odd' \subseteq Odd
           /\ UNCHANGED <<calls, answering, scene>>
<1> DEFINE idle == notify.phase = "NOTE"
<1>1. out' = MuteRinger(out, calls, idle) /\ idle \in BOOLEAN
  BY DEF AnswerMutesRinger
<1>2. /\ out' \in OutTypes
      /\ out'.ring = "STOPPED" <=> out.ring = "STOPPED"
      /\ out'.ring = "RINGING" => out.ring = "RINGING" /\ idle
      /\ out'.tone \in {out.tone, "STOPPED"} /\ out'.conflict = out.conflict
      /\ out'.due = out.due /\ out'.playing = out.playing
      /\ out.needMute \subseteq out'.needMute
      /\ idle /\ Ringing(calls) # {} => RingingCall(calls) \in out'.needMute
  <2>1. calls \in CallTypes /\ out \in OutTypes
    BY DEF TypeOK, CallTypes, OutTypes
  <2> HIDE DEF idle
  <2> QED BY <1>1, <2>1, RingerMutes
<1>3. /\ Muting /\ notify' = [notify EXCEPT !.phase = "PRIOR"] /\ notify \in Notifications
  BY NotifyTypes DEF AnswerMutesRinger, Muting
<1>4. /\ notify' \in Notifications /\ notify.call \in Calls
      /\ notify'.phase = "PRIOR" /\ notify'.call = notify.call
      /\ notify'.prior = notify.prior /\ notify'.next = notify.next
  BY <1>3 DEF Notifications
<1>5. /\ odd \subseteq odd' /\ odd' \subseteq Odd
      /\ idle /\ out.ring = "RINGING" /\ out.playing = {} => "crossed" \in odd'
  BY DEF AnswerMutesRinger, Overlap, TypeOK, Odd
<1> QED BY <1>2, <1>3, <1>4, <1>5 DEF AnswerMutesRinger

-----------------------------------------------------------------------------
(* The inductive invariant *)

Turning(i) == notify.phase = "PRIOR" /\ notify.call = i
Answering(i) == Muting /\ notify.call = i

\* A call nothing has been reported of is nowhere.
Unborn ==
    \A i \in Calls : calls[i].tel = "NONE" =>
        /\ ~calls[i].byPhone /\ i \notin answering /\ \A g \in Groups : i \notin sets[g]
        /\ notify.phase # "IDLE" => notify.call # i

\* A call is in the set of its state; one answered and not connected is in the
\* active set, or about to be put there, and no answered call is left in the incoming set.
Placed ==
    \A i \in Calls :
        /\ calls[i].tel \in GroupStates =>
              \/ i \in sets[GroupOf[calls[i].tel]]
              \/ calls[i].byPhone /\ i \in sets["active"]
              \/ Answering(i)
        /\ calls[i].byPhone => i \notin sets["incoming"]
        /\ calls[i].byPhone /\ calls[i].tel \in RingStates => i \in sets["active"] \/ Answering(i)

\* It is in no other set, but for the one it is about to be taken out of.
Nowhere ==
    "stale" \notin odd => \A i \in Calls, g \in Groups : i \in sets[g] =>
        \/ calls[i].tel \in GroupStates /\ g = GroupOf[calls[i].tel]
        \/ calls[i].byPhone /\ calls[i].tel \in RingStates /\ g = "active"
        \/ Turning(i) /\ notify.prior \in GroupStates /\ g = GroupOf[notify.prior]

\* What is known of the call a notification is about.
Notified ==
    notify.phase # "IDLE" =>
        LET i == notify.call
        IN /\ Muting => notify.next = "ANSWERED" /\ ("stale" \notin odd => calls[i].tel \in RingStates)
           /\ notify.next = "ANSWERED" => notify.prior = "INCOMING"
           /\ notify.next = "ANSWERED" /\ notify.phase # "FRONT" => calls[i].byPhone
           /\ notify.next # "ANSWERED" => calls[i].tel = notify.next
           /\ notify.phase = "PRIOR" /\ notify.next # "ANSWERED" =>
                 /\ notify.next # notify.prior /\ notify.next \notin RingStates
                 /\ notify.next \in GroupStates => i \in sets[GroupOf[notify.next]]

SetsInv == Unborn /\ Placed /\ Nowhere /\ Notified

Later(k, e) == \E l \in 1..Len(queue) : l > k /\ queue[l] = e

\* Somebody still rings, or a queued event will say that nobody does.
RingCause ==
    \/ sets["incoming"] # {}
    \/ (Muting \/ notify.phase = "PRIOR") /\ notify.prior \in RingStates
RingPending(k) == RingCause \/ Later(k, "NO_MORE_INCOMING")
AlertPending(k) == sets["alerting"] # {} \/ Later(k, "NO_MORE_ALERTING")

\* Whatever sounds or is about to sound has a cause that is there or an event that
\* will end it; nobody notifies while the notifier is about to ring.
SoundInv ==
    /\ out.ring # "STOPPED" /\ "late" \notin odd => RingPending(0)
    /\ "queue" \in out.due => RingPending(0)
    /\ "notifier" \in out.due => notify.phase = "IDLE" /\ sets["incoming"] # {}
    /\ out.tone = "WAITING" => RingPending(0)
    /\ out.tone = "RINGBACK" => AlertPending(0)
    /\ \A k \in 1..Len(queue) :
          /\ queue[k] = "NEW_INCOMING" => RingPending(k)
          /\ queue[k] = "SWITCH_ALERTING" => AlertPending(k)

TwoCalls == \E i, j \in Calls : i # j /\ calls[i].tel # "NONE" /\ calls[j].tel # "NONE"

\* With one call only the audio queue rings, and it starts on a ringer at rest.
OneRinger ==
    TwoCalls \/ /\ ~out.conflict /\ \A i \in Calls : calls[i].tel # "WAITING"
                /\ Ringers(out) \subseteq {"queue"}
                /\ "queue" \in out.due => out.ring = "STOPPED" /\ out.playing = {}

AloneAnswered(i) ==
    /\ calls[i].byPhone /\ Ringing(calls) = {i}
    /\ \A j \in Calls \ {i} : calls[j].tel = "NONE"

\* A ring that is decided on, or has begun and has not been looked after, will find
\* the note of an answered call.
NoteLeft(i) ==
    /\ "queue" \in out.due => i \in out.needMute \/ notify.phase = "NOTE"
    /\ ~Muting /\ out.ring = "RINGING" => "queue" \in out.playing /\ i \in out.needMute
NoteInv == \A i \in Calls : AloneAnswered(i) /\ "crossed" \notin odd => NoteLeft(i)

MuteInv == OneRinger /\ NoteInv

AudioInv == TypeOK /\ SetsInv /\ SoundInv /\ MuteInv
-----------------------------------------------------------------------------
(* What the other steps do *)

\* The parts of the type invariant the effects need.
LEMMA Typed ==
    ASSUME TypeOK
    PROVE  calls \in CallTypes /\ sets \in SetTypes /\ out \in OutTypes
  BY DEF TypeOK, CallTypes, SetTypes, OutTypes

\* What HandlePriorState does, without the details of the sets.
LEMMA PriorIs ==
    ASSUME TypeOK, HandlePriorState
    PROVE  LET s == DeleteCall(sets, notify.call, notify.prior)
           IN /\ notify.phase = "PRIOR" /\ notify.call \in Calls /\ notify.prior \in TelStates
              /\ notify' = [notify EXCEPT !.phase = "FRONT"]
              /\ notify' \in Notifications
              /\ s \in SetTypes /\ sets' = s
              /\ queue' = queue \o PriorEvent(s, notify.prior)
              /\ out' \in OutTypes /\ out'.tone = out.tone /\ SameRinger(out', out)
              /\ UNCHANGED <<calls, answering, scene, odd>>
<1>1. notify \in Notifications /\ notify.phase = "PRIOR"
  BY NotifyTypes DEF HandlePriorState
<1>2. notify' = [notify EXCEPT !.phase = "FRONT"] /\ notify' \in Notifications
      /\ notify.call \in Calls /\ notify.prior \in TelStates
  BY <1>1 DEF HandlePriorState, Notifications
<1>3. DeleteCall(sets, notify.call, notify.prior) \in SetTypes
  BY <1>2, Typed, SetsChange
<1>4. out' = out \/ out' = ProcessAudioWhenCallActive(out, calls, notify.call)
  BY DEF HandlePriorState
<1>5. out' \in OutTypes /\ out'.tone = out.tone /\ SameRinger(out', out)
  <2>1. SameRinger(out, out)
    BY DEF SameRinger
  <2> QED BY <1>4, <2>1, Typed, ActiveSounds
<1> QED BY <1>1, <1>2, <1>3, <1>5 DEF HandlePriorState

\* What the end of a notification does.
LEMMA FinishIs ==
    ASSUME TypeOK, FinishNotify
    PROVE  /\ notify.phase = "FRONT" /\ notify' = Idle /\ notify'.phase = "IDLE" /\ notify.call \in Calls
           /\ \/ notify.next = "DISCONNECTED"
                 /\ calls' = [calls EXCEPT ![notify.call] = NewCall("DISCONNECTED")]
              \/ notify.next # "DISCONNECTED" /\ calls' = calls
           /\ out' \in OutTypes /\ out'.ring = out.ring /\ out'.playing = out.playing
           /\ out'.needMute = out.needMute
           /\ out'.tone \in {out.tone, "STOPPED"} /\ (out'.conflict => out.conflict)
           /\ \/ out'.due = out.due
              \/ /\ out'.due = out.due \cup {"notifier"} /\ sets["incoming"] # {}
                 /\ \E i \in Calls : calls[i].tel = "WAITING"
           /\ UNCHANGED <<sets, answering, scene, queue, odd>>
<1> DEFINE o == IF /\ notify.prior = "INCOMING" /\ notify.next # "INCOMING"
                   /\ sets["incoming"] = {}
                THEN [out EXCEPT !.conflict = FALSE] ELSE out
           p == UpdateForegroundLiveCall(o, sets, calls)
<1>1. /\ o \in OutTypes /\ o.ring = out.ring /\ o.tone = out.tone /\ o.due = out.due
      /\ o.playing = out.playing /\ o.needMute = out.needMute /\ (o.conflict => out.conflict)
  BY Typed DEF OutTypes
<1>2. out' = p
  BY DEF FinishNotify
<1> HIDE DEF o
<1>3. /\ p \in OutTypes /\ p.ring = o.ring /\ p.playing = o.playing /\ p.needMute = o.needMute
      /\ p.tone \in {o.tone, "STOPPED"} /\ p.conflict = o.conflict
      /\ \/ p.due = o.due
         \/ /\ p.due = o.due \cup {"notifier"} /\ sets["incoming"] # {}
            /\ \E i \in Calls : calls[i].tel = "WAITING"
  BY <1>1, Typed, ForegroundRings
<1> HIDE DEF p
<1>5. notify.phase = "FRONT" /\ notify.call \in Calls
  <2>1. notify.phase = "FRONT"
    BY DEF FinishNotify
  <2> QED BY <2>1, NotifyTypes DEF Notifications
<1>6. Idle.phase = "IDLE"
  BY DEF Idle
<1> QED BY <1>1, <1>2, <1>3, <1>5, <1>6 DEF FinishNotify

\* What one event of the scene machine does.
LEMMA EventIs ==
    ASSUME TypeOK, ProcessEventInner
    PROVE  /\ queue # <<>> /\ Head(queue) \in Events /\ EffectOf(out, sets, Head(queue), out')
           /\ "queue" \notin Ringers(out)
           /\ \E q : AtMost(q, sets) /\ queue' = Tail(queue) \o q
           /\ scene' \in Scenes
           /\ UNCHANGED <<calls, sets, notify, answering, odd>>
<1>1. queue # <<>> /\ Head(queue) \in Events
  BY DEF ProcessEventInner, TypeOK
<1>2. EffectOf(out, sets, Head(queue), out')
  BY <1>1, Typed, Effects DEF ProcessEventInner
<1>3. scene' \in Scenes
  BY SceneTable DEF ProcessEventInner, TypeOK
<1> QED BY <1>1, <1>2, <1>3, SceneEvents DEF ProcessEventInner

\* What the start of a ring does.
LEMMA StartIs ==
    ASSUME TypeOK, NEW th \in Threads, StartRing(th)
    PROVE  /\ th \in {"queue", "notifier"} \cap out.due /\ out' \in OutTypes
           /\ out'.tone = out.tone /\ out'.conflict = out.conflict /\ out'.needMute = out.needMute
           /\ \/ /\ out.conflict /\ out'.due = (out.due \ {th}) \cup {"retry"}
                 /\ out'.ring = out.ring /\ out'.playing = out.playing
              \/ /\ ~out.conflict /\ out'.due = out.due \ {th}
                 /\ out'.ring = "RINGING" /\ out'.playing = out.playing \cup {th}
           /\ UNCHANGED <<calls, sets, notify, answering, scene, queue, odd>>
<1>1. CASE out.conflict
  <2>1. out' = [out EXCEPT !.due = (@ \ {th}) \cup {"retry"}]
    BY <1>1 DEF StartRing
  <2>2. (out.due \ {th}) \cup {"retry"} \in SUBSET Threads
    BY Typed DEF OutTypes, Threads
  <2> QED BY <1>1, <2>1, <2>2, Typed DEF StartRing, OutTypes
<1>2. CASE ~out.conflict
  <2>1. out' = PlayRing(out, th)
    BY <1>2 DEF StartRing
  <2> QED BY <1>2, <2>1, Typed, RingPlays DEF StartRing
<1> QED BY <1>1, <1>2

\* What the delayed ringtone does.
LEMMA RetryIs ==
    ASSUME TypeOK, RetryRing
    PROVE  /\ "retry" \in out.due /\ out' \in OutTypes
           /\ out'.tone = out.tone /\ out'.conflict = out.conflict /\ out'.needMute = out.needMute
           /\ out'.due = out.due \ {"retry"}
           /\ \/ out'.ring = out.ring /\ out'.playing = out.playing
              \/ /\ out'.ring = "RINGING" /\ out'.playing = out.playing \cup {"retry"}
                 /\ sets["incoming"] = {} => "late" \in odd'
           /\ odd \subseteq odd' /\ odd' \subseteq Odd
           /\ UNCHANGED <<calls, sets, notify, answering, scene, queue>>
<1>0. "retry" \in Threads /\ out \in OutTypes
  BY Typed DEF Threads
<1>1. CASE out' = PlayRing(out, "retry")
  BY <1>0, <1>1, RingPlays DEF RetryRing, TypeOK, Odd
<1>2. CASE out' = [out EXCEPT !.due = @ \ {"retry"}] /\ UNCHANGED odd
  <2>1. out.due \ {"retry"} \in SUBSET Threads
    BY <1>0 DEF OutTypes
  <2> QED BY <1>0, <1>2, <2>1 DEF RetryRing, OutTypes, TypeOK
<1> QED BY <1>1, <1>2 DEF RetryRing

\* What the look for a note does.
LEMMA PostIs ==
    ASSUME TypeOK, NEW th \in Threads, PostProcessRingtone(th)
    PROVE  /\ th \in out.playing /\ out' \in OutTypes
           /\ out'.ring \in {out.ring, "STOPPED"} \/ (out'.ring = "MUTED" /\ out.ring # "STOPPED")
           /\ out'.tone = out.tone /\ out'.conflict = out.conflict
           /\ out'.due = out.due /\ out'.playing = out.playing \ {th}
           /\ RingingCall(calls) # NoCall /\ RingingCall(calls) \in out.needMute => out'.ring # "RINGING"
           /\ UNCHANGED <<calls, sets, notify, answering, scene, queue, odd>>
<1> DEFINE o == [out EXCEPT !.playing = @ \ {th}]
<1>1. /\ o \in OutTypes /\ o.ring = out.ring /\ o.tone = out.tone /\ o.conflict = out.conflict
      /\ o.due = out.due /\ o.playing = out.playing \ {th} /\ o.needMute = out.needMute
  <2>1. out.playing \ {th} \in SUBSET Threads
    BY Typed DEF OutTypes
  <2> QED BY <2>1, Typed DEF OutTypes
<1>2. out' = PostProcess(o, calls)
  BY DEF PostProcessRingtone
<1> HIDE DEF o
<1>3. /\ out' \in OutTypes
      /\ out'.ring \in {o.ring, "STOPPED"} \/ (out'.ring = "MUTED" /\ o.ring # "STOPPED")
      /\ out'.tone = o.tone /\ out'.conflict = o.conflict
      /\ out'.due = o.due /\ out'.playing = o.playing
      /\ RingingCall(calls) # NoCall /\ RingingCall(calls) \in o.needMute => out'.ring # "RINGING"
  BY <1>1, <1>2, Typed, RingIsProcessed
<1>4. th \in out.playing /\ UNCHANGED <<calls, sets, notify, answering, scene, queue, odd>>
  BY DEF PostProcessRingtone
<1> QED BY <1>1, <1>3, <1>4

\* What SetLocalRingbackNeeded does.
LEMMA RingbackIs ==
    ASSUME TypeOK, NEW b \in BOOLEAN, SetLocalRingbackNeeded(b)
    PROVE  /\ out' \in OutTypes /\ out'.tone \in {out.tone, "STOPPED"} /\ SameRinger(out', out)
           /\ UNCHANGED <<calls, sets, notify, answering, scene, queue, odd>>
<1>1. StopRingback(out) \in OutTypes /\ StopRingback(out).tone \in {out.tone, "STOPPED"}
      /\ SameRinger(StopRingback(out), out)
  BY Typed DEF StopRingback, StopCallTone, OutTypes, SameRinger
<1> DEFINE o == IF out.ringback /\ ~b THEN StopRingback(out) ELSE out
<1>2. o \in OutTypes /\ o.tone \in {out.tone, "STOPPED"} /\ SameRinger(o, out)
  BY <1>1, Typed DEF SameRinger
<1>3. out' = [o EXCEPT !.ringback = b]
  BY DEF SetLocalRingbackNeeded
<1> HIDE DEF o
<1>4. out' \in OutTypes /\ out'.tone \in {out.tone, "STOPPED"} /\ SameRinger(out', out)
  BY <1>2, <1>3 DEF OutTypes, SameRinger
<1> QED BY <1>4 DEF SetLocalRingbackNeeded

\* What a client that mutes the ringer does.
LEMMA UserMutesIs ==
    ASSUME TypeOK, UserMutesRinger
    PROVE  /\ out' \in OutTypes /\ (out'.ring = "STOPPED" <=> out.ring = "STOPPED")
           /\ out'.ring = "RINGING" => out.ring = "RINGING"
           /\ out'.tone \in {out.tone, "STOPPED"} /\ out'.conflict = out.conflict
           /\ out'.due = out.due /\ out'.playing = out.playing
           /\ out.needMute \subseteq out'.needMute
           /\ UNCHANGED <<calls, sets, notify, answering, scene, queue, odd>>
<1>1. PICK idle \in BOOLEAN : out' = MuteRinger(out, calls, idle)
  BY DEF UserMutesRinger
<1> QED BY <1>1, Typed, RingerMutes DEF UserMutesRinger
-----------------------------------------------------------------------------
(* Types *)

\* The types hold at the start.
LEMMA TypeInit == ASSUME Init PROVE TypeOK
  BY AudioAssumption DEF Init, TypeOK, NewCall, TelStates, Groups, Scenes

\* No step breaks them.
LEMMA TypeStep == ASSUME TypeOK, [Next]_vars PROVE TypeOK'
<1>1. ASSUME NEW i \in Calls, Report(i) PROVE TypeOK'
  <2>1. PICK next \in Reportable(i) :
              LET old == calls[i].tel
                  prior == IF old = "NONE" THEN next ELSE old
                  skip == calls[i].byPhone /\ next = "ACTIVE" /\ prior \in RingStates
                  ends == calls[i].byPhone /\ next \in EndStates
                  pre == IF ends THEN DeleteCall(sets, i, "ACTIVE") ELSE sets
              IN /\ next \in TelStates /\ prior \in TelStates
                 /\ calls' = [calls EXCEPT ![i].tel = next]
                 /\ notify' = [phase |-> IF skip \/ prior = next THEN "FRONT" ELSE "PRIOR",
                               call |-> i, prior |-> prior, next |-> next]
                 /\ sets' = IF skip THEN DeleteCall(sets, i, prior) ELSE AddCall(pre, i, next)
                 /\ queue' = IF skip THEN queue ELSE queue \o NextEvent(i, next)
                 /\ out' \in OutTypes /\ odd' \subseteq Odd
                 /\ UNCHANGED <<answering, scene>>
    BY <1>1, ReportIs
  <2>2. sets' \in SetTypes
    BY <2>1, Typed, SetsChange
  <2>3. queue' \in Seq(Events)
    BY <2>1, EventTypes DEF TypeOK
  <2>4. calls' \in CallTypes
    BY <2>1 DEF TypeOK, CallTypes
  <2> QED BY <2>1, <2>2, <2>3, <2>4 DEF TypeOK, OutTypes, SetTypes, CallTypes
<1>2. ASSUME NEW i \in Calls, NotifyAnswered(i) PROVE TypeOK'
  <2>1. sets' \in SetTypes
    BY <1>2, NotifyAnsweredIs, Typed, SetsChange
  <2>2. calls' \in CallTypes
    <3>1. calls' = calls \/ calls' = [calls EXCEPT ![i].byPhone = TRUE]
      BY <1>2, NotifyAnsweredIs
    <3>2. calls \in CallTypes
      BY Typed
    <3>3. [calls EXCEPT ![i].byPhone = TRUE] \in CallTypes
      BY <3>2 DEF CallTypes
    <3> QED BY <3>1, <3>2, <3>3
  <2>3. notify' \in Notifications
    BY <1>2, NotifyAnsweredIs DEF Notifications, TelStates
  <2>4. UNCHANGED <<scene, queue, out>> /\ answering' \subseteq answering /\ odd' \subseteq Odd
    BY <1>2, NotifyAnsweredIs
  <2> QED BY <2>1, <2>2, <2>3, <2>4 DEF TypeOK, SetTypes, CallTypes, Notifications
<1>3. ASSUME NEW i \in Calls, AnswerCall(i) PROVE TypeOK'
  BY <1>3 DEF AnswerCall, TypeOK
<1>4. CASE HandlePriorState
  <2>1. queue' \in Seq(Events)
    <3>1. PriorEvent(sets', notify.prior) \in Seq(Events)
      BY EventTypes
    <3>2. queue' = queue \o PriorEvent(sets', notify.prior) /\ queue \in Seq(Events)
      BY <1>4, PriorIs DEF TypeOK
    <3> QED BY <3>1, <3>2
  <2> QED BY <1>4, <2>1, PriorIs DEF TypeOK, SetTypes, OutTypes, Notifications
<1>5. CASE FinishNotify
  <2>1. calls' \in CallTypes
    <3>1. NewCall("DISCONNECTED") \in [tel : TelStates, byPhone : BOOLEAN]
      BY DEF NewCall, TelStates
    <3>2. calls' \in {calls, [calls EXCEPT ![notify.call] = NewCall("DISCONNECTED")]}
      BY <1>5, FinishIs
    <3> QED BY <3>1, <3>2, Typed DEF CallTypes
  <2> QED BY <1>5, <2>1, FinishIs DEF TypeOK, OutTypes, CallTypes
<1>6. CASE ProcessEventInner
  <2>1. queue' \in Seq(Events)
    <3>1. PICK q : AtMost(q, sets) /\ queue' = Tail(queue) \o q
      BY <1>6, EventIs
    <3>2. queue # <<>> /\ queue \in Seq(Events) /\ q \in Seq(Events)
      BY <1>6, <3>1, EventIs, EventTypes DEF TypeOK
    <3> QED BY <3>1, <3>2
  <2> QED BY <1>6, <2>1, EventIs DEF TypeOK, OutTypes, EffectOf
<1>7. CASE RetryRing
  BY <1>7, RetryIs DEF TypeOK, OutTypes
<1>8. ASSUME NEW b \in BOOLEAN, SetLocalRingbackNeeded(b) PROVE TypeOK'
  BY <1>8, RingbackIs DEF TypeOK, OutTypes
<1>9. CASE UserMutesRinger
  BY <1>9, UserMutesIs DEF TypeOK, OutTypes
<1>10. CASE AnswerMutesRinger
  <2>1. queue' \in Seq(Events)
    <3>1. NextEvent(notify.call, "ANSWERED") \in Seq(Events) /\ queue \in Seq(Events)
      BY EventTypes DEF TypeOK
    <3>2. queue' = queue \o NextEvent(notify.call, "ANSWERED")
      BY <1>10, MutesIs
    <3> QED BY <3>1, <3>2
  <2>2. sets' \in SetTypes
    BY <1>10, MutesIs, Typed, SetsChange
  <2>3. notify' \in Notifications /\ out' \in OutTypes /\ odd' \subseteq Odd
        /\ UNCHANGED <<calls, answering, scene>>
    BY <1>10, MutesIs
  <2> QED BY <2>1, <2>2, <2>3 DEF TypeOK, OutTypes, SetTypes, Notifications
<1>11. ASSUME NEW th \in Threads, StartRing(th) PROVE TypeOK'
  BY <1>11, StartIs DEF TypeOK, OutTypes
<1>12. ASSUME NEW th \in Threads, PostProcessRingtone(th) PROVE TypeOK'
  BY <1>12, PostIs DEF TypeOK, OutTypes
<1>13. CASE UNCHANGED vars
  BY <1>13 DEF vars, TypeOK
<1> QED BY <1>1, <1>2, <1>3, <1>4, <1>5, <1>6, <1>7, <1>8, <1>9, <1>10, <1>11, <1>12, <1>13 DEF Next
-----------------------------------------------------------------------------
(* Calls and sets *)

\* What can be reported of a new call and of one that rings.
LEMMA Reported ==
    ASSUME NEW i \in Calls, NEW next \in Reportable(i)
    PROVE  /\ calls[i].tel = "NONE" => next \in {"DIALING", "INCOMING", "WAITING"}
           /\ calls[i].tel \in RingStates => next \in {"ACTIVE"} \cup EndStates
           /\ calls[i].tel \in {"DISCONNECTING", "DISCONNECTED"} => next = "DISCONNECTED"
           /\ next \in EndStates => calls[i].tel # "NONE"
           /\ next = "WAITING" => Live(calls) # {}
  BY DEF Reportable, RingStates, EndStates

\* The sets are right at the start.
LEMMA SetsInit == ASSUME Init PROVE SetsInv
  BY DEF Init, SetsInv, Unborn, Placed, Nowhere, Notified, Idle, NewCall, GroupStates, RingStates

\* The other calls, and the sets without the call a step is about.
LEMMA OthersPlaced ==
    ASSUME TypeOK, Placed, NEW i \in Calls,
           \A j \in Calls \ {i} : calls'[j] = calls[j] /\ ~Answering(j),
           \A j \in Calls \ {i} : \A g \in Groups : j \in sets'[g] <=> j \in sets[g],
           calls'[i].tel \in GroupStates =>
              \/ i \in sets'[GroupOf[calls'[i].tel]]
              \/ calls'[i].byPhone /\ i \in sets'["active"]
              \/ Answering(i)',
           calls'[i].byPhone => i \notin sets'["incoming"],
           calls'[i].byPhone /\ calls'[i].tel \in RingStates =>
              i \in sets'["active"] \/ Answering(i)'
    PROVE  Placed'
<1> SUFFICES ASSUME NEW j \in Calls
             PROVE  /\ calls'[j].tel \in GroupStates =>
                          \/ j \in sets'[GroupOf[calls'[j].tel]]
                          \/ calls'[j].byPhone /\ j \in sets'["active"]
                          \/ Answering(j)'
                    /\ calls'[j].byPhone => j \notin sets'["incoming"]
                    /\ calls'[j].byPhone /\ calls'[j].tel \in RingStates =>
                          j \in sets'["active"] \/ Answering(j)'
  BY DEF Placed
<1>1. CASE j = i
  BY <1>1
<1>2. CASE j # i
  <2>1. {"active", "incoming"} \subseteq Groups
    BY DEF Groups
  <2>2. calls[j].tel \in GroupStates => GroupOf[calls[j].tel] \in Groups
    BY GroupTypes
  <2> QED BY <1>2, <2>1, <2>2 DEF Placed
<1> QED BY <1>1, <1>2

\* A step about one call leaves the others in no wrong set.
LEMMA OthersNowhere ==
    ASSUME TypeOK, Nowhere, odd \subseteq odd', NEW i \in Calls,
           \A j \in Calls \ {i} : calls'[j] = calls[j] /\ ~Turning(j),
           \A j \in Calls \ {i} : \A g \in Groups : j \in sets'[g] <=> j \in sets[g],
           "stale" \notin odd' => \A g \in Groups : i \in sets'[g] =>
              \/ calls'[i].tel \in GroupStates /\ g = GroupOf[calls'[i].tel]
              \/ calls'[i].byPhone /\ calls'[i].tel \in RingStates /\ g = "active"
              \/ notify'.phase = "PRIOR" /\ notify'.call = i
                 /\ notify'.prior \in GroupStates /\ g = GroupOf[notify'.prior]
    PROVE  Nowhere'
<1> SUFFICES ASSUME "stale" \notin odd', NEW j \in Calls, NEW g \in Groups, j \in sets'[g]
             PROVE  \/ calls'[j].tel \in GroupStates /\ g = GroupOf[calls'[j].tel]
                    \/ calls'[j].byPhone /\ calls'[j].tel \in RingStates /\ g = "active"
                    \/ notify'.phase = "PRIOR" /\ notify'.call = j
                       /\ notify'.prior \in GroupStates /\ g = GroupOf[notify'.prior]
  BY DEF Nowhere, Turning
<1>1. CASE j = i
  BY <1>1
<1>2. CASE j # i
  <2>1. "stale" \notin odd /\ j \in sets[g] /\ calls'[j] = calls[j] /\ ~Turning(j)
    BY <1>2
  <2> QED BY <2>1 DEF Nowhere
<1> QED BY <1>1, <1>2

\* Nothing happens to calls, sets and the notification.
LEMMA SetsStutter ==
    ASSUME TypeOK, SetsInv, UNCHANGED <<calls, sets, notify>>, odd \subseteq odd',
           answering' \subseteq answering \cup Ringing(calls)
    PROVE  SetsInv'
<1>1. Unborn'
  BY DEF SetsInv, Unborn, Ringing
<1>2. Placed'
  BY DEF SetsInv, Placed, Answering, Muting
<1>3. Nowhere'
  BY DEF SetsInv, Nowhere, Turning
<1>4. Notified'
  BY DEF SetsInv, Notified, Muting
<1> QED BY <1>1, <1>2, <1>3, <1>4 DEF SetsInv

\* A report keeps the sets right.
LEMMA ReportSets == ASSUME TypeOK, SetsInv, NEW i \in Calls, Report(i) PROVE SetsInv'
<1>1. PICK next \in Reportable(i) :
          LET old == calls[i].tel
              prior == IF old = "NONE" THEN next ELSE old
              skip == calls[i].byPhone /\ next = "ACTIVE" /\ prior \in RingStates
              ends == calls[i].byPhone /\ next \in EndStates
              pre == IF ends THEN DeleteCall(sets, i, "ACTIVE") ELSE sets
          IN /\ notify.phase = "IDLE"
             /\ next \in TelStates \ {"NONE"} /\ prior \in TelStates
             /\ old # "NONE" => next # old /\ next \notin RingStates
             /\ calls' = [calls EXCEPT ![i].tel = next]
             /\ notify' = [phase |-> IF skip \/ prior = next THEN "FRONT" ELSE "PRIOR",
                           call |-> i, prior |-> prior, next |-> next]
             /\ sets' = IF skip THEN DeleteCall(sets, i, prior) ELSE AddCall(pre, i, next)
             /\ odd \subseteq odd' /\ UNCHANGED answering
  BY ReportIs
<1> DEFINE old == calls[i].tel
           prior == IF old = "NONE" THEN next ELSE old
           skip == calls[i].byPhone /\ next = "ACTIVE" /\ prior \in RingStates
           ends == calls[i].byPhone /\ next \in EndStates
           pre == IF ends THEN DeleteCall(sets, i, "ACTIVE") ELSE sets
<1>2. calls \in CallTypes /\ sets \in SetTypes
  BY Typed
<1>3. /\ calls'[i].tel = next /\ calls'[i].byPhone = calls[i].byPhone
      /\ \A j \in Calls \ {i} : calls'[j] = calls[j]
  BY <1>1, <1>2 DEF CallTypes
<1>4. /\ notify'.phase = (IF skip \/ prior = next THEN "FRONT" ELSE "PRIOR") /\ notify'.call = i
      /\ notify'.prior = prior /\ notify'.next = next /\ next # "ANSWERED"
      /\ prior \in TelStates /\ next \in TelStates
  BY <1>1 DEF TelStates
<1>5. /\ pre \in SetTypes
      /\ \A g \in Groups : \A j : j \in pre[g] <=> j \in sets[g] /\ ~(ends /\ j = i /\ g = "active")
  <2>1. "ACTIVE" \in GroupStates \ {"ANSWERED"} /\ GroupOf["ACTIVE"] = "active"
    BY GroupTable DEF GroupStates
  <2>2. /\ DeleteCall(sets, i, "ACTIVE") \in SetTypes
        /\ \A g \in Groups : \A j : j \in DeleteCall(sets, i, "ACTIVE")[g] <=>
              j \in sets[g] /\ ~(j = i /\ g = "active")
    BY <1>2, <2>1, SetsChange
  <2> QED BY <1>2, <2>2
<1>6. /\ skip => \A g \in Groups : \A j : j \in sets'[g] <=> j \in sets[g] /\ ~(j = i /\ g = GroupOf[prior])
      /\ ~skip => \A g \in Groups : \A j : j \in sets'[g] <=>
            \/ j \in pre[g]
            \/ j = i /\ next \in GroupStates /\ g = GroupOf[next]
  <2>1. CASE skip
    <3>1. sets' = DeleteCall(sets, i, prior) /\ prior \in GroupStates \ {"ANSWERED"}
      BY <1>1, <2>1 DEF RingStates, GroupStates
    <3> HIDE DEF prior
    <3>2. \A g \in Groups : \A j : j \in sets'[g] <=> j \in sets[g] /\ ~(j = i /\ g = GroupOf[prior])
      BY <1>2, <3>1, SetsChange
    <3> HIDE DEF skip
    <3> QED BY <2>1, <3>2
  <2>2. CASE ~skip
    <3>1. sets' = AddCall(pre, i, next)
      BY <1>1, <2>2
    <3> HIDE DEF pre, skip
    <3>2. \A g \in Groups : \A j : j \in sets'[g] <=>
            \/ j \in pre[g]
            \/ j = i /\ next \in GroupStates /\ g = GroupOf[next]
      BY <1>5, <3>1, SetsChange
    <3> QED BY <2>2, <3>2
  <2> QED BY <2>1, <2>2
<1>7. \A j \in Calls \ {i} : \A g \in Groups : j \in sets'[g] <=> j \in sets[g]
  BY <1>5, <1>6
<1>8. /\ \A j \in Calls : ~Turning(j) /\ ~Answering(j)
      /\ \A g \in Groups : "stale" \notin odd /\ i \in sets[g] =>
            \/ old \in GroupStates /\ g = GroupOf[old]
            \/ calls[i].byPhone /\ old \in RingStates /\ g = "active"
  BY <1>1 DEF SetsInv, Nowhere, Turning, Answering, Muting
<1>9. /\ old = "NONE" => ~calls[i].byPhone /\ \A g \in Groups : i \notin sets[g]
      /\ calls[i].byPhone => i \notin sets["incoming"]
      /\ calls[i].byPhone /\ old \in RingStates => i \in sets["active"]
  BY <1>8 DEF SetsInv, Unborn, Placed
<1>10. /\ old = "NONE" => next \in {"DIALING", "INCOMING", "WAITING"}
       /\ old \in RingStates => next \in {"ACTIVE"} \cup EndStates
       /\ old # "NONE" => prior = old /\ next # old /\ next \notin RingStates
       /\ old = "NONE" => prior = next
  BY <1>1, Reported
<1> HIDE DEF pre
<1>11. Unborn'
  <2>1. \A g \in Groups : \A j \in Calls \ {i} : j \in sets'[g] <=> j \in sets[g]
    BY <1>7
  <2> QED BY <1>1, <1>3, <1>4, <2>1 DEF SetsInv, Unborn
<1>12. Placed'
  <2>1. next \in GroupStates =>
            \/ i \in sets'[GroupOf[next]]
            \/ calls[i].byPhone /\ i \in sets'["active"]
    <3>1. CASE skip
      <4>1. old \in RingStates /\ prior = old
        BY <1>9, <3>1, <1>10
      <4>2. GroupOf[prior] = "incoming" /\ "active" \in Groups
        BY <4>1, GroupTable DEF RingStates, Groups
      <4>3. i \in sets["active"] /\ i \in sets'["active"] /\ calls[i].byPhone
        BY <1>6, <1>9, <3>1, <4>1, <4>2
      <4> QED BY <4>3
    <3>2. CASE ~skip
      BY <1>6, <3>2, GroupTypes
    <3> QED BY <3>1, <3>2
  <2>2. calls[i].byPhone => i \notin sets'["incoming"]
    <3> SUFFICES ASSUME calls[i].byPhone PROVE i \notin sets'["incoming"]
      OBVIOUS
    <3>1. next \notin RingStates /\ i \notin sets["incoming"] /\ "incoming" \in Groups
      BY <1>9, <1>10 DEF Groups
    <3>2. next \in GroupStates => GroupOf[next] # "incoming"
      BY <3>1, <1>4, GroupTable DEF GroupStates, RingStates
    <3> QED BY <1>5, <1>6, <3>1, <3>2
  <2>3. calls[i].byPhone /\ next \in RingStates => i \in sets'["active"]
    BY <1>9, <1>10
  <2> HIDE DEF skip, ends, prior
  <2> QED BY <1>3, <1>7, <1>8, <2>1, <2>2, <2>3, OthersPlaced DEF SetsInv
<1>13. Nowhere'
  <2>1. ASSUME "stale" \notin odd', NEW g \in Groups, i \in sets'[g]
        PROVE  \/ next \in GroupStates /\ g = GroupOf[next]
               \/ calls[i].byPhone /\ next \in RingStates /\ g = "active"
               \/ notify'.phase = "PRIOR" /\ notify'.call = i
                  /\ notify'.prior \in GroupStates /\ g = GroupOf[notify'.prior]
    <3>0. "stale" \notin odd
      BY <1>1, <2>1
    <3>1. CASE old = "NONE"
      BY <1>5, <1>6, <1>9, <2>1, <3>1
    <3>2. CASE old # "NONE" /\ skip
      <4>1. old \in RingStates /\ prior = old /\ next = "ACTIVE"
        BY <3>2, <1>10
      <4>2. GroupOf[prior] = "incoming" /\ GroupOf[old] = "incoming" /\ GroupOf[next] = "active"
            /\ next \in GroupStates
        BY <4>1, GroupTable DEF RingStates, GroupStates
      <4>3. i \in sets[g] /\ g # "incoming"
        BY <1>6, <2>1, <3>2, <4>2
      <4> QED BY <1>8, <3>0, <4>2, <4>3
    <3>3. CASE old # "NONE" /\ ~skip
      <4>1. prior = old /\ next # old /\ next \notin RingStates /\ notify'.phase = "PRIOR"
        BY <1>4, <1>10, <3>3
      <4>2. CASE next \in GroupStates /\ g = GroupOf[next]
        BY <4>2
      <4>3. CASE ~(next \in GroupStates /\ g = GroupOf[next])
        <5>1. i \in sets[g] /\ ~(ends /\ g = "active")
          BY <1>5, <1>6, <2>1, <3>3, <4>3
        <5>2. CASE old \in GroupStates /\ g = GroupOf[old]
          BY <1>4, <4>1, <5>2
        <5>3. CASE calls[i].byPhone /\ old \in RingStates /\ g = "active"
          BY <1>10, <3>3, <4>1, <5>1, <5>3
        <5> QED BY <1>8, <3>0, <5>1, <5>2, <5>3
      <4> QED BY <4>2, <4>3
    <3> QED BY <3>1, <3>2, <3>3
  <2> HIDE DEF skip, ends, prior
  <2> QED BY <1>1, <1>3, <1>7, <1>8, <2>1, OthersNowhere DEF SetsInv
<1>14. Notified'
  <2>1. ASSUME notify'.phase = "PRIOR"
        PROVE  /\ next # prior /\ next \notin RingStates
               /\ next \in GroupStates => i \in sets'[GroupOf[next]]
    <3>1. ~skip /\ prior # next
      BY <1>4, <2>1
    <3> QED BY <1>6, <1>10, <3>1, GroupTypes
  <2> HIDE DEF skip, ends, prior
  <2>2. ~Muting'
    BY <1>4 DEF Muting
  <2> QED BY <1>3, <1>4, <2>1, <2>2 DEF Notified
<1> QED BY <1>11, <1>12, <1>13, <1>14 DEF SetsInv

\* So does the ANSWERED notification of the client thread, in both of its halves.
LEMMA AnsweredSets == ASSUME TypeOK, SetsInv, NEW i \in Calls, NotifyAnswered(i) PROVE SetsInv'
<1>1. /\ notify.phase = "IDLE" /\ i \in answering /\ answering' = answering \ {i}
      /\ notify' = [phase |-> IF calls[i].byPhone THEN "FRONT"
                              ELSE IF out.ring = "STOPPED" THEN "NOTE" ELSE "MUTE",
                    call |-> i, prior |-> "INCOMING", next |-> "ANSWERED"]
      /\ calls' = IF calls[i].byPhone THEN calls ELSE [calls EXCEPT ![i].byPhone = TRUE]
      /\ sets' = DeleteCall(sets, i, "INCOMING")
      /\ odd \subseteq odd' /\ (~calls[i].byPhone /\ i \notin Ringing(calls) => "stale" \in odd')
  BY NotifyAnsweredIs
<1>2. calls \in CallTypes /\ sets \in SetTypes /\ {"active", "incoming"} \subseteq Groups
  BY Typed DEF Groups
<1>3. /\ calls'[i].tel = calls[i].tel /\ calls'[i].byPhone
      /\ \A j \in Calls \ {i} : calls'[j] = calls[j]
  BY <1>1, <1>2 DEF CallTypes
<1>4. \A g \in Groups : \A j : j \in sets'[g] <=> j \in sets[g] /\ ~(j = i /\ g = "incoming")
  <2>1. "INCOMING" \in GroupStates \ {"ANSWERED"} /\ GroupOf["INCOMING"] = "incoming"
    BY GroupTable DEF GroupStates
  <2> QED BY <1>1, <1>2, <2>1, SetsChange
<1>5. /\ ~calls[i].byPhone => Answering(i)'
      /\ calls[i].byPhone => ~Muting'
      /\ notify'.phase # "PRIOR" /\ notify'.phase # "IDLE" /\ notify'.call = i
      /\ notify'.prior = "INCOMING" /\ notify'.next = "ANSWERED"
  BY <1>1 DEF Answering, Muting
<1>6. \A j \in Calls \ {i} : \A g \in Groups : j \in sets'[g] <=> j \in sets[g]
  BY <1>4
<1>7. /\ \A j \in Calls : ~Turning(j) /\ ~Answering(j)
      /\ calls[i].byPhone => i \notin sets["incoming"]
      /\ calls[i].tel # "NONE"
  BY <1>1 DEF SetsInv, Placed, Unborn, Turning, Answering, Muting
<1>8. Unborn'
  BY <1>1, <1>3, <1>5, <1>6, <1>7 DEF SetsInv, Unborn
<1>9. Placed'
  <2>1. i \notin sets'["incoming"]
    BY <1>2, <1>4
  <2>2. CASE ~calls[i].byPhone
    BY <1>3, <1>5, <1>6, <1>7, <2>1, <2>2, OthersPlaced DEF SetsInv
  <2>3. CASE calls[i].byPhone
    <3>1. \A g \in Groups : i \in sets'[g] <=> i \in sets[g]
      BY <1>4, <1>7, <2>3
    <3>2. /\ calls[i].tel \in RingStates => i \in sets["active"]
          /\ calls[i].tel \in GroupStates =>
                \/ i \in sets[GroupOf[calls[i].tel]]
                \/ calls[i].byPhone /\ i \in sets["active"]
      BY <1>7, <2>3 DEF SetsInv, Placed
    <3>3. /\ calls'[i].tel \in RingStates => i \in sets'["active"]
          /\ calls'[i].tel \in GroupStates =>
                \/ i \in sets'[GroupOf[calls'[i].tel]]
                \/ calls'[i].byPhone /\ i \in sets'["active"]
      BY <1>2, <1>3, <3>1, <3>2, GroupTypes
    <3> QED BY <1>3, <1>6, <1>7, <2>1, <3>3, OthersPlaced DEF SetsInv
  <2> QED BY <2>2, <2>3
<1>10. Nowhere'
  <2>1. ASSUME "stale" \notin odd', NEW g \in Groups, i \in sets'[g]
        PROVE  \/ calls'[i].tel \in GroupStates /\ g = GroupOf[calls'[i].tel]
               \/ calls'[i].byPhone /\ calls'[i].tel \in RingStates /\ g = "active"
    <3>1. i \in sets[g] /\ "stale" \notin odd
      BY <1>1, <1>4, <2>1
    <3> QED BY <1>3, <1>7, <3>1 DEF SetsInv, Nowhere
  <2> QED BY <1>1, <1>3, <1>6, <1>7, <2>1, OthersNowhere DEF SetsInv
<1>11. Notified'
  <2>1. Muting' /\ "stale" \notin odd' => calls'[i].tel \in RingStates
    BY <1>1, <1>3, <1>5 DEF Ringing, RingStates
  <2> QED BY <1>3, <1>5, <2>1 DEF Notified
<1> QED BY <1>8, <1>9, <1>10, <1>11 DEF SetsInv

LEMMA AnswerMutesSets == ASSUME TypeOK, SetsInv, AnswerMutesRinger PROVE SetsInv'
<1> DEFINE i == notify.call
<1>1. /\ Muting /\ i \in Calls
      /\ notify'.phase = "PRIOR" /\ notify'.call = i
      /\ notify'.prior = notify.prior /\ notify'.next = notify.next
      /\ sets' = AddCall(sets, i, "ANSWERED")
      /\ odd \subseteq odd' /\ UNCHANGED <<calls, answering>>
  BY MutesIs
<1>2. calls \in CallTypes /\ sets \in SetTypes /\ {"active", "incoming"} \subseteq Groups
  BY Typed DEF Groups
<1>3. \A g \in Groups : \A j : j \in sets'[g] <=> (j \in sets[g] \/ (j = i /\ g = "active"))
  <2>1. "ANSWERED" \in GroupStates /\ GroupOf["ANSWERED"] = "active"
    BY GroupTable DEF GroupStates
  <2> HIDE DEF i
  <2> QED BY <1>1, <1>2, <2>1, SetsChange
<1>4. notify.phase # "IDLE" /\ ~Muting'
  BY <1>1 DEF Muting
<1>5. /\ notify.next = "ANSWERED" /\ notify.prior = "INCOMING" /\ calls[i].byPhone
      /\ "stale" \notin odd => calls[i].tel \in RingStates
      /\ calls[i].tel # "NONE"
  <2>1. notify.phase # "FRONT" /\ i \in Calls
    BY <1>1 DEF Muting
  <2> QED BY <1>1, <1>4, <2>1 DEF SetsInv, Notified, Unborn
<1>6. \A j \in Calls \ {i} : ~Turning(j) /\ ~Answering(j)
  BY DEF Turning, Answering
<1>7. i \notin sets["incoming"] /\ \A j \in Calls : ~Turning(j)
  BY <1>1, <1>5 DEF SetsInv, Placed, Turning, Muting
<1> HIDE DEF i
<1>8. \A j \in Calls \ {i} : \A g \in Groups : j \in sets'[g] <=> j \in sets[g]
  BY <1>3
<1>9. Unborn'
  BY <1>1, <1>5, <1>8 DEF SetsInv, Unborn
<1>10. Placed'
  <2>1. i \notin sets'["incoming"] /\ i \in sets'["active"] /\ calls'[i].byPhone
    BY <1>1, <1>2, <1>3, <1>5, <1>7
  <2> QED BY <1>1, <1>6, <1>8, <2>1, OthersPlaced DEF SetsInv
<1>11. Nowhere'
  <2>1. ASSUME "stale" \notin odd', NEW g \in Groups, i \in sets'[g]
        PROVE  \/ calls'[i].tel \in GroupStates /\ g = GroupOf[calls'[i].tel]
               \/ calls'[i].byPhone /\ calls'[i].tel \in RingStates /\ g = "active"
    <3>1. "stale" \notin odd /\ (i \in sets[g] \/ g = "active")
      BY <1>1, <1>3, <2>1
    <3> QED BY <1>1, <1>5, <1>7, <3>1 DEF SetsInv, Nowhere
  <2> QED BY <1>1, <1>6, <1>8, <2>1, OthersNowhere DEF SetsInv
<1>12. Notified'
  BY <1>1, <1>4, <1>5 DEF Notified
<1> QED BY <1>9, <1>10, <1>11, <1>12 DEF SetsInv

\* So does HandlePriorState.
LEMMA PriorSets == ASSUME TypeOK, SetsInv, HandlePriorState PROVE SetsInv'
<1> DEFINE i == notify.call
           prior == notify.prior
<1>1. /\ notify.phase = "PRIOR" /\ i \in Calls /\ prior \in TelStates
      /\ notify' = [notify EXCEPT !.phase = "FRONT"]
      /\ sets' = DeleteCall(sets, i, prior)
      /\ UNCHANGED <<calls, answering, odd>>
  BY PriorIs
<1>2. calls \in CallTypes /\ sets \in SetTypes /\ {"active", "incoming"} \subseteq Groups
  BY Typed DEF Groups
<1>3. notify'.phase = "FRONT" /\ notify'.call = i /\ notify'.prior = prior /\ notify'.next = notify.next
  <2>1. notify \in Notifications
    BY <1>1, NotifyTypes
  <2> QED BY <1>1, <2>1 DEF Notifications
<1> HIDE DEF i, prior
<1>4. prior \in GroupStates => prior \in GroupStates \ {"ANSWERED"}
  BY <1>1 DEF TelStates
<1>5. \A g \in Groups : \A j : j \in sets'[g] <=>
          j \in sets[g] /\ ~(j = i /\ prior \in GroupStates /\ g = GroupOf[prior])
  BY <1>1, <1>2, <1>4, SetsChange
<1>6. \A j \in Calls \ {i} : \A g \in Groups : j \in sets'[g] <=> j \in sets[g]
  BY <1>5
<1>7. /\ notify.next = "ANSWERED" => prior = "INCOMING" /\ calls[i].byPhone
      /\ notify.next # "ANSWERED" =>
            /\ calls[i].tel = notify.next /\ notify.next # prior /\ notify.next \notin RingStates
            /\ notify.next \in GroupStates => i \in sets[GroupOf[notify.next]]
  BY <1>1 DEF SetsInv, Notified, i, prior
<1>8. ~Muting /\ ~Muting' /\ \A j \in Calls : ~Answering(j)
  BY <1>1, <1>3 DEF Muting, Answering
<1>9. /\ calls[i].byPhone => i \notin sets["incoming"]
      /\ calls[i].byPhone /\ calls[i].tel \in RingStates => i \in sets["active"]
      /\ calls[i].tel \in GroupStates =>
            \/ i \in sets[GroupOf[calls[i].tel]]
            \/ calls[i].byPhone /\ i \in sets["active"]
  BY <1>1, <1>8 DEF SetsInv, Placed
<1>10. Unborn'
  BY <1>1, <1>3, <1>5 DEF SetsInv, Unborn, i
<1>11. Placed'
  <2>1. calls'[i].tel \in GroupStates =>
            \/ i \in sets'[GroupOf[calls'[i].tel]]
            \/ calls'[i].byPhone /\ i \in sets'["active"]
    <3>1. CASE notify.next = "ANSWERED"
      <4>1. prior = "INCOMING" /\ GroupOf[prior] = "incoming" /\ i \notin sets["incoming"]
        BY <1>7, <1>9, <3>1, GroupTable
      <4>2. \A g \in Groups : i \in sets[g] => i \in sets'[g]
        BY <1>5, <4>1
      <4> QED BY <1>1, <1>2, <1>9, <4>2, GroupTypes
    <3>2. CASE notify.next # "ANSWERED"
      <4>1. calls'[i].tel = notify.next /\ notify.next # prior /\ notify.next \notin RingStates
        BY <1>1, <1>7, <3>2
      <4>2. prior \in GroupStates /\ notify.next \in GroupStates => GroupOf[prior] # GroupOf[notify.next]
        BY <1>1, <3>2, <4>1, GroupTable DEF GroupStates, RingStates, TelStates
      <4> QED BY <1>5, <1>7, <3>2, <4>1, <4>2, GroupTypes
    <3> QED BY <3>1, <3>2
  <2>2. calls'[i].byPhone => i \notin sets'["incoming"]
    BY <1>1, <1>2, <1>5, <1>9
  <2>3. calls'[i].byPhone /\ calls'[i].tel \in RingStates => i \in sets'["active"]
    <3> SUFFICES ASSUME calls[i].byPhone, calls[i].tel \in RingStates PROVE i \in sets'["active"]
      BY <1>1
    <3>1. prior = "INCOMING" /\ GroupOf[prior] = "incoming"
      BY <1>7, GroupTable
    <3> QED BY <1>2, <1>5, <1>9, <3>1
  <2> QED BY <1>1, <1>6, <1>8, <2>1, <2>2, <2>3, OthersPlaced DEF SetsInv
<1>12. Nowhere'
  <2>1. ASSUME "stale" \notin odd', NEW g \in Groups, i \in sets'[g]
        PROVE  \/ calls'[i].tel \in GroupStates /\ g = GroupOf[calls'[i].tel]
               \/ calls'[i].byPhone /\ calls'[i].tel \in RingStates /\ g = "active"
    <3>1. i \in sets[g] /\ ~(prior \in GroupStates /\ g = GroupOf[prior]) /\ "stale" \notin odd
      BY <1>1, <1>5, <2>1
    <3> QED BY <1>1, <3>1 DEF SetsInv, Nowhere, Turning, i, prior
  <2>2. \A j \in Calls \ {i} : ~Turning(j)
    BY DEF Turning, i
  <2> QED BY <1>1, <1>6, <2>1, <2>2, OthersNowhere DEF SetsInv
<1>13. Notified'
  BY <1>1, <1>3, <1>7, <1>8 DEF Notified
<1> QED BY <1>10, <1>11, <1>12, <1>13 DEF SetsInv

\* So does the end of a notification.
LEMMA FinishSets == ASSUME TypeOK, SetsInv, FinishNotify PROVE SetsInv'
<1> DEFINE i == notify.call
<1>1. /\ notify.phase = "FRONT" /\ notify' = Idle /\ i \in Calls
      /\ \/ notify.next = "DISCONNECTED" /\ calls' = [calls EXCEPT ![i] = NewCall("DISCONNECTED")]
         \/ notify.next # "DISCONNECTED" /\ calls' = calls
      /\ UNCHANGED <<sets, answering, odd>>
  BY FinishIs
<1>2. notify'.phase = "IDLE"
  BY <1>1 DEF Idle
<1>3. \A j \in Calls : ~Turning(j) /\ ~Answering(j)
  BY <1>1 DEF Turning, Answering, Muting
<1>4. CASE calls' = calls
  <2>1. Unborn'
    BY <1>1, <1>2, <1>4 DEF SetsInv, Unborn
  <2>2. Placed'
    BY <1>1, <1>3, <1>4 DEF SetsInv, Placed
  <2>3. Nowhere'
    BY <1>1, <1>3, <1>4 DEF SetsInv, Nowhere, Turning
  <2>4. Notified'
    BY <1>2 DEF Notified
  <2> QED BY <2>1, <2>2, <2>3, <2>4 DEF SetsInv
<1>5. CASE notify.next = "DISCONNECTED" /\ calls' = [calls EXCEPT ![i] = NewCall("DISCONNECTED")]
  <2>1. calls[i].tel = "DISCONNECTED"
    BY <1>1, <1>5 DEF SetsInv, Notified
  <2>2. /\ calls'[i].tel = "DISCONNECTED" /\ ~calls'[i].byPhone
        /\ \A j \in Calls \ {i} : calls'[j] = calls[j]
    BY <1>1, <1>5, Typed DEF CallTypes, NewCall
  <2>3. "DISCONNECTED" \notin GroupStates \cup RingStates
    BY DEF GroupStates, RingStates
  <2> HIDE DEF i
  <2>4. Unborn'
    BY <1>1, <1>2, <2>2 DEF SetsInv, Unborn
  <2>5. Placed'
    BY <1>1, <1>3, <2>2, <2>3, OthersPlaced DEF SetsInv
  <2>6. Nowhere'
    <3>1. \A g \in Groups : "stale" \notin odd => i \notin sets[g]
      BY <1>1, <1>3, <2>1, <2>3 DEF SetsInv, Nowhere
    <3> QED BY <1>1, <1>3, <2>2, <3>1, OthersNowhere DEF SetsInv
  <2>7. Notified'
    BY <1>2 DEF Notified
  <2> QED BY <2>4, <2>5, <2>6, <2>7 DEF SetsInv
<1> QED BY <1>1, <1>4, <1>5

\* No step makes the sets wrong.
LEMMA SetsStep == ASSUME TypeOK, SetsInv, [Next]_vars PROVE SetsInv'
<1>1. ASSUME NEW i \in Calls, Report(i) PROVE SetsInv'
  BY <1>1, ReportSets
<1>2. ASSUME NEW i \in Calls, NotifyAnswered(i) PROVE SetsInv'
  BY <1>2, AnsweredSets
<1>3. ASSUME NEW i \in Calls, AnswerCall(i) PROVE SetsInv'
  BY <1>3, SetsStutter DEF AnswerCall
<1>4. CASE HandlePriorState
  BY <1>4, PriorSets
<1>5. CASE FinishNotify
  BY <1>5, FinishSets
<1>6. CASE ProcessEventInner
  BY <1>6, EventIs, SetsStutter
<1>7. CASE RetryRing
  BY <1>7, RetryIs, SetsStutter
<1>8. ASSUME NEW b \in BOOLEAN, SetLocalRingbackNeeded(b) PROVE SetsInv'
  BY <1>8, RingbackIs, SetsStutter
<1>9. CASE UserMutesRinger
  BY <1>9, UserMutesIs, SetsStutter
<1>10. CASE AnswerMutesRinger
  BY <1>10, AnswerMutesSets
<1>11. ASSUME NEW th \in Threads, StartRing(th) PROVE SetsInv'
  BY <1>11, StartIs, SetsStutter
<1>12. ASSUME NEW th \in Threads, PostProcessRingtone(th) PROVE SetsInv'
  BY <1>12, PostIs, SetsStutter
<1>13. CASE UNCHANGED vars
  BY <1>13, SetsStutter DEF vars
<1> QED BY <1>1, <1>2, <1>3, <1>4, <1>5, <1>6, <1>7, <1>8, <1>9, <1>10, <1>11, <1>12, <1>13 DEF Next
-----------------------------------------------------------------------------
(* What rings and sounds has a cause *)

\* What is still to come stays so when events are appended.
LEMMA LaterKept ==
    ASSUME queue \in Seq(Events), NEW q \in Seq(Events), queue' = queue \o q,
           NEW k \in 0..Len(queue), NEW e
    PROVE  /\ Later(k, e) => Later(k, e)'
           /\ q = <<e>> => Later(k, e)'
<1>1. /\ Len(queue') = Len(queue) + Len(q) /\ Len(queue) \in Nat /\ Len(q) \in Nat
      /\ \A l \in 1..Len(queue) : queue'[l] = queue[l]
      /\ \A l \in 1..Len(q) : queue'[Len(queue) + l] = q[l]
  OBVIOUS
<1>2. Later(k, e) => Later(k, e)'
  BY <1>1 DEF Later
<1>3. ASSUME q = <<e>> PROVE Later(k, e)'
  <2>1. Len(q) = 1 /\ q[1] = e
    BY <1>3
  <2>2. Len(queue) + 1 \in 1..Len(queue') /\ Len(queue) + 1 > k /\ queue'[Len(queue) + 1] = e
    BY <1>1, <2>1
  <2> QED BY <2>2 DEF Later
<1> QED BY <1>2, <1>3

\* An event that will stop a ring or tone stays pending when events are queued behind it.
LEMMA PendingKept ==
    ASSUME queue \in Seq(Events), NEW q \in Seq(Events), queue' = queue \o q,
           RingCause => (RingCause' \/ q = <<"NO_MORE_INCOMING">>),
           sets["alerting"] # {} => (sets'["alerting"] # {} \/ q = <<"NO_MORE_ALERTING">>),
           NEW k \in 0..Len(queue)
    PROVE  /\ RingPending(k) => RingPending(k)'
           /\ AlertPending(k) => AlertPending(k)'
<1>1. \A e : /\ Later(k, e) => Later(k, e)'
             /\ q = <<e>> => Later(k, e)'
  BY LaterKept
<1>2. /\ Later(k, "NO_MORE_INCOMING") => Later(k, "NO_MORE_INCOMING")'
      /\ q = <<"NO_MORE_INCOMING">> => Later(k, "NO_MORE_INCOMING")'
      /\ Later(k, "NO_MORE_ALERTING") => Later(k, "NO_MORE_ALERTING")'
      /\ q = <<"NO_MORE_ALERTING">> => Later(k, "NO_MORE_ALERTING")'
  BY <1>1
<1> QED BY <1>2 DEF RingPending, AlertPending

\* A step that appends events and starts nothing without a cause.
LEMMA SoundKept ==
    ASSUME TypeOK, SoundInv, NEW q \in Seq(Events), queue' = queue \o q,
           RingCause => (RingCause' \/ q = <<"NO_MORE_INCOMING">>),
           sets["alerting"] # {} => (sets'["alerting"] # {} \/ q = <<"NO_MORE_ALERTING">>),
           out'.ring # "STOPPED" /\ "late" \notin odd' =>
              \/ out.ring # "STOPPED" /\ "late" \notin odd
              \/ RingPending(0) \/ sets'["incoming"] # {},
           "queue" \in out'.due => "queue" \in out.due \/ sets'["incoming"] # {},
           "notifier" \in out'.due => notify'.phase = "IDLE" /\ sets'["incoming"] # {},
           out'.tone \in {out.tone, "STOPPED"},
           \A l \in 1..Len(q) : /\ q[l] = "NEW_INCOMING" => sets'["incoming"] # {}
                                /\ q[l] # "SWITCH_ALERTING"
    PROVE  SoundInv'
<1>0. queue \in Seq(Events)
  BY DEF TypeOK
<1>1. /\ Len(queue') = Len(queue) + Len(q) /\ Len(queue) \in Nat /\ Len(q) \in Nat
      /\ \A l \in 1..Len(queue) : queue'[l] = queue[l]
      /\ \A l \in 1..Len(q) : queue'[Len(queue) + l] = q[l]
  BY <1>0
<1>2. \A k \in 0..Len(queue) : /\ RingPending(k) => RingPending(k)'
                               /\ AlertPending(k) => AlertPending(k)'
  BY <1>0, PendingKept
<1>3. /\ RingPending(0) => RingPending(0)'
      /\ AlertPending(0) => AlertPending(0)'
  BY <1>1, <1>2
<1>4. sets'["incoming"] # {} => \A k : RingPending(k)'
  BY DEF RingPending, RingCause
<1>5. ASSUME NEW k \in 1..Len(queue')
      PROVE  /\ queue'[k] = "NEW_INCOMING" => RingPending(k)'
             /\ queue'[k] = "SWITCH_ALERTING" => AlertPending(k)'
  <2>1. CASE k \in 1..Len(queue)
    BY <1>1, <1>2, <2>1 DEF SoundInv
  <2>2. CASE k \notin 1..Len(queue)
    <3>1. k - Len(queue) \in 1..Len(q) /\ queue'[k] = q[k - Len(queue)]
      BY <1>1, <1>5, <2>2
    <3> QED BY <1>4, <3>1
  <2> QED BY <2>1, <2>2
<1>6. out'.ring # "STOPPED" /\ "late" \notin odd' => RingPending(0)'
  BY <1>3, <1>4 DEF SoundInv
<1>7. "queue" \in out'.due => RingPending(0)'
  BY <1>3, <1>4 DEF SoundInv
<1>8. /\ out'.tone = "WAITING" => RingPending(0)'
      /\ out'.tone = "RINGBACK" => AlertPending(0)'
  BY <1>3 DEF SoundInv
<1> HIDE DEF RingPending, AlertPending
<1> QED BY <1>5, <1>6, <1>7, <1>8 DEF SoundInv

\* What is still to come moves up when an event has been processed.
LEMMA LaterMoves ==
    ASSUME queue \in Seq(Events), queue # <<>>, NEW q \in Seq(Events),
           queue' = Tail(queue) \o q, NEW k \in Nat, NEW e
    PROVE  /\ Later(k + 1, e) => Later(k, e)'
           /\ Later(0, e) => e = Head(queue) \/ Later(1, e)
<1>1. /\ Len(queue') = (Len(queue) - 1) + Len(q) /\ Len(queue) \in Nat \ {0} /\ Len(q) \in Nat
      /\ \A l \in 1..(Len(queue) - 1) : queue'[l] = queue[l + 1]
      /\ Head(queue) = queue[1]
  OBVIOUS
<1>2. ASSUME Later(k + 1, e) PROVE Later(k, e)'
  <2>1. PICK l \in 1..Len(queue) : l > k + 1 /\ queue[l] = e
    BY <1>2 DEF Later
  <2>2. l - 1 \in 1..Len(queue') /\ l - 1 > k /\ queue'[l - 1] = e
    <3>1. l - 1 \in 1..(Len(queue) - 1) /\ (l - 1) + 1 = l
      BY <1>1, <2>1
    <3>2. queue'[l - 1] = queue[l]
      BY <1>1, <3>1
    <3> QED BY <1>1, <2>1, <3>1, <3>2
  <2> QED BY <2>2 DEF Later
<1>3. Later(0, e) => e = Head(queue) \/ Later(1, e)
  <2> SUFFICES ASSUME NEW l \in 1..Len(queue), queue[l] = e, e # Head(queue) PROVE Later(1, e)
    BY DEF Later
  <2>1. l > 1
    BY <1>1
  <2> QED BY <2>1 DEF Later
<1> QED BY <1>2, <1>3

\* Nothing sounds at the start.
LEMMA SoundInit == ASSUME Init PROVE SoundInv
<1>1. /\ queue = <<>> /\ Len(queue) = 0 /\ out.ring = "STOPPED" /\ out.tone = "STOPPED"
      /\ out.due = {}
  BY DEF Init
<1> QED BY <1>1 DEF SoundInv

\* The events a notification queues.
LEMMA NewEventIs ==
    ASSUME NEW i, NEW next, NEW l \in 1..Len(NextEvent(i, next))
    PROVE  /\ NextEvent(i, next)[l] = "NEW_INCOMING" => next \in RingStates
           /\ NextEvent(i, next)[l] # "SWITCH_ALERTING"
<1>1. \/ NextEvent(i, next) = <<>>
      \/ \E e \in NewEvents : NextEvent(i, next) = <<e>> /\ (e = "NEW_INCOMING" => next \in RingStates)
  BY DEF NextEvent, NewEvents, RingStates
<1>2. "SWITCH_ALERTING" \notin NewEvents
  BY DEF NewEvents
<1> QED BY <1>1, <1>2

\* A report leaves no sound without a cause.
LEMMA ReportSound ==
    ASSUME TypeOK, SetsInv, SoundInv, NEW i \in Calls, Report(i)
    PROVE  SoundInv'
<1>1. PICK next \in Reportable(i) :
          LET old == calls[i].tel
              prior == IF old = "NONE" THEN next ELSE old
              skip == calls[i].byPhone /\ next = "ACTIVE" /\ prior \in RingStates
              ends == calls[i].byPhone /\ next \in EndStates
              pre == IF ends THEN DeleteCall(sets, i, "ACTIVE") ELSE sets
          IN /\ notify.phase = "IDLE"
             /\ sets' = IF skip THEN DeleteCall(sets, i, prior) ELSE AddCall(pre, i, next)
             /\ queue' = IF skip THEN queue ELSE queue \o NextEvent(i, next)
             /\ out'.ring = out.ring /\ out'.tone = out.tone /\ out'.due = out.due
             /\ "notifier" \notin Ringers(out)
             /\ odd \subseteq odd'
  BY ReportIs
<1> DEFINE old == calls[i].tel
           prior == IF old = "NONE" THEN next ELSE old
           skip == calls[i].byPhone /\ next = "ACTIVE" /\ prior \in RingStates
           ends == calls[i].byPhone /\ next \in EndStates
           pre == IF ends THEN DeleteCall(sets, i, "ACTIVE") ELSE sets
           q == IF skip THEN <<>> ELSE NextEvent(i, next)
<1>2. calls \in CallTypes /\ sets \in SetTypes /\ {"incoming", "alerting", "active"} \subseteq Groups
      /\ out \in OutTypes
  BY Typed DEF Groups
<1>3. /\ pre \in SetTypes
      /\ pre["incoming"] = sets["incoming"] /\ pre["alerting"] = sets["alerting"]
  <2>1. "ACTIVE" \in GroupStates \ {"ANSWERED"} /\ GroupOf["ACTIVE"] = "active"
    BY GroupTable DEF GroupStates
  <2>2. /\ DeleteCall(sets, i, "ACTIVE") \in SetTypes
        /\ \A g \in Groups : \A j : j \in DeleteCall(sets, i, "ACTIVE")[g] <=>
              j \in sets[g] /\ ~(j = i /\ g = "active")
    BY <1>2, <2>1, SetsChange
  <2>3. /\ \A j : j \in DeleteCall(sets, i, "ACTIVE")["incoming"] <=> j \in sets["incoming"]
        /\ \A j : j \in DeleteCall(sets, i, "ACTIVE")["alerting"] <=> j \in sets["alerting"]
    BY <1>2, <2>2
  <2>4. /\ DeleteCall(sets, i, "ACTIVE")["incoming"] = sets["incoming"]
        /\ DeleteCall(sets, i, "ACTIVE")["alerting"] = sets["alerting"]
    BY <2>3
  <2> QED BY <1>2, <2>2, <2>4
<1>4. /\ sets["incoming"] \subseteq sets'["incoming"]
      /\ sets["alerting"] \subseteq sets'["alerting"]
      /\ ~skip /\ next \in RingStates => i \in sets'["incoming"]
  <2>1. CASE skip
    <3>1. sets' = DeleteCall(sets, i, prior) /\ prior \in GroupStates \ {"ANSWERED"}
          /\ GroupOf[prior] = "incoming"
      BY <1>1, <2>1, GroupTable DEF RingStates, GroupStates
    <3>2. i \notin sets["incoming"]
      BY <2>1 DEF SetsInv, Placed
    <3> HIDE DEF prior
    <3>3. \A g \in Groups : \A j : j \in sets'[g] <=> j \in sets[g] /\ ~(j = i /\ g = "incoming")
      BY <1>2, <3>1, SetsChange
    <3> HIDE DEF skip
    <3> QED BY <1>2, <2>1, <3>2, <3>3
  <2>2. CASE ~skip
    <3>1. sets' = AddCall(pre, i, next)
      BY <1>1, <2>2
    <3> HIDE DEF pre, skip
    <3>2. \A g \in Groups : \A j : j \in sets'[g] <=>
            \/ j \in pre[g]
            \/ j = i /\ next \in GroupStates /\ g = GroupOf[next]
      BY <1>3, <3>1, SetsChange
    <3>3. next \in RingStates => next \in GroupStates /\ GroupOf[next] = "incoming"
      BY GroupTable DEF RingStates, GroupStates
    <3> QED BY <1>2, <1>3, <3>2, <3>3
  <2> QED BY <2>1, <2>2
<1>5. q \in Seq(Events) /\ queue' = queue \o q
  <2>1. <<>> \in Seq(Events) /\ queue \in Seq(Events)
    BY DEF TypeOK
  <2>2. q \in Seq(Events)
    BY <2>1, EventTypes
  <2>3. queue \o <<>> = queue
    BY <2>1
  <2> QED BY <1>1, <2>2, <2>3
<1>6. \A l \in 1..Len(q) : /\ q[l] = "NEW_INCOMING" => sets'["incoming"] # {}
                           /\ q[l] # "SWITCH_ALERTING"
  <2>1. CASE skip
    BY <2>1
  <2>2. CASE ~skip
    <3>1. q = NextEvent(i, next)
      BY <2>2
    <3> HIDE DEF q, skip
    <3> QED BY <1>4, <2>2, <3>1, NewEventIs
  <2> QED BY <2>1, <2>2
<1>7. /\ out'.ring = out.ring /\ out'.tone = out.tone /\ out'.due = out.due
      /\ "notifier" \notin out.due /\ odd \subseteq odd'
  BY <1>1 DEF Ringers
<1>8. RingCause => RingCause'
  BY <1>1, <1>4 DEF RingCause, Muting
<1> HIDE DEF q
<1> QED BY <1>4, <1>5, <1>6, <1>7, <1>8, SoundKept

\* ANSWERED leaves no sound without a cause: until it has muted the ringer ...
LEMMA AnsweredSound ==
    ASSUME TypeOK, SetsInv, SoundInv, NEW i \in Calls, NotifyAnswered(i)
    PROVE  SoundInv'
<1>1. /\ notify.phase = "IDLE"
      /\ notify' = [phase |-> IF calls[i].byPhone THEN "FRONT"
                              ELSE IF out.ring = "STOPPED" THEN "NOTE" ELSE "MUTE",
                    call |-> i, prior |-> "INCOMING", next |-> "ANSWERED"]
      /\ sets' = DeleteCall(sets, i, "INCOMING")
      /\ "notifier" \notin out.due
      /\ odd \subseteq odd' /\ UNCHANGED <<queue, out>>
  BY NotifyAnsweredIs DEF Ringers
<1>2. sets \in SetTypes /\ {"incoming", "alerting"} \subseteq Groups
  BY Typed DEF Groups
<1>3. \A g \in Groups : \A j : j \in sets'[g] <=> j \in sets[g] /\ ~(j = i /\ g = "incoming")
  <2>1. "INCOMING" \in GroupStates \ {"ANSWERED"} /\ GroupOf["INCOMING"] = "incoming"
    BY GroupTable DEF GroupStates
  <2> QED BY <1>1, <1>2, <2>1, SetsChange
<1>4. sets["alerting"] # {} => sets'["alerting"] # {}
  BY <1>2, <1>3
<1>5. RingCause => RingCause'
  <2>1. CASE calls[i].byPhone
    <3>1. i \notin sets["incoming"]
      BY <2>1 DEF SetsInv, Placed
    <3>2. sets["incoming"] \subseteq sets'["incoming"]
      BY <1>2, <1>3, <3>1
    <3> QED BY <1>1, <3>2 DEF RingCause, Muting
  <2>2. CASE ~calls[i].byPhone
    BY <1>1, <2>2 DEF RingCause, RingStates, Muting
  <2> QED BY <2>1, <2>2
<1>6. <<>> \in Seq(Events) /\ queue' = queue \o <<>> /\ \A l \in 1..Len(<<>>) : FALSE
  BY <1>1 DEF TypeOK
<1> QED BY <1>1, <1>4, <1>5, <1>6, SoundKept

\* ... and afterwards.
LEMMA AnswerMutesSound ==
    ASSUME TypeOK, SetsInv, SoundInv, AnswerMutesRinger
    PROVE  SoundInv'
<1> DEFINE i == notify.call
           q == NextEvent(i, "ANSWERED")
<1>1. /\ Muting /\ i \in Calls
      /\ notify'.phase = "PRIOR" /\ notify'.prior = notify.prior
      /\ sets' = AddCall(sets, i, "ANSWERED") /\ queue' = queue \o q
      /\ (out'.ring # "STOPPED" => out.ring # "STOPPED")
      /\ out'.tone \in {out.tone, "STOPPED"} /\ out'.due = out.due
      /\ odd \subseteq odd'
  BY MutesIs
<1>2. sets \in SetTypes /\ {"incoming", "alerting"} \subseteq Groups
  BY Typed DEF Groups
<1>3. sets["alerting"] \subseteq sets'["alerting"] /\ sets["incoming"] \subseteq sets'["incoming"]
  <2> HIDE DEF i
  <2>1. \A g \in Groups : \A j : j \in sets[g] => j \in sets'[g]
    BY <1>1, <1>2, SetsChange
  <2> QED BY <1>2, <2>1
<1>4. RingCause => RingCause'
  BY <1>1, <1>3 DEF RingCause
<1>5. "notifier" \notin out.due
  BY <1>1 DEF SoundInv, Muting
<1>6. q \in Seq(Events)
  BY EventTypes
<1>7. \A l \in 1..Len(q) : q[l] # "NEW_INCOMING" /\ q[l] # "SWITCH_ALERTING"
  <2>1. "ANSWERED" \notin RingStates
    BY DEF RingStates
  <2> QED BY <2>1, NewEventIs
<1> HIDE DEF q
<1> QED BY <1>1, <1>3, <1>4, <1>5, <1>6, <1>7, SoundKept

\* HandlePriorState leaves none.
LEMMA PriorSound ==
    ASSUME TypeOK, SetsInv, SoundInv, HandlePriorState
    PROVE  SoundInv'
<1> DEFINE i == notify.call
           prior == notify.prior
           q == PriorEvent(sets', prior)
<1>1. /\ notify.phase = "PRIOR" /\ i \in Calls /\ prior \in TelStates
      /\ sets' = DeleteCall(sets, i, prior)
      /\ queue' = queue \o q
      /\ out'.ring = out.ring /\ out'.tone = out.tone /\ out'.due = out.due
      /\ notify'.prior = prior /\ UNCHANGED odd
  <2>1. notify \in Notifications
    BY PriorIs, NotifyTypes
  <2> QED BY <2>1, PriorIs DEF SameRinger, Notifications
<1>2. sets \in SetTypes /\ {"incoming", "alerting"} \subseteq Groups
  BY Typed DEF Groups
<1>3. \A g \in Groups : \A j : j \in sets'[g] <=>
          /\ j \in sets[g]
          /\ ~(j = i /\ prior \in GroupStates \ {"ANSWERED"} /\ g = GroupOf[prior])
  <2> HIDE DEF i, prior
  <2> QED BY <1>1, <1>2, SetsChange
<1>4. q \in Seq(Events)
  BY EventTypes
<1>5. RingCause => (RingCause' \/ q = <<"NO_MORE_INCOMING">>)
  <2>1. CASE prior \in RingStates
    BY <2>1 DEF PriorEvent, RingStates
  <2>2. CASE prior \notin RingStates
    <3>1. prior \in GroupStates \ {"ANSWERED"} => GroupOf[prior] # "incoming"
      BY <2>2, GroupTable DEF RingStates, GroupStates
    <3>2. sets["incoming"] \subseteq sets'["incoming"]
      BY <1>2, <1>3, <3>1
    <3> QED BY <1>1, <2>2, <3>2 DEF RingCause, Muting
  <2> QED BY <2>1, <2>2
<1>6. sets["alerting"] # {} => (sets'["alerting"] # {} \/ q = <<"NO_MORE_ALERTING">>)
  <2>1. CASE prior = "ALERTING"
    BY <2>1 DEF PriorEvent
  <2>2. CASE prior # "ALERTING"
    <3>1. prior \in GroupStates \ {"ANSWERED"} => GroupOf[prior] # "alerting"
      BY <2>2, GroupTable DEF GroupStates
    <3> QED BY <1>2, <1>3, <3>1
  <2> QED BY <2>1, <2>2
<1>7. \A l \in 1..Len(q) : q[l] # "NEW_INCOMING" /\ q[l] # "SWITCH_ALERTING"
  <2>1. q = <<>> \/ \E e \in NoMoreEvents : q = <<e>>
    BY DEF PriorEvent, NoMoreEvents
  <2>2. "NEW_INCOMING" \notin NoMoreEvents /\ "SWITCH_ALERTING" \notin NoMoreEvents
    BY DEF NoMoreEvents
  <2> HIDE DEF q
  <2> QED BY <2>1, <2>2
<1>8. "notifier" \notin out.due
  BY <1>1 DEF SoundInv
<1> HIDE DEF q
<1> QED BY <1>1, <1>4, <1>5, <1>6, <1>7, <1>8, SoundKept

\* A step that leaves calls, notification and queue alone.
LEMMA SoundStutter ==
    ASSUME TypeOK, SoundInv, UNCHANGED <<sets, queue>>, RingCause => RingCause',
           out'.ring # "STOPPED" /\ "late" \notin odd' =>
              \/ out.ring # "STOPPED" /\ "late" \notin odd
              \/ "queue" \in out.due \/ sets["incoming"] # {},
           "queue" \in out'.due => "queue" \in out.due,
           "notifier" \in out'.due => notify'.phase = "IDLE" /\ sets["incoming"] # {},
           out'.tone \in {out.tone, "STOPPED"}
    PROVE  SoundInv'
<1>1. <<>> \in Seq(Events) /\ queue \in Seq(Events)
  BY DEF TypeOK
<1>2. queue' = queue \o <<>>
  BY <1>1
<1>3. \A l \in 1..Len(<<>>) : FALSE
  OBVIOUS
<1>4. "queue" \in out.due => RingPending(0)
  BY DEF SoundInv
<1> QED BY <1>1, <1>2, <1>3, <1>4, SoundKept

\* An event of the scene machine leaves none.
LEMMA EventSound ==
    ASSUME TypeOK, SetsInv, SoundInv, ProcessEventInner
    PROVE  SoundInv'
<1> DEFINE e == Head(queue)
<1>1. /\ queue # <<>> /\ EffectOf(out, sets, e, out')
      /\ "queue" \notin Ringers(out) /\ UNCHANGED <<sets, notify, odd>>
  BY EventIs
<1>2. PICK q : AtMost(q, sets) /\ queue' = Tail(queue) \o q
  BY EventIs
<1>3. queue \in Seq(Events) /\ q \in Seq(Events)
  BY <1>2, EventTypes DEF TypeOK
<1>4. /\ Len(queue') = (Len(queue) - 1) + Len(q) /\ Len(queue) \in Nat \ {0} /\ Len(q) \in Nat
      /\ \A l \in 1..(Len(queue) - 1) : queue'[l] = queue[l + 1]
      /\ \A l \in 1..Len(q) : queue'[(Len(queue) - 1) + l] = q[l]
      /\ e = queue[1]
  BY <1>1, <1>2, <1>3
<1>5. \A k \in Nat : \A x : /\ Later(k + 1, x) => Later(k, x)'
                            /\ Later(0, x) => x = e \/ Later(1, x)
  BY <1>1, <1>2, <1>3, LaterMoves
<1>6. \A k \in Nat : /\ RingPending(k + 1) => RingPending(k)'
                     /\ AlertPending(k + 1) => AlertPending(k)'
  BY <1>1, <1>5 DEF RingPending, AlertPending, RingCause, Muting
<1>7. /\ RingPending(0) => RingPending(1) \/ e = "NO_MORE_INCOMING"
      /\ AlertPending(0) => AlertPending(1) \/ e = "NO_MORE_ALERTING"
  BY <1>5 DEF RingPending, AlertPending
<1>8. /\ RingPending(1) => RingPending(0)'
      /\ AlertPending(1) => AlertPending(0)'
  <2>1. 0 \in Nat /\ 0 + 1 = 1
    OBVIOUS
  <2> QED BY <1>6, <2>1
<1>9. /\ e = "NEW_INCOMING" => RingPending(1)
      /\ e = "SWITCH_ALERTING" => AlertPending(1)
  BY <1>4 DEF SoundInv
<1>10. sets["incoming"] # {} => RingPending(0)'
  BY <1>1 DEF RingPending, RingCause
<1>11. ASSUME NEW k \in 1..Len(queue')
       PROVE  /\ queue'[k] = "NEW_INCOMING" => RingPending(k)'
              /\ queue'[k] = "SWITCH_ALERTING" => AlertPending(k)'
  <2>1. CASE k \in 1..(Len(queue) - 1)
    <3>1. k + 1 \in 1..Len(queue) /\ k \in Nat /\ queue'[k] = queue[k + 1]
      BY <1>4, <2>1
    <3> QED BY <1>6, <3>1 DEF SoundInv
  <2>2. CASE k \notin 1..(Len(queue) - 1)
    <3>1. k - (Len(queue) - 1) \in 1..Len(q) /\ queue'[k] = q[k - (Len(queue) - 1)]
      BY <1>4, <1>11, <2>2
    <3>2. /\ queue'[k] \in DOMAIN SceneOf
          /\ queue'[k] = "SWITCH_ALERTING" => sets["alerting"] # {}
      BY <1>2, <3>1 DEF AtMost
    <3>3. queue'[k] # "NEW_INCOMING"
      BY <3>2, SceneTable
    <3> QED BY <1>1, <3>2, <3>3 DEF AlertPending
  <2> QED BY <2>1, <2>2
<1>12. out'.ring # "STOPPED" /\ "late" \notin odd' => RingPending(0)'
  BY <1>1, <1>7, <1>8, <1>10 DEF EffectOf, SoundInv
<1>13. out'.tone = "WAITING" => RingPending(0)'
  BY <1>1, <1>7, <1>8, <1>9 DEF EffectOf, SoundInv
<1>14. out'.tone = "RINGBACK" => AlertPending(0)'
  BY <1>1, <1>7, <1>8, <1>9 DEF EffectOf, SoundInv
<1>15. "queue" \in out'.due => RingPending(0)'
  BY <1>1, <1>10 DEF EffectOf, Ringers
<1>16. "notifier" \in out'.due => notify'.phase = "IDLE" /\ sets'["incoming"] # {}
  BY <1>1 DEF EffectOf, SoundInv
<1> HIDE DEF RingPending, AlertPending
<1> QED BY <1>11, <1>12, <1>13, <1>14, <1>15, <1>16 DEF SoundInv

\* No step leaves one.
LEMMA SoundStep == ASSUME TypeOK, SetsInv, SoundInv, [Next]_vars PROVE SoundInv'
<1>0. "notifier" \in out.due => notify.phase = "IDLE" /\ sets["incoming"] # {}
  BY DEF SoundInv
<1>1. ASSUME NEW i \in Calls, Report(i) PROVE SoundInv'
  BY <1>1, ReportSound
<1>2. ASSUME NEW i \in Calls, NotifyAnswered(i) PROVE SoundInv'
  BY <1>2, AnsweredSound
<1>3. ASSUME NEW i \in Calls, AnswerCall(i) PROVE SoundInv'
  BY <1>0, <1>3, SoundStutter DEF AnswerCall, RingCause, Muting
<1>4. CASE HandlePriorState
  BY <1>4, PriorSound
<1>5. CASE FinishNotify
  <2>1. /\ notify.phase = "FRONT" /\ notify'.phase = "IDLE"
        /\ out'.ring = out.ring /\ out'.tone \in {out.tone, "STOPPED"}
        /\ \/ out'.due = out.due
           \/ out'.due = out.due \cup {"notifier"} /\ sets["incoming"] # {}
        /\ UNCHANGED <<sets, queue, odd>>
    BY <1>5, FinishIs
  <2>2. RingCause => RingCause'
    BY <2>1 DEF RingCause, Muting
  <2> QED BY <1>0, <2>1, <2>2, SoundStutter
<1>6. CASE ProcessEventInner
  BY <1>6, EventSound
<1>7. CASE RetryRing
  <2>1. /\ out'.tone = out.tone /\ out'.due = out.due \ {"retry"} /\ odd \subseteq odd'
        /\ out'.ring = out.ring \/ (sets["incoming"] = {} => "late" \in odd')
        /\ UNCHANGED <<sets, notify, queue>>
    BY <1>7, RetryIs
  <2> QED BY <1>0, <2>1, SoundStutter DEF RingCause, Muting
<1>8. ASSUME NEW b \in BOOLEAN, SetLocalRingbackNeeded(b) PROVE SoundInv'
  BY <1>0, <1>8, RingbackIs, SoundStutter DEF RingCause, Muting, SameRinger
<1>9. CASE UserMutesRinger
  BY <1>0, <1>9, UserMutesIs, SoundStutter DEF RingCause, Muting
<1>10. CASE AnswerMutesRinger
  BY <1>10, AnswerMutesSound
<1>11. ASSUME NEW th \in Threads, StartRing(th) PROVE SoundInv'
  <2>1. /\ th \in {"queue", "notifier"} \cap out.due /\ out'.tone = out.tone
        /\ out'.due \subseteq out.due \cup {"retry"}
        /\ UNCHANGED <<sets, notify, queue, odd>>
    BY <1>11, StartIs
  <2>2. "queue" \in out.due \/ sets["incoming"] # {}
    BY <1>0, <2>1
  <2> QED BY <1>0, <2>1, <2>2, SoundStutter DEF RingCause, Muting
<1>12. ASSUME NEW th \in Threads, PostProcessRingtone(th) PROVE SoundInv'
  <2>1. /\ out'.ring # "STOPPED" => out.ring # "STOPPED"
        /\ out'.tone = out.tone /\ out'.due = out.due
        /\ UNCHANGED <<sets, notify, queue, odd>>
    BY <1>12, PostIs
  <2> QED BY <1>0, <2>1, SoundStutter DEF RingCause, Muting
<1>13. CASE UNCHANGED vars
  BY <1>0, <1>13, SoundStutter DEF vars, RingCause, Muting
<1> QED BY <1>1, <1>2, <1>3, <1>4, <1>5, <1>6, <1>7, <1>8, <1>9, <1>10, <1>11, <1>12, <1>13 DEF Next
-----------------------------------------------------------------------------
(* The answered call does not ring aloud *)

\* Two incoming calls are two calls.
LEMMA TwoIncoming ==
    ASSUME TypeOK, SetsInv, Cardinality(sets["incoming"]) > 1
    PROVE  TwoCalls
<1>1. sets["incoming"] \in SUBSET Calls /\ "incoming" \in Groups
  BY DEF TypeOK, Groups
<1>2. PICK i \in sets["incoming"] : TRUE
  BY FS_EmptySet
<1>3. sets["incoming"] # {i}
  <2>1. Cardinality({i}) = 1
    BY FS_Singleton
  <2> QED BY <2>1
<1>4. PICK j \in sets["incoming"] : j # i
  BY <1>2, <1>3
<1>5. calls[i].tel # "NONE" /\ calls[j].tel # "NONE"
  BY <1>1, <1>2, <1>4 DEF SetsInv, Unborn
<1> QED BY <1>1, <1>2, <1>4, <1>5 DEF TwoCalls

\* A call that has been reported stays one.
LEMMA CallsRemain ==
    ASSUME \A i \in Calls : calls[i].tel # "NONE" => calls'[i].tel # "NONE", TwoCalls
    PROVE  TwoCalls'
  BY DEF TwoCalls

\* While there is only one call only the audio queue rings.
LEMMA OneCallIs ==
    ASSUME MuteInv, ~TwoCalls
    PROVE  /\ ~out.conflict /\ \A i \in Calls : calls[i].tel # "WAITING"
           /\ out.due \subseteq {"queue"} /\ out.playing \subseteq {"queue"}
           /\ "queue" \in out.due => out.ring = "STOPPED" /\ out.playing = {}
  BY DEF MuteInv, OneRinger, Ringers

\* While the only call has been answered, no incoming call is left to ring for.
LEMMA AloneIs ==
    ASSUME TypeOK, SetsInv, NEW i \in Calls, AloneAnswered(i)
    PROVE  sets["incoming"] = {} /\ ~TwoCalls /\ RingingCall(calls) = i /\ Ringing(calls) # {}
           /\ RingingCall(calls) # NoCall
<1>1. sets["incoming"] \in SUBSET Calls /\ "incoming" \in Groups
  BY DEF TypeOK, Groups
<1>2. \A j \in Calls : j \notin sets["incoming"]
  BY <1>1 DEF AloneAnswered, SetsInv, Unborn, Placed
<1>3. ~TwoCalls
  BY DEF TwoCalls, AloneAnswered
<1>4. Ringing(calls) = {i} /\ RingingCall(calls) \in Ringing(calls) /\ RingingCall(calls) # NoCall
  BY Typed, RingingCallType DEF AloneAnswered
<1> QED BY <1>1, <1>2, <1>3, <1>4

\* A step that leaves the calls alone.
LEMMA MuteKept ==
    ASSUME TypeOK, SetsInv, MuteInv, UNCHANGED calls, odd \subseteq odd',
           ~TwoCalls =>
              /\ ~out'.conflict /\ out'.due \subseteq {"queue"} /\ out'.playing \subseteq {"queue"}
              /\ "queue" \in out'.due => out'.ring = "STOPPED" /\ out'.playing = {},
           \A i \in Calls : AloneAnswered(i) /\ "crossed" \notin odd' /\ NoteLeft(i) => NoteLeft(i)'
    PROVE  MuteInv'
<1>1. OneRinger'
  <2>1. CASE TwoCalls
    BY <2>1, CallsRemain DEF OneRinger
  <2>2. CASE ~TwoCalls
    BY <2>2, OneCallIs DEF OneRinger, Ringers
  <2> QED BY <2>1, <2>2
<1>2. NoteInv'
  <2> SUFFICES ASSUME NEW i \in Calls, AloneAnswered(i)', "crossed" \notin odd' PROVE NoteLeft(i)'
    BY DEF NoteInv
  <2>1. AloneAnswered(i)
    BY DEF AloneAnswered, Ringing
  <2>2. NoteLeft(i)
    BY <2>1 DEF MuteInv, NoteInv
  <2> QED BY <2>1, <2>2
<1> QED BY <1>1, <1>2 DEF MuteInv

\* A step that leaves the ringers alone, too.
LEMMA MuteStutter ==
    ASSUME TypeOK, SetsInv, MuteInv, UNCHANGED calls, odd \subseteq odd',
           out'.conflict => out.conflict,
           ~TwoCalls => out'.due = out.due /\ out'.playing = out.playing,
           out'.ring = "RINGING" => out.ring = "RINGING",
           out.ring = "STOPPED" => out'.ring = "STOPPED",
           out.needMute \subseteq out'.needMute,
           Muting' <=> Muting, notify.phase = "NOTE" => notify'.phase = "NOTE"
    PROVE  MuteInv'
<1>1. ASSUME ~TwoCalls
      PROVE  /\ ~out'.conflict /\ out'.due \subseteq {"queue"} /\ out'.playing \subseteq {"queue"}
             /\ "queue" \in out'.due => out'.ring = "STOPPED" /\ out'.playing = {}
  BY <1>1, OneCallIs
<1>2. ASSUME NEW i \in Calls, AloneAnswered(i), NoteLeft(i) PROVE NoteLeft(i)'
  <2>1. out'.due = out.due /\ out'.playing = out.playing
    BY <1>2, AloneIs
  <2> QED BY <1>2, <2>1 DEF NoteLeft
<1> QED BY <1>1, <1>2, MuteKept

\* Nothing has been answered at the start.
LEMMA MuteInit == ASSUME Init PROVE MuteInv
<1>1. /\ ~out.conflict /\ out.due = {} /\ out.playing = {}
      /\ \A i \in Calls : calls[i].tel # "WAITING" /\ ~calls[i].byPhone
  BY DEF Init, NewCall
<1> QED BY <1>1 DEF MuteInv, OneRinger, Ringers, NoteInv, AloneAnswered

\* A report does not make an answered call ring aloud.
LEMMA ReportMutes ==
    ASSUME TypeOK, SetsInv, MuteInv, NEW k \in Calls, Report(k)
    PROVE  MuteInv'
<1>1. PICK next \in Reportable(k) :
          /\ calls[k].tel # "NONE" => next \notin RingStates
          /\ next # "NONE" /\ calls' = [calls EXCEPT ![k].tel = next]
          /\ out'.conflict = out.conflict /\ out'.ring = out.ring
          /\ out'.due = out.due /\ out'.playing = out.playing
  BY ReportIs
<1>2. /\ calls'[k].tel = next /\ calls'[k].byPhone = calls[k].byPhone
      /\ \A j \in Calls \ {k} : calls'[j] = calls[j]
  BY <1>1, Typed DEF CallTypes
<1>3. OneRinger'
  <2>1. CASE TwoCalls
    BY <1>1, <1>2, <2>1, CallsRemain DEF OneRinger
  <2>2. CASE ~TwoCalls /\ next # "WAITING"
    <3>1. \A j \in Calls : calls'[j].tel # "WAITING"
      BY <1>2, <2>2, OneCallIs
    <3> QED BY <1>1, <2>2, <3>1, OneCallIs DEF OneRinger, Ringers
  <2>3. CASE next = "WAITING"
    <3>1. PICK j \in Calls : calls[j].tel # "NONE"
      BY <2>3, Reported DEF Live
    <3>2. calls[k].tel = "NONE"
      BY <1>1, <2>3 DEF RingStates
    <3> QED BY <1>1, <1>2, <3>1, <3>2 DEF OneRinger, TwoCalls
  <2> QED BY <2>1, <2>2, <2>3
<1>4. \A i \in Calls : ~AloneAnswered(i)'
  <2> SUFFICES ASSUME NEW i \in Calls, AloneAnswered(i)' PROVE FALSE
    OBVIOUS
  <2>1. calls'[i].byPhone /\ calls'[i].tel \in RingStates /\ \A j \in Calls \ {i} : calls'[j].tel = "NONE"
    BY DEF AloneAnswered, Ringing, RingStates
  <2>2. CASE i = k
    BY <1>1, <1>2, <2>1, <2>2 DEF SetsInv, Unborn
  <2>3. CASE i # k
    BY <1>1, <1>2, <2>1, <2>3
  <2> QED BY <2>2, <2>3
<1> QED BY <1>3, <1>4 DEF MuteInv, NoteInv

\* Nor does ANSWERED itself: a ring that has been decided on will find a note.
LEMMA AnsweredMutes ==
    ASSUME TypeOK, SetsInv, MuteInv, NEW k \in Calls, NotifyAnswered(k)
    PROVE  MuteInv'
<1>1. /\ notify.phase = "IDLE" /\ k \in answering /\ odd \subseteq odd' /\ out' = out
      /\ notify'.phase = (IF calls[k].byPhone THEN "FRONT"
                          ELSE IF out.ring = "STOPPED" THEN "NOTE" ELSE "MUTE")
      /\ calls' = IF calls[k].byPhone THEN calls ELSE [calls EXCEPT ![k].byPhone = TRUE]
  BY NotifyAnsweredIs
<1>2. CASE calls[k].byPhone
  BY <1>1, <1>2, MuteStutter DEF Muting
<1>3. CASE ~calls[k].byPhone
  <2>1. \A j \in Calls : calls'[j].tel = calls[j].tel
    BY <1>1, <1>3, Typed DEF CallTypes
  <2>2. OneRinger'
    BY <1>1, <2>1 DEF MuteInv, OneRinger, TwoCalls
  <2>3. calls[k].tel # "NONE"
    BY <1>1 DEF SetsInv, Unborn
  <2>4. ASSUME NEW i \in Calls, AloneAnswered(i)' PROVE NoteLeft(i)'
    <3>1. \A j \in Calls \ {i} : calls[j].tel = "NONE"
      BY <2>1, <2>4 DEF AloneAnswered
    <3>2. ~TwoCalls
      BY <3>1 DEF TwoCalls
    <3>3. "queue" \in out.due => notify'.phase = "NOTE"
      BY <1>1, <1>3, <3>2, OneCallIs
    <3> QED BY <1>1, <1>3, <3>3 DEF NoteLeft, Muting
  <2> QED BY <2>2, <2>4 DEF MuteInv, NoteInv
<1> QED BY <1>2, <1>3

\* The rest of ANSWERED silences what rings, or leaves the note.
LEMMA AnswerMutesMutes ==
    ASSUME TypeOK, SetsInv, MuteInv, AnswerMutesRinger
    PROVE  MuteInv'
<1>1. /\ Muting /\ notify'.phase = "PRIOR" /\ UNCHANGED calls /\ odd \subseteq odd'
      /\ out'.ring = "STOPPED" <=> out.ring = "STOPPED"
      /\ out'.ring = "RINGING" => out.ring = "RINGING" /\ notify.phase = "NOTE"
      /\ out'.conflict = out.conflict /\ out'.due = out.due /\ out'.playing = out.playing
      /\ out.needMute \subseteq out'.needMute
      /\ notify.phase = "NOTE" /\ Ringing(calls) # {} => RingingCall(calls) \in out'.needMute
      /\ notify.phase = "NOTE" /\ out.ring = "RINGING" /\ out.playing = {} => "crossed" \in odd'
  BY MutesIs
<1>2. ASSUME ~TwoCalls
      PROVE  /\ ~out'.conflict /\ out'.due \subseteq {"queue"} /\ out'.playing \subseteq {"queue"}
             /\ "queue" \in out'.due => out'.ring = "STOPPED" /\ out'.playing = {}
  BY <1>1, <1>2, OneCallIs
<1>3. ASSUME NEW i \in Calls, AloneAnswered(i), "crossed" \notin odd', NoteLeft(i)
      PROVE  NoteLeft(i)'
  <2>1. notify.phase = "NOTE" => i \in out'.needMute
    BY <1>1, <1>3, AloneIs
  <2>2. "queue" \in out'.due => i \in out'.needMute
    BY <1>1, <1>3, <2>1 DEF NoteLeft
  <2>3. out'.ring = "RINGING" => "queue" \in out'.playing /\ i \in out'.needMute
    BY <1>1, <1>3, <2>1, AloneIs, OneCallIs
  <2> QED BY <2>2, <2>3 DEF NoteLeft
<1> QED BY <1>1, <1>2, <1>3, MuteKept

\* Nor does the end of a notification.
LEMMA FinishMutes ==
    ASSUME TypeOK, SetsInv, MuteInv, FinishNotify
    PROVE  MuteInv'
<1> DEFINE k == notify.call
<1>1. /\ notify.phase = "FRONT" /\ notify'.phase = "IDLE" /\ odd \subseteq odd'
      /\ k \in Calls /\ (calls' = calls \/ calls' = [calls EXCEPT ![k] = NewCall("DISCONNECTED")])
      /\ out'.ring = out.ring /\ out'.playing = out.playing /\ out'.needMute = out.needMute
      /\ out'.conflict => out.conflict
      /\ out'.due = out.due \/ \E i \in Calls : calls[i].tel = "WAITING"
  BY FinishIs
<1>2. ~TwoCalls => out'.due = out.due
  BY <1>1, OneCallIs
<1>3. CASE calls' = calls
  BY <1>1, <1>2, <1>3, MuteStutter DEF Muting
<1>4. CASE calls' = [calls EXCEPT ![k] = NewCall("DISCONNECTED")]
  <2>1. calls'[k].tel = "DISCONNECTED" /\ \A j \in Calls \ {k} : calls'[j] = calls[j]
    BY <1>1, <1>4, Typed DEF CallTypes, NewCall
  <2> HIDE DEF k
  <2>2. TwoCalls => TwoCalls'
    BY <1>1, <2>1 DEF TwoCalls
  <2>3. \A i \in Calls : ~AloneAnswered(i)'
    BY <1>1, <2>1 DEF AloneAnswered, Ringing
  <2>4. OneRinger'
    <3>1. CASE TwoCalls
      BY <2>2, <3>1 DEF OneRinger
    <3>2. CASE ~TwoCalls
      <4>1. \A j \in Calls : calls'[j].tel # "WAITING"
        BY <1>1, <2>1, <3>2, OneCallIs
      <4> QED BY <1>1, <1>2, <3>2, <4>1, OneCallIs DEF OneRinger, Ringers
    <3> QED BY <3>1, <3>2
  <2> QED BY <2>3, <2>4 DEF MuteInv, NoteInv
<1> QED BY <1>1, <1>3, <1>4

\* Nor does an event: the incoming set is empty when the only call has been answered.
LEMMA EventMutes ==
    ASSUME TypeOK, SetsInv, MuteInv, ProcessEventInner
    PROVE  MuteInv'
<1>1. /\ EffectOf(out, sets, Head(queue), out') /\ "queue" \notin Ringers(out)
      /\ UNCHANGED <<calls, notify, odd>>
  BY EventIs
<1>2. Cardinality(sets["incoming"]) > 1 => TwoCalls
  BY TwoIncoming
<1>3. ASSUME ~TwoCalls
      PROVE  /\ ~out'.conflict /\ out'.due \subseteq {"queue"} /\ out'.playing \subseteq {"queue"}
             /\ "queue" \in out'.due => out'.ring = "STOPPED" /\ out'.playing = {}
  BY <1>1, <1>2, <1>3, OneCallIs DEF EffectOf, Ringers
<1>4. ASSUME NEW i \in Calls, AloneAnswered(i), NoteLeft(i) PROVE NoteLeft(i)'
  <2>1. out'.due = out.due /\ out'.playing = out.playing /\ out'.needMute = out.needMute
        /\ out'.ring \in {out.ring, "STOPPED"}
    BY <1>1, <1>4, AloneIs DEF EffectOf
  <2> QED BY <1>1, <1>4, <2>1 DEF NoteLeft, Muting
<1> QED BY <1>1, <1>3, <1>4, MuteKept

\* Nor does the player when it starts: the note has been left.
LEMMA StartMutes ==
    ASSUME TypeOK, SetsInv, MuteInv, NEW th \in Threads, StartRing(th)
    PROVE  MuteInv'
<1>1. /\ th \in out.due /\ out'.conflict = out.conflict /\ out'.needMute = out.needMute
      /\ ~out.conflict => /\ out'.due = out.due \ {th}
                          /\ out'.ring = "RINGING" /\ out'.playing = out.playing \cup {th}
      /\ UNCHANGED <<calls, notify, odd>>
  BY StartIs
<1>2. ASSUME ~TwoCalls
      PROVE  /\ ~out'.conflict /\ out'.due \subseteq {"queue"} /\ out'.playing \subseteq {"queue"}
             /\ "queue" \notin out'.due /\ "queue" \in out.due /\ "queue" \in out'.playing
  BY <1>1, <1>2, OneCallIs
<1>3. ASSUME NEW i \in Calls, AloneAnswered(i), NoteLeft(i) PROVE NoteLeft(i)'
  <2>1. ~TwoCalls
    BY <1>3, AloneIs
  <2> QED BY <1>1, <1>2, <1>3, <2>1 DEF NoteLeft, Muting
<1> QED BY <1>1, <1>2, <1>3, MuteKept

\* Nor does the look for the note, which finds it.
LEMMA PostMutes ==
    ASSUME TypeOK, SetsInv, MuteInv, NEW th \in Threads, PostProcessRingtone(th)
    PROVE  MuteInv'
<1>1. /\ th \in out.playing
      /\ out'.ring = "RINGING" => out.ring = "RINGING"
      /\ out'.conflict = out.conflict
      /\ out'.due = out.due /\ out'.playing = out.playing \ {th}
      /\ RingingCall(calls) # NoCall /\ RingingCall(calls) \in out.needMute => out'.ring # "RINGING"
      /\ UNCHANGED <<calls, notify, odd>>
  BY PostIs
<1>2. ASSUME ~TwoCalls
      PROVE  /\ ~out'.conflict /\ out'.due \subseteq {"queue"} /\ out'.playing \subseteq {"queue"}
             /\ "queue" \notin out'.due
  BY <1>1, <1>2, OneCallIs
<1>3. ASSUME NEW i \in Calls, AloneAnswered(i), NoteLeft(i) PROVE NoteLeft(i)'
  <2>1. ~TwoCalls /\ (i \in out.needMute => out'.ring # "RINGING")
    BY <1>1, <1>3, AloneIs
  <2> QED BY <1>1, <1>2, <1>3, <2>1 DEF NoteLeft, Muting
<1> QED BY <1>1, <1>2, <1>3, MuteKept

\* No step does.
LEMMA MuteStep == ASSUME TypeOK, SetsInv, MuteInv, [Next]_vars PROVE MuteInv'
<1>1. ASSUME NEW i \in Calls, Report(i) PROVE MuteInv'
  BY <1>1, ReportMutes
<1>2. ASSUME NEW i \in Calls, NotifyAnswered(i) PROVE MuteInv'
  BY <1>2, AnsweredMutes
<1>3. ASSUME NEW i \in Calls, AnswerCall(i) PROVE MuteInv'
  BY <1>3, MuteStutter DEF AnswerCall, Muting
<1>4. CASE HandlePriorState
  <2>1. notify.phase = "PRIOR" /\ notify'.phase = "FRONT" /\ SameRinger(out', out)
        /\ UNCHANGED <<calls, odd>>
    <3>1. notify \in Notifications
      BY <1>4, PriorIs, NotifyTypes
    <3> QED BY <1>4, <3>1, PriorIs DEF Notifications
  <2> QED BY <2>1, MuteStutter DEF SameRinger, Muting
<1>5. CASE FinishNotify
  BY <1>5, FinishMutes
<1>6. CASE ProcessEventInner
  BY <1>6, EventMutes
<1>7. CASE RetryRing
  <2>1. "retry" \in out.due /\ out'.conflict = out.conflict /\ odd \subseteq odd'
        /\ UNCHANGED <<calls, notify>>
    BY <1>7, RetryIs
  <2>2. TwoCalls
    BY <2>1, OneCallIs
  <2> QED BY <2>1, <2>2, AloneIs, MuteKept
<1>8. ASSUME NEW b \in BOOLEAN, SetLocalRingbackNeeded(b) PROVE MuteInv'
  BY <1>8, RingbackIs, MuteStutter DEF SameRinger, Muting
<1>9. CASE UserMutesRinger
  BY <1>9, UserMutesIs, MuteStutter DEF Muting
<1>10. CASE AnswerMutesRinger
  BY <1>10, AnswerMutesMutes
<1>11. ASSUME NEW th \in Threads, StartRing(th) PROVE MuteInv'
  BY <1>11, StartMutes
<1>12. ASSUME NEW th \in Threads, PostProcessRingtone(th) PROVE MuteInv'
  BY <1>12, PostMutes
<1>13. CASE UNCHANGED vars
  BY <1>13, MuteStutter DEF vars, Muting
<1> QED BY <1>1, <1>2, <1>3, <1>4, <1>5, <1>6, <1>7, <1>8, <1>9, <1>10, <1>11, <1>12, <1>13 DEF Next
-----------------------------------------------------------------------------
(* The theorems *)

\* The inductive invariant: every call is in the set of its state and, but for
\* the one a notification is moving, in no other; and every ring, tone, queued
\* NEW_INCOMING and queued SWITCH_ALERTING has a call that accounts for it or an
\* event behind it in the queue that will end it.
THEOREM AudioInvariant == Spec => []AudioInv
<1>1. Init => AudioInv
  BY TypeInit, SetsInit, SoundInit, MuteInit DEF AudioInv
<1>2. AudioInv /\ [Next]_vars => AudioInv'
  BY TypeStep, SetsStep, SoundStep, MuteStep DEF AudioInv
<1> QED BY <1>1, <1>2, PTL DEF Spec

\* Every reachable value has its type, whatever the order of notifications and
\* audio events.
THEOREM TypeCorrect == Spec => []TypeOK
  BY AudioInvariant, PTL DEF AudioInv

\* Between notifications CallStateProcessor's sets agree with the calls.
THEOREM SetsMatch == Spec => []SetsMatchCalls
<1>1. AudioInv => SetsMatchCalls
  <2> SUFFICES ASSUME AudioInv, notify = Idle PROVE SetsMatchCalls
    BY DEF SetsMatchCalls
  <2>1. /\ TypeOK /\ SetsInv /\ notify.phase = "IDLE" /\ sets \in SetTypes
    BY Typed, NotifyTypes DEF AudioInv
  <2>2. \A i \in Calls : calls[i].tel \in DOMAIN GroupOf =>
              \/ i \in sets[GroupOf[calls[i].tel]]
              \/ calls[i].byPhone /\ i \in sets["active"]
    BY <2>1, GroupTable DEF SetsInv, Placed, Answering, Muting
  <2>3. ASSUME "stale" \notin odd, NEW g \in Groups PROVE sets[g] \subseteq Live(calls)
    <3> SUFFICES ASSUME NEW i \in sets[g] PROVE i \in Live(calls)
      OBVIOUS
    <3>1. i \in Calls
      BY <2>1 DEF SetTypes
    <3>2. calls[i].tel \in GroupStates \/ calls[i].tel \in RingStates
      BY <2>1, <2>3, <3>1 DEF SetsInv, Nowhere, Turning
    <3> QED BY <3>1, <3>2 DEF Live, GroupStates, RingStates
  <2> QED BY <2>2, <2>3 DEF SetsMatchCalls
<1> QED BY <1>1, AudioInvariant, PTL

\* Nothing is still to come in an empty queue.
LEMMA QuietIs ==
    ASSUME TypeOK, Quiet
    PROVE  /\ RingPending(0) => sets["incoming"] # {}
           /\ AlertPending(0) => sets["alerting"] # {}
<1>1. Len(queue) = 0 /\ notify.phase = "IDLE"
  BY NotifyTypes DEF Quiet
<1>2. \A e : ~Later(0, e)
  BY <1>1 DEF Later
<1> QED BY <1>1, <1>2 DEF RingPending, AlertPending, RingCause, Muting

\* At rest the phone rings only for a call nobody has answered, the retry task
\* apart.
THEOREM RingCaused == Spec => []RingHasCause
<1>1. AudioInv => RingHasCause
  BY QuietIs DEF AudioInv, SoundInv, RingHasCause
<1> QED BY <1>1, AudioInvariant, PTL

\* At rest the waiting tone and the local ringback tone have their call.
THEOREM TonesCaused == Spec => []TonesHaveCause
<1>1. AudioInv => TonesHaveCause
  BY QuietIs DEF AudioInv, SoundInv, TonesHaveCause
<1> QED BY <1>1, AudioInvariant, PTL

\* The only call does not ring aloud once the user has answered it, at any moment and
\* not only at rest, wherever the ring, the look for the note and MuteRinger's two steps
\* come between each other, but for the order in which the note is left for a ringer
\* that has looked for it already ("crossed").
THEOREM AnsweredMuted == Spec => []AnsweredIsMuted
<1>1. AudioInv => AnsweredIsMuted
  <2> SUFFICES ASSUME AudioInv, NEW i \in Calls, AloneAnswered(i),
                      ~Muting, out.playing = {}, "crossed" \notin odd
               PROVE  out.ring # "RINGING"
    BY DEF AnsweredIsMuted, AloneAnswered
  <2> QED BY DEF AudioInv, MuteInv, NoteInv, NoteLeft
<1> QED BY <1>1, AudioInvariant, PTL
=============================================================================
