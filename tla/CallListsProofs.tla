--------------------------- MODULE CallListsProofs ---------------------------
(***************************************************************************)
(* Proofs about CallLists: every value keeps its type, and what fraud      *)
(* detection promises holds whatever is reported, listed, cleared or       *)
(* answered, in any order, for any number of slots, indexes and calls.     *)
(*                                                                         *)
(* Handlers and fraud detection's callbacks map a record of the call       *)
(* manager's state to the one they leave behind, so they are first proved  *)
(* one by one to be Good: the result has its types (Managers), satisfies   *)
(* the invariant of fraud detection (FraudInv), loses no warning           *)
(* (StillWarned) and does to the queue no more than put reports at its end *)
(* (Rest).  Good steps compose (GoodTrans, HandledThen), which gives       *)
(* ReportHandled, the one fact the report queue's actions need.            *)
(*                                                                         *)
(* FraudInv is stronger than what it is for.  A latch names a call that is *)
(* there and has no warning: FinishTrigger, which frees the latch with any *)
(* verdict, and a dial's call under index 0, whose number a list changes,  *)
(* would otherwise break VerdictSticks.  A trigger in progress likewise    *)
(* names no warned call, or its end could overwrite the warning.  That no  *)
(* thread is about to set a call ACTIVE unless Races has "revive" is what   *)
(* the proofs that build on this one need.                                 *)
(***************************************************************************)
EXTENDS CallLists, AscendingProofs, SequenceTheorems

Tables == [Slots -> [0..MaxIdx -> TableCalls]]
Details == [Slots -> [Indexes -> [st: States, type: Types] \cup {NoCall}]]
Frauds == [latch: AfPlaces, stopped: AfPlaces, tasks: SUBSET Tasks, trig: Triggers,
           updates: SUBSET Updates, det: AfPlaces, late: SUBSET Places, abandoned: BOOLEAN]

\* The reports that occur: only a DISCONNECTED report may lack the call's number,
\* and only a dial is reported under index 0.
SoundReports ==
    {r \in Reports : /\ r.st # "DISCONNECTED" => r.num \in Nums
                     /\ r.idx = InitIndex => r.st \in {"DIALING", "DISCONNECTED"}}

Managers == [calls: Tables, queue: Seq(Lists \cup SoundReports), details: Details,
             af: Frauds, screened: SUBSET [place: Places, num: Nums]]

\* A call that is not marked as fraudulent.
Unmarked(c) == There(c) => c.af # "RISK"

\* The invariant of fraud detection.
FraudInv(m) ==
    /\ m.af.latch # NoPlace => There(CallAt(m, m.af.latch)) /\ Unmarked(CallAt(m, m.af.latch))
    /\ m.af.trig # NoTrigger /\ m.af.trig.found # NoCall =>
           Unmarked(CallAt(m, m.af.trig.found.place))
    /\ \A s \in Slots : Unmarked(m.calls[s][InitIndex])
    /\ m.af.det # NoPlace => m.af.latch = m.af.det \/ m.af.abandoned
    /\ m.af.updates # {} => "revive" \in Races

\* A warning stays on the call it was shown for.
Warned(c, d) ==
    There(c) /\ There(d) =>
        (c.af = "RISK" /\ d.num = c.num /\ d.type = c.type => d.af = "RISK")
StillWarned(m, n) == \A p \in Places : Warned(CallAt(m, p), CallAt(n, p))

\* Reports may have been put at the end of the queue, and nothing else.
Grown(q, r) ==
    /\ Len(q) <= Len(r)
    /\ \A k \in 1..Len(q) : r[k] = q[k]
    /\ \A k \in 1..Len(r) : k > Len(q) => r[k] \in SoundReports

Rest(m, n) == n.details = m.details /\ Grown(m.queue, n.queue)

\* What the report handlers and fraud detection's own steps have in common.
Good(m, n) == n \in Managers /\ FraudInv(n) /\ StillWarned(m, n) /\ Rest(m, n)

Write(m, s, i, c) == [m EXCEPT !.calls[s][i] = c]
-----------------------------------------------------------------------------
\* Places are slots and indexes; index 0 is no place.
LEMMA PlaceTypes ==
    /\ \A p \in Places : p # NoPlace /\ p = <<p[1], p[2]>> /\ p[1] \in Slots /\ p[2] \in Indexes
    /\ \A s \in Slots, i \in 0..MaxIdx : <<s, i>> # NoPlace /\ (<<s, i>> \in Places <=> i \in Indexes)
    /\ Indexes \subseteq 0..MaxIdx /\ InitIndex \notin Indexes /\ InitIndex \in 0..MaxIdx
    /\ 0..MaxIdx = Indexes \cup {InitIndex}
  BY ListsAssumption DEF Places, NoPlace, Indexes, InitIndex

\* A table entry is a call or none.
LEMMA CallTypes ==
    /\ \A c \in TableCalls : There(c) <=> c # NoCall
    /\ \A c \in TableCalls : There(c) => /\ c \in [st: States, type: Types, num: Nums, af: AfStates]
    /\ ~There(NoCall) /\ NoCall \in TableCalls
  BY DEF TableCalls, There, NoCall, States

\* Lists and single reports are told apart.
LEMMA QueueTypes ==
    /\ \A q \in Lists : IsList(q)
    /\ \A q \in SoundReports : ~IsList(q)
  BY DEF Lists, SoundReports, Reports, IsList

\* Write changes one entry of the table.
LEMMA WriteIs ==
    ASSUME NEW m \in Managers, NEW s \in Slots, NEW i \in 0..MaxIdx, NEW c \in TableCalls
    PROVE  /\ Write(m, s, i, c) \in Managers
           /\ Write(m, s, i, c).calls[s][i] = c
           /\ \A t \in Slots, j \in 0..MaxIdx :
                 <<t, j>> # <<s, i>> => Write(m, s, i, c).calls[t][j] = m.calls[t][j]
           /\ Write(m, s, i, c).af = m.af /\ Write(m, s, i, c).queue = m.queue
           /\ Write(m, s, i, c).details = m.details /\ Write(m, s, i, c).screened = m.screened
  BY DEF Write, Managers, Tables

\* What is found at the other places, and under index 0.
LEMMA WriteAt ==
    ASSUME NEW m \in Managers, NEW s \in Slots, NEW i \in 0..MaxIdx, NEW c \in TableCalls
    PROVE  /\ \A p \in Places : CallAt(Write(m, s, i, c), p) = IF p = <<s, i>> THEN c ELSE CallAt(m, p)
           /\ \A t \in Slots : Write(m, s, i, c).calls[t][InitIndex] =
                                IF <<t, InitIndex>> = <<s, i>> THEN c ELSE m.calls[t][InitIndex]
<1>1. ASSUME NEW p \in Places
      PROVE  CallAt(Write(m, s, i, c), p) = IF p = <<s, i>> THEN c ELSE CallAt(m, p)
  <2>1. p = <<p[1], p[2]>> /\ p[1] \in Slots /\ p[2] \in 0..MaxIdx
    BY PlaceTypes
  <2> QED BY <2>1, WriteIs DEF CallAt
<1>2. \A t \in Slots : Write(m, s, i, c).calls[t][InitIndex] =
                        IF <<t, InitIndex>> = <<s, i>> THEN c ELSE m.calls[t][InitIndex]
  BY WriteIs, PlaceTypes
<1> QED BY <1>1, <1>2

\* What is found at a place has its type.
LEMMA CallAtType ==
    ASSUME NEW m \in Managers, NEW p \in Places
    PROVE  CallAt(m, p) \in TableCalls
<1>1. p[1] \in Slots /\ p[2] \in 0..MaxIdx
  BY PlaceTypes
<1> QED BY <1>1 DEF Managers, Tables, CallAt

\* The rest is kept if the queue is,
LEMMA RestSame ==
    ASSUME NEW m \in Managers, NEW n, n.details = m.details, n.queue = m.queue
    PROVE  Rest(m, n)
<1>1. Len(m.queue) \in Nat
  BY DEF Managers
<1> QED BY <1>1 DEF Rest, Grown

\* is kept by two steps if by each,
LEMMA RestTrans ==
    ASSUME NEW m \in Managers, NEW n \in Managers, NEW k \in Managers, Rest(m, n), Rest(n, k)
    PROVE  Rest(m, k)
<1>1. Len(m.queue) \in Nat /\ Len(n.queue) \in Nat /\ Len(k.queue) \in Nat
  BY DEF Managers
<1> QED BY <1>1 DEF Rest, Grown

\* and is kept if only fraud detection moves.
LEMMA AfRest ==
    ASSUME NEW m \in Managers, NEW n, n = [m EXCEPT !.af = n.af]
    PROVE  Rest(m, n)
<1>1. n.details = m.details /\ n.queue = m.queue
  BY DEF Managers
<1> QED BY <1>1, RestSame

\* One call is written.
LEMMA WriteGood ==
    ASSUME NEW m \in Managers, FraudInv(m),
           NEW s \in Slots, NEW i \in 0..MaxIdx, NEW c \in TableCalls,
           ~There(c) => m.af.latch # <<s, i>>,
           Unmarked(m.calls[s][i]) => Unmarked(c),
           Warned(m.calls[s][i], c)
    PROVE  Good(m, Write(m, s, i, c))
<1> DEFINE n == Write(m, s, i, c)
<1>1. n \in Managers /\ n.af = m.af
  BY WriteIs
<1>2. \A p \in Places : CallAt(n, p) = IF p = <<s, i>> THEN c ELSE CallAt(m, p)
  BY WriteAt
<1>3. \A t \in Slots : n.calls[t][InitIndex] =
                        IF <<t, InitIndex>> = <<s, i>> THEN c ELSE m.calls[t][InitIndex]
  BY WriteAt
<1>4. StillWarned(m, n)
  <2> SUFFICES ASSUME NEW p \in Places PROVE Warned(CallAt(m, p), CallAt(n, p))
    BY DEF StillWarned
  <2>1. Warned(CallAt(m, p), CallAt(m, p))
    BY DEF Warned
  <2>2. p = <<s, i>> => CallAt(m, p) = m.calls[s][i]
    BY DEF CallAt
  <2> QED BY <1>2, <2>1, <2>2
<1>5. m.af.latch \in AfPlaces /\ m.af.trig \in Triggers
  BY DEF Managers, Frauds
<1>6. m.af.trig # NoTrigger /\ m.af.trig.found # NoCall => m.af.trig.found.place \in Places
  BY <1>5 DEF Triggers, Objects
<1>7. FraudInv(n)
  <2> HIDE DEF n
  <2>0. \A p \in Places : p = <<s, i>> => CallAt(m, p) = m.calls[s][i]
    BY DEF CallAt
  <2>1. m.af.latch # NoPlace => There(CallAt(n, m.af.latch)) /\ Unmarked(CallAt(n, m.af.latch))
    BY <1>2, <1>5, <2>0 DEF FraudInv, AfPlaces
  <2>2. m.af.trig # NoTrigger /\ m.af.trig.found # NoCall =>
            Unmarked(CallAt(n, m.af.trig.found.place))
    BY <1>2, <1>6, <2>0 DEF FraudInv
  <2>3. \A t \in Slots : Unmarked(n.calls[t][InitIndex])
    BY <1>3 DEF FraudInv
  <2> QED BY <1>1, <2>1, <2>2, <2>3 DEF FraudInv
<1>8. Rest(m, n)
  BY WriteIs, RestSame
<1> QED BY <1>1, <1>4, <1>7, <1>8 DEF Good
-----------------------------------------------------------------------------
(* The operators of fraud detection *)

\* The latch never names a dial.
LEMMA NotAPlace ==
    ASSUME NEW m \in Managers, NEW s \in Slots
    PROVE  m.af.latch # <<s, InitIndex>>
<1>1. m.af.latch \in Places \cup {NoPlace}
  BY DEF Managers, Frauds, AfPlaces
<1> QED BY <1>1, PlaceTypes

\* PauseAntiFraudDetect frees the latch of its call and touches nothing but fraud detection.
LEMMA PauseGood ==
    ASSUME NEW m \in Managers, FraudInv(m),
           NEW s \in Slots, NEW i \in 0..MaxIdx, NEW answer \in StopAnswers
    PROVE  LET n == PauseAntiFraudDetect(m, <<s, i>>, answer)
           IN /\ n \in Managers /\ FraudInv(n)
              /\ n = [m EXCEPT !.af = n.af]
              /\ n.af.latch # <<s, i>>
<1> DEFINE p == <<s, i>>
           n == PauseAntiFraudDetect(m, p, answer)
<1>1. CASE m.af.latch # p
  BY <1>1 DEF PauseAntiFraudDetect, Managers
<1>2. CASE m.af.latch = p
  <2>1. i # InitIndex /\ p \in Places
    BY <1>2, NotAPlace, PlaceTypes
  <2>2. n = [m EXCEPT !.af = n.af] /\ n.af \in Frauds /\ n.af.latch = NoPlace /\ n.af.trig = m.af.trig
        /\ (n.af.det # NoPlace => n.af.abandoned) /\ n.af.updates = m.af.updates
    BY <1>2, <2>1, ZenonT(40) DEF PauseAntiFraudDetect, StopAntiFraudService, Managers, Frauds, AfPlaces
  <2> HIDE DEF n
  <2>3. n \in Managers /\ n.calls = m.calls
    BY <2>2 DEF Managers
  <2>4. FraudInv(n)
    BY <2>2, <2>3 DEF FraudInv, CallAt
  <2> QED BY <1>2, <2>1, <2>2, <2>3, <2>4, PlaceTypes DEF n
<1> QED BY <1>1, <1>2

\* StopAntiFraudDetect is PauseAntiFraudDetect and a mark on the call.
LEMMA StopIs ==
    ASSUME NEW m \in Managers, FraudInv(m),
           NEW s \in Slots, NEW i \in 0..MaxIdx, NEW answer \in StopAnswers
    PROVE  LET q == PauseAntiFraudDetect(m, <<s, i>>, answer)
               n == StopAntiFraudDetect(m, <<s, i>>, answer)
           IN n = IF m.af.latch # <<s, i>> THEN q
                  ELSE Write(q, s, i, [m.calls[s][i] EXCEPT !.af = "STOPPED"])
  BY PauseGood DEF StopAntiFraudDetect, PauseAntiFraudDetect, SetAf, Write, StopAntiFraudService, Managers, Tables

\* StopAntiFraudDetect is Good and frees the latch of its call.
LEMMA StopGood ==
    ASSUME NEW m \in Managers, FraudInv(m),
           NEW s \in Slots, NEW i \in 0..MaxIdx, NEW answer \in StopAnswers
    PROVE  LET n == StopAntiFraudDetect(m, <<s, i>>, answer)
           IN /\ Good(m, n) /\ n.af.latch # <<s, i>>
              /\ n = [m EXCEPT !.af = n.af, !.calls[s][i] = n.calls[s][i]]
              /\ n.calls[s][i] \in {m.calls[s][i], [m.calls[s][i] EXCEPT !.af = "STOPPED"]}
<1> DEFINE n == StopAntiFraudDetect(m, <<s, i>>, answer)
           q == PauseAntiFraudDetect(m, <<s, i>>, answer)
           c == m.calls[s][i]
           d == [c EXCEPT !.af = "STOPPED"]
<1>1. /\ q \in Managers /\ FraudInv(q) /\ q = [m EXCEPT !.af = q.af]
      /\ q.af.latch # <<s, i>>
  BY PauseGood
<1>2. q.calls = m.calls /\ c \in TableCalls
  BY <1>1 DEF Managers, Tables
<1>3. StillWarned(m, q)
  BY <1>2 DEF StillWarned, Warned, CallAt
<1>4. CASE m.af.latch # <<s, i>>
  <2>1. n = q
    BY <1>4, StopIs
  <2> HIDE DEF n, q
  <2>2. n = [m EXCEPT !.af = n.af, !.calls[s][i] = n.calls[s][i]]
    <3>1. [m.calls EXCEPT ![s][i] = m.calls[s][i]] = m.calls
      BY DEF Managers, Tables
    <3>2. [m EXCEPT !.af = q.af, !.calls[s][i] = m.calls[s][i]] = [m EXCEPT !.af = q.af]
      BY <3>1 DEF Managers
    <3> QED BY <1>1, <1>2, <2>1, <3>2
  <2>3. Rest(m, q)
    BY <1>1, AfRest
  <2> QED BY <1>1, <1>2, <1>3, <2>1, <2>2, <2>3 DEF Good, n, q
<1>5. CASE m.af.latch = <<s, i>>
  <2>1. n = Write(q, s, i, d)
    BY <1>5, StopIs
  <2>2. There(c) /\ Unmarked(c)
    <3>1. CallAt(m, <<s, i>>) = c
      BY DEF CallAt
    <3> QED BY <1>5, <3>1, PlaceTypes DEF FraudInv
  <2>3. d \in TableCalls /\ There(d) /\ Unmarked(d) /\ Warned(c, d)
    BY <1>2, <2>2, CallTypes DEF TableCalls, AfStates, There, Unmarked, Warned
  <2> HIDE DEF n, q, d
  <2>4. Good(q, n)
    BY <1>1, <1>2, <2>1, <2>3, WriteGood
  <2>5. n.af = q.af /\ n.calls[s][i] = d
    BY <1>1, <2>1, <2>3, WriteIs
  <2>6. n = [m EXCEPT !.af = n.af, !.calls[s][i] = n.calls[s][i]]
    <3>1. Write([m EXCEPT !.af = q.af], s, i, d) = [m EXCEPT !.af = q.af, !.calls[s][i] = d]
      BY DEF Write, Managers
    <3> QED BY <1>1, <2>1, <2>5, <3>1
  <2>7. StillWarned(m, n)
    BY <1>2, <2>4 DEF Good, StillWarned, CallAt
  <2>8. Rest(m, n)
    <3>1. Rest(m, q)
      BY <1>1, AfRest
    <3> QED BY <1>1, <2>4, <3>1, RestTrans DEF Good
  <2> QED BY <1>1, <2>4, <2>5, <2>6, <2>7, <2>8 DEF Good, n, d
<1> QED BY <1>4, <1>5

\* To do nothing is Good.
LEMMA GoodSame == ASSUME NEW m \in Managers, FraudInv(m) PROVE Good(m, m)
  BY RestSame DEF Good, StillWarned, Warned

\* A call of the table can be held on to.
LEMMA HeldType ==
    ASSUME NEW m \in Managers, NEW p \in Places, There(CallAt(m, p))
    PROVE  Held(m, p) \in Objects
<1>1. CallAt(m, p) \in [st: States, type: Types, num: Nums, af: AfStates]
  BY CallAtType, CallTypes
<1> QED BY <1>1 DEF Held, Objects

\* A detection is set up only for a call without a warning.
LEMMA SetupGood ==
    ASSUME NEW m \in Managers, FraudInv(m),
           NEW p \in Places, There(CallAt(m, p))
    PROVE  LET n == SetupAntiFraudService(m, p)
           IN Good(m, n) /\ n = [m EXCEPT !.af = n.af]
<1> DEFINE n == SetupAntiFraudService(m, p)
           c == CallAt(m, p)
<1>1. CASE c.af \in Verdicts \/ m.af.latch # NoPlace
  <2>1. n = m /\ n = [m EXCEPT !.af = n.af]
    BY <1>1 DEF SetupAntiFraudService, Managers
  <2> HIDE DEF n
  <2> QED BY <2>1, GoodSame DEF n
<1>2. CASE c.af \notin Verdicts /\ m.af.latch = NoPlace
  <2>0. c \in [st: States, type: Types, num: Nums, af: AfStates] /\ m.af \in Frauds
    <3>1. c \in TableCalls
      BY CallAtType
    <3> QED BY <3>1, CallTypes DEF Managers
  <2>1. n = [m EXCEPT !.af.latch = p, !.af.tasks = @ \cup {StartTask(m, p)}]
    BY <1>2 DEF SetupAntiFraudService
  <2>2. StartTask(m, p) \in Tasks
    BY HeldType DEF StartTask, Tasks
  <2>3. /\ n = [m EXCEPT !.af = n.af] /\ n.af \in Frauds
        /\ n.af = [m.af EXCEPT !.latch = p, !.tasks = @ \cup {StartTask(m, p)}]
    <3>1. m.af.tasks \cup {StartTask(m, p)} \in SUBSET Tasks
      BY <2>0, <2>2 DEF Frauds
    <3> HIDE DEF n
    <3>2. /\ n = [m EXCEPT !.af = n.af]
          /\ n.af = [m.af EXCEPT !.latch = p, !.tasks = @ \cup {StartTask(m, p)}]
      BY <2>0, <2>1 DEF Managers, Frauds
    <3> QED BY <2>0, <3>1, <3>2 DEF Frauds, AfPlaces
  <2> HIDE DEF n
  <2>4. n \in Managers /\ n.calls = m.calls
    BY <2>3 DEF Managers
  <2>5. /\ n.af.latch = p /\ n.af.trig = m.af.trig /\ n.af.det = m.af.det
        /\ n.af.abandoned = m.af.abandoned /\ n.af.updates = m.af.updates
    BY <2>0, <2>3 DEF Frauds
  <2>6. FraudInv(n)
    BY <1>2, <2>4, <2>5, PlaceTypes DEF FraudInv, CallAt, Unmarked, Verdicts
  <2>7. StillWarned(m, n)
    BY <2>4 DEF StillWarned, Warned, CallAt
  <2> QED BY <2>3, <2>4, <2>6, <2>7, AfRest DEF Good, n
<1> QED BY <1>1, <1>2

\* A change of fraud detection alone is Good if it keeps FraudInv.
LEMMA AfGood ==
    ASSUME NEW m \in Managers, NEW f \in Frauds, FraudInv([m EXCEPT !.af = f])
    PROVE  Good(m, [m EXCEPT !.af = f])
<1>1. [m EXCEPT !.af = f] \in Managers /\ [m EXCEPT !.af = f].calls = m.calls
  BY DEF Managers
<1>2. StillWarned(m, [m EXCEPT !.af = f])
  BY <1>1 DEF StillWarned, Warned, CallAt
<1>3. Rest(m, [m EXCEPT !.af = f])
  <2>1. [m EXCEPT !.af = f].details = m.details /\ [m EXCEPT !.af = f].queue = m.queue
    BY DEF Managers
  <2> QED BY <2>1, RestSame
<1> QED BY <1>1, <1>2, <1>3 DEF Good

\* TriggerAntiFraud remembers only a call that has no warning.
LEMMA TriggerGood ==
    ASSUME NEW m \in Managers, FraudInv(m), NEW state \in AfStates
    PROVE  Good(m, TriggerAntiFraud(m, state))
<1> DEFINE n == TriggerAntiFraud(m, state)
           p == m.af.latch
<1>1. CASE p = NoPlace
  <2>1. n = m
    BY <1>1 DEF TriggerAntiFraud
  <2> QED BY <2>1, GoodSame
<1>2. CASE p # NoPlace
  <2>1. p \in Places /\ m.af \in Frauds
    BY <1>2 DEF Managers, Frauds, AfPlaces
  <2>2. CallAt(m, p) \in [st: States, type: Types, num: Nums, af: AfStates] /\ Unmarked(CallAt(m, p))
    BY <1>2, <2>1, CallAtType, CallTypes DEF FraudInv
  <2>3. PICK o \in Objects \cup {NoCall} :
            /\ n = [m EXCEPT !.af.trig = [state |-> state, found |-> o]]
            /\ o # NoCall => o.place = p
    <3>1. CASE n = [m EXCEPT !.af.trig = [state |-> state, found |-> NoCall]]
      BY <3>1
    <3>2. CASE n = [m EXCEPT !.af.trig = [state |-> state, found |-> Held(m, p)]]
      <4>1. Held(m, p) \in Objects /\ Held(m, p).place = p
        BY <1>2, <2>1, HeldType DEF FraudInv, Held
      <4> QED BY <3>2, <4>1
    <3> QED BY <1>2, <3>1, <3>2 DEF TriggerAntiFraud
  <2> DEFINE t == [state |-> state, found |-> o]
             f == [m.af EXCEPT !.trig = t]
  <2>4. t \in Triggers
    BY DEF Triggers
  <2>5. n = [m EXCEPT !.af = f] /\ f \in Frauds
    BY <2>1, <2>3, <2>4 DEF Managers, Frauds
  <2>6. /\ f.latch = m.af.latch /\ f.det = m.af.det /\ f.abandoned = m.af.abandoned
        /\ f.trig.found = o /\ f.updates = m.af.updates
    BY <2>1 DEF Frauds
  <2> HIDE DEF n, f
  <2>7. n.af = f /\ n.calls = m.calls
    BY <2>5 DEF Managers
  <2>8. FraudInv(n)
    BY <2>2, <2>3, <2>6, <2>7 DEF FraudInv, CallAt
  <2> QED BY <2>5, <2>8, AfGood DEF n
<1> QED BY <1>1, <1>2

\* A step within af that leaves the latch, the trigger and the detection alone, and
\* lets a thread set a call ACTIVE only where that can be late.
LEMMA AfMinor ==
    ASSUME NEW m \in Managers, FraudInv(m), NEW f \in Frauds,
           f.latch = m.af.latch, f.trig = m.af.trig, f.det = m.af.det,
           f.abandoned = m.af.abandoned,
           f.updates \subseteq m.af.updates \/ "revive" \in Races
    PROVE  Good(m, [m EXCEPT !.af = f])
<1>1. FraudInv([m EXCEPT !.af = f])
  BY DEF FraudInv, CallAt, Managers, Frauds
<1> QED BY <1>1, AfGood

\* Good after a step that leaves the table alone is Good.
LEMMA GoodTrans ==
    ASSUME NEW m \in Managers, NEW n \in Managers, NEW k, m.calls = n.calls, Rest(m, n),
           Good(n, k)
    PROVE  Good(m, k)
<1>1. Rest(m, k)
  BY RestTrans DEF Good
<1> QED BY <1>1 DEF Good, StillWarned, CallAt

\* So is Good before such a step.
LEMMA GoodThen ==
    ASSUME NEW m \in Managers, NEW n, NEW k, Good(m, n), Good(n, k), k.calls = n.calls
    PROVE  Good(m, k)
<1>1. n \in Managers /\ k \in Managers /\ Rest(m, n) /\ Rest(n, k)
  BY DEF Good
<1>2. Rest(m, k)
  BY <1>1, RestTrans
<1> QED BY <1>2 DEF Good, StillWarned, CallAt

\* That a thread is about to set a call ACTIVE changes nothing yet.
LEMMA SetActiveAgainGood ==
    ASSUME NEW m \in Managers, FraudInv(m), NEW o \in Objects, NEW by \in {"trigger", "celia"},
           NEW late \in Late
    PROVE  LET n == SetActiveAgain(m, o, by, late)
           IN Good(m, n) /\ n = [m EXCEPT !.af = n.af] /\ n.calls = m.calls
<1> DEFINE n == SetActiveAgain(m, o, by, late)
           u == [by |-> by, call |-> o]
           f == [m.af EXCEPT !.updates = @ \cup {u}]
<1>1. CASE n = m
  <2>1. m = [m EXCEPT !.af = m.af]
    BY DEF Managers
  <2> HIDE DEF n
  <2> QED BY <1>1, <2>1, GoodSame DEF n
<1>2. CASE late /\ n = [m EXCEPT !.af.updates = @ \cup {u}]
  <2>1. m.af \in Frauds /\ m.af.updates \cup {u} \in SUBSET Updates
    BY DEF Managers, Frauds, Updates
  <2> HIDE DEF u
  <2>2. f \in Frauds
    BY <2>1 DEF Frauds
  <2>3. /\ f.latch = m.af.latch /\ f.trig = m.af.trig /\ f.det = m.af.det
        /\ f.abandoned = m.af.abandoned
    BY <2>1 DEF Frauds
  <2> HIDE DEF n
  <2>4. n = [m EXCEPT !.af = f]
    BY <1>2, <2>1 DEF Managers, Frauds
  <2> HIDE DEF f
  <2>5. Good(m, n)
    BY <1>2, <2>2, <2>3, <2>4, AfMinor DEF Late
  <2>6. n = [m EXCEPT !.af = n.af] /\ n.calls = m.calls
    BY <2>4 DEF Managers
  <2> QED BY <2>5, <2>6 DEF n
<1> QED BY <1>1, <1>2 DEF SetActiveAgain

\* The second half of TriggerAntiFraud marks no call that has a warning.
LEMMA FinishGood ==
    ASSUME NEW m \in Managers, FraudInv(m), m.af.trig # NoTrigger, NEW late \in Late
    PROVE  Good(m, FinishTrigger(m, late))
<1> DEFINE t == m.af.trig
           p == t.found.place
           c == CallAt(m, p)
           f == [m.af EXCEPT !.trig = NoTrigger,
                             !.latch = IF t.state \in Verdicts THEN NoPlace ELSE @,
                             !.abandoned = @ \/ (t.state \in Verdicts /\ m.af.det # NoPlace)]
           q == [m EXCEPT !.af = f]
           d == [c EXCEPT !.af = t.state]
<1>1. m.af \in Frauds /\ t \in [state: AfStates, found: Objects \cup {NoCall}]
  BY DEF Managers, Frauds, Triggers
<1>2. f \in Frauds /\ f.trig = NoTrigger /\ f.det = m.af.det /\ f.updates = m.af.updates
      /\ f.latch = (IF t.state \in Verdicts THEN NoPlace ELSE m.af.latch)
      /\ f.abandoned = (m.af.abandoned \/ (t.state \in Verdicts /\ m.af.det # NoPlace))
  BY <1>1 DEF Frauds, AfPlaces, Triggers
<1>3. [m EXCEPT !.af.trig = NoTrigger,
                !.af.latch = IF t.state \in Verdicts THEN NoPlace ELSE @,
                !.af.abandoned = @ \/ (t.state \in Verdicts /\ m.af.det # NoPlace)] = q
  BY <1>1 DEF Managers, Frauds
<1>4. q \in Managers /\ q.calls = m.calls /\ q.af = f
  BY <1>2 DEF Managers
<1> HIDE DEF f, q
<1>5. FraudInv(q) /\ Good(m, q)
  <2>1. FraudInv(q)
    BY <1>2, <1>4 DEF FraudInv, CallAt
  <2> QED BY <1>2, <2>1, AfGood DEF q
<1>6. CASE t.found # NoCall /\ StillThere(m, t.found)
  <2> DEFINE n == Write(q, p[1], p[2], d)
  <2>0. /\ t.found \in Objects /\ p \in Places /\ c \in TableCalls /\ There(c) /\ Unmarked(c)
        /\ p = <<p[1], p[2]>> /\ p[1] \in Slots /\ p[2] \in Indexes /\ p[2] \in 0..MaxIdx
    <3>1. t.found \in Objects /\ p \in Places
      BY <1>1, <1>6 DEF Objects
    <3> QED BY <1>6, <3>1, CallAtType, PlaceTypes DEF FraudInv, StillThere, There
  <2>1. d \in TableCalls /\ There(d) /\ (t.state \notin Verdicts => Unmarked(d)) /\ d.af = t.state
    BY <1>1, <2>0, CallTypes DEF TableCalls, There, Unmarked, Verdicts
  <2>2. n \in Managers /\ n.af = f
    <3> HIDE DEF d, p
    <3> QED BY <1>4, <2>0, <2>1, WriteIs
  <2>3. \A x \in Places : CallAt(n, x) = IF x = p THEN d ELSE CallAt(m, x)
    <3>1. \A x \in Places : CallAt(q, x) = CallAt(m, x)
      <4> HIDE DEF d, p
      <4> QED BY <1>4 DEF CallAt
    <3>2. \A x \in Places : CallAt(n, x) = IF x = <<p[1], p[2]>> THEN d ELSE CallAt(q, x)
      <4> HIDE DEF d, p
      <4> QED BY <1>4, <2>0, <2>1, WriteAt
    <3> QED BY <2>0, <3>1, <3>2
  <2>4. \A s \in Slots : n.calls[s][InitIndex] = m.calls[s][InitIndex]
    <3> HIDE DEF d, p
    <3>1. \A s \in Slots : n.calls[s][InitIndex] =
             IF <<s, InitIndex>> = <<p[1], p[2]>> THEN d ELSE q.calls[s][InitIndex]
      BY <1>4, <2>0, <2>1, WriteAt
    <3> QED BY <1>4, <2>0, <3>1, PlaceTypes
  <2> HIDE DEF n, d
  <2>5. StillWarned(m, n)
    BY <2>0, <2>3 DEF StillWarned, Warned, Unmarked
  <2>6. n.af.latch # NoPlace => There(CallAt(n, n.af.latch)) /\ Unmarked(CallAt(n, n.af.latch))
    <3> SUFFICES ASSUME n.af.latch # NoPlace
                 PROVE  There(CallAt(n, n.af.latch)) /\ Unmarked(CallAt(n, n.af.latch))
      OBVIOUS
    <3>1. t.state \notin Verdicts /\ n.af.latch = m.af.latch /\ m.af.latch \in Places
      BY <1>2, <2>2, <1>1 DEF Frauds, AfPlaces
    <3> QED BY <2>1, <2>3, <3>1 DEF FraudInv
  <2>7. FraudInv(n)
    BY <1>2, <2>2, <2>4, <2>6 DEF FraudInv
  <2>8. Rest(m, n)
    <3>1. q.details = m.details /\ q.queue = m.queue
      BY DEF q, Managers
    <3>2. n.details = q.details /\ n.queue = q.queue
      BY <1>4, <2>0, <2>1, WriteIs DEF n
    <3> QED BY <3>1, <3>2, RestSame
  <2>9. Good(m, n)
    BY <2>2, <2>5, <2>7, <2>8 DEF Good
  <2>10. FinishTrigger(m, late) = SetActiveAgain(n, t.found, "trigger", late)
    <3>1. SetAf(q, p, t.state) = n
      BY <1>4, <2>0 DEF SetAf, Write, CallAt, Managers, Tables, n, d
    <3> QED BY <1>3, <1>6, <3>1 DEF FinishTrigger
  <2>11. LET k == SetActiveAgain(n, t.found, "trigger", late) IN Good(n, k) /\ k.calls = n.calls
    BY <2>0, <2>2, <2>7, SetActiveAgainGood
  <2> QED BY <2>9, <2>10, <2>11, GoodThen
<1>7. CASE ~(t.found # NoCall /\ StillThere(m, t.found))
  BY <1>3, <1>5, <1>7 DEF FinishTrigger
<1> QED BY <1>6, <1>7

\* A result of the service is Good.
LEMMA RecordGood ==
    ASSUME NEW m \in Managers, FraudInv(m), NEW p \in Places, NEW state \in AfStates
    PROVE  Good(m, RecordDetectResult(m, p, state))
<1>1. CASE m.af.stopped = p
  <2> DEFINE f == [m.af EXCEPT !.stopped = NoPlace]
  <2>1. m.af \in Frauds /\ f \in Frauds
    BY DEF Managers, Frauds, AfPlaces
  <2>2. RecordDetectResult(m, p, state) = [m EXCEPT !.af = f]
    BY <1>1 DEF RecordDetectResult, Managers
  <2>3. FraudInv([m EXCEPT !.af = f])
    BY <2>1 DEF FraudInv, CallAt, Managers, Frauds
  <2> QED BY <2>1, <2>2, <2>3, AfGood
<1>2. CASE m.af.stopped # p
  BY <1>2, TriggerGood DEF RecordDetectResult
<1> QED BY <1>1, <1>2

\* To give up a start is Good.
LEMMA GiveUpGood ==
    ASSUME NEW m \in Managers, FraudInv(m), NEW t \in Tasks, NEW answer \in StopAnswers
    PROVE  Good(m, GiveUpStart(m, t, answer))
<1> DEFINE p == t.call.place
<1>1. p = <<p[1], p[2]>> /\ p[1] \in Slots /\ p[2] \in 0..MaxIdx
  BY PlaceTypes DEF Tasks, Objects
<1>2. Good(m, StopAntiFraudDetect(m, <<p[1], p[2]>>, answer))
  BY <1>1, StopGood
<1> QED BY <1>1, <1>2, GoodSame DEF GiveUpStart

\* A task that leaves the tasks.
LEMMA TaskLeaves ==
    ASSUME NEW m \in Managers, FraudInv(m), NEW t \in Tasks
    PROVE  LET f == [m.af EXCEPT !.tasks = @ \ {t}]
               q == [m EXCEPT !.af = f]
           IN /\ f \in Frauds /\ [m EXCEPT !.af.tasks = @ \ {t}] = q
              /\ f.latch = m.af.latch /\ f.trig = m.af.trig /\ f.det = m.af.det
              /\ f.abandoned = m.af.abandoned /\ f.updates = m.af.updates
              /\ q \in Managers /\ FraudInv(q) /\ q.af = f /\ q.calls = m.calls /\ Rest(m, q)
              /\ Good(m, q)
<1> DEFINE f == [m.af EXCEPT !.tasks = @ \ {t}]
           q == [m EXCEPT !.af = f]
<1>1. /\ m.af \in Frauds /\ f \in Frauds
      /\ f.latch = m.af.latch /\ f.trig = m.af.trig /\ f.det = m.af.det
      /\ f.abandoned = m.af.abandoned /\ f.updates = m.af.updates
  BY DEF Managers, Frauds
<1>2. [m EXCEPT !.af.tasks = @ \ {t}] = q
  BY <1>1 DEF Managers, Frauds
<1>3. q.af = f /\ q.calls = m.calls
  BY <1>1 DEF Managers
<1> HIDE DEF f
<1>4. Good(m, q)
  BY <1>1, AfMinor
<1> QED BY <1>1, <1>2, <1>3, <1>4 DEF Good, f

\* A task that goes on under another pc.
LEMMA TaskGoesOn ==
    ASSUME NEW f \in Frauds, NEW t \in Tasks, NEW pc \in {"checked", "started"}
    PROVE  f.tasks \cup {[t EXCEPT !.pc = pc]} \in SUBSET Tasks
<1>1. [t EXCEPT !.pc = pc] \in Tasks
  BY DEF Tasks
<1> QED BY <1>1 DEF Frauds

\* The start task is Good whatever the service answers.
LEMMA StartGood ==
    ASSUME NEW m \in Managers, FraudInv(m), NEW t \in Tasks, NEW ok \in BOOLEAN,
           NEW answer \in StopAnswers
    PROVE  Good(m, StartAntiFraudService(m, t, ok, answer))
<1> DEFINE f == [m.af EXCEPT !.tasks = @ \ {t}]
           q == [m EXCEPT !.af = f]
           g == [f EXCEPT !.tasks = @ \cup {[t EXCEPT !.pc = "checked"]}]
<1>1. /\ f \in Frauds /\ [m EXCEPT !.af.tasks = @ \ {t}] = q
      /\ q \in Managers /\ FraudInv(q) /\ q.af = f /\ q.calls = m.calls /\ Rest(m, q)
      /\ Good(m, q)
  BY TaskLeaves
<1> HIDE DEF f, q
<1>2. CASE ok /\ m.af.latch = t.call.place
  <2>1. f.tasks \cup {[t EXCEPT !.pc = "checked"]} \in SUBSET Tasks
    BY <1>1, TaskGoesOn
  <2>2. /\ g \in Frauds
        /\ g.latch = f.latch /\ g.trig = f.trig /\ g.det = f.det /\ g.abandoned = f.abandoned
        /\ g.updates = f.updates
    BY <1>1, <2>1 DEF Frauds
  <2>3. StartAntiFraudService(m, t, ok, answer) = [q EXCEPT !.af = g]
    BY <1>1, <1>2 DEF StartAntiFraudService, Managers, Frauds
  <2> HIDE DEF g
  <2>4. Good(q, [q EXCEPT !.af = g])
    BY <1>1, <2>2, AfMinor
  <2> QED BY <1>1, <2>3, <2>4, GoodTrans
<1>3. CASE ~(ok /\ m.af.latch = t.call.place)
  <2>1. Good(q, GiveUpStart(q, t, answer))
    BY <1>1, GiveUpGood
  <2>2. StartAntiFraudService(m, t, ok, answer) = GiveUpStart(q, t, answer)
    BY <1>1, <1>3 DEF StartAntiFraudService
  <2> QED BY <1>1, <2>1, <2>2, GoodTrans
<1> QED BY <1>2, <1>3

\* AFS is started for a call the latch names, or the detection counts as abandoned.
LEMMA DetectGood ==
    ASSUME NEW m \in Managers, FraudInv(m), NEW t \in Tasks, NEW ok \in BOOLEAN,
           NEW answer \in StopAnswers
    PROVE  Good(m, AntiFraudStartDetect(m, t, ok, answer))
<1> DEFINE f == [m.af EXCEPT !.tasks = @ \ {t}]
           q == [m EXCEPT !.af = f]
           g == [f EXCEPT !.det = t.call.place,
                          !.abandoned = m.af.latch # t.call.place,
                          !.tasks = @ \cup {[t EXCEPT !.pc = "started"]}]
<1>1. /\ f \in Frauds /\ [m EXCEPT !.af.tasks = @ \ {t}] = q
      /\ f.latch = m.af.latch
      /\ q \in Managers /\ FraudInv(q) /\ q.af = f /\ q.calls = m.calls /\ Rest(m, q)
      /\ Good(m, q)
  BY TaskLeaves
<1> HIDE DEF f, q
<1>2. CASE ok
  <2>1. f.tasks \cup {[t EXCEPT !.pc = "started"]} \in SUBSET Tasks /\ t.call.place \in Places
    BY <1>1, TaskGoesOn DEF Tasks, Objects
  <2>2. /\ g \in Frauds
        /\ g.latch = f.latch /\ g.trig = f.trig /\ g.det = t.call.place
        /\ g.abandoned = (m.af.latch # t.call.place) /\ g.updates = f.updates
    BY <1>1, <2>1 DEF Frauds, AfPlaces
  <2>3. AntiFraudStartDetect(m, t, ok, answer) = [q EXCEPT !.af = g]
    BY <1>1, <1>2 DEF AntiFraudStartDetect, Managers, Frauds
  <2> HIDE DEF g
  <2>4. [q EXCEPT !.af = g].af = g /\ [q EXCEPT !.af = g].calls = q.calls
    BY <1>1 DEF Managers
  <2> DEFINE n == [q EXCEPT !.af = g]
  <2>5. FraudInv(n)
    <3>1. n.af = g /\ \A p : CallAt(n, p) = CallAt(q, p)
      BY <2>4 DEF CallAt
    <3>2. n.af.det # NoPlace => n.af.latch = n.af.det \/ n.af.abandoned
      BY <1>1, <2>2, <3>1
    <3>3. n.calls = q.calls
      BY <2>4
    <3> HIDE DEF n
    <3> QED BY <1>1, <2>2, <3>1, <3>2, <3>3 DEF FraudInv
  <2>6. Good(q, [q EXCEPT !.af = g])
    BY <1>1, <2>2, <2>5, AfGood
  <2> QED BY <1>1, <2>3, <2>6, GoodTrans
<1>3. CASE ~ok
  <2>1. Good(q, GiveUpStart(q, t, answer))
    BY <1>1, GiveUpGood
  <2>2. AntiFraudStartDetect(m, t, ok, answer) = GiveUpStart(q, t, answer)
    BY <1>1, <1>3 DEF AntiFraudStartDetect
  <2> QED BY <1>1, <2>1, <2>2, GoodTrans
<1> QED BY <1>2, <1>3

\* So is its announcement.
LEMMA AnnounceGood ==
    ASSUME NEW m \in Managers, FraudInv(m), NEW t \in Tasks
    PROVE  Good(m, AnnounceStart(m, t))
<1> DEFINE q == [m EXCEPT !.af = [m.af EXCEPT !.tasks = @ \ {t}]]
<1>1. /\ [m EXCEPT !.af.tasks = @ \ {t}] = q
      /\ q \in Managers /\ FraudInv(q) /\ q.calls = m.calls /\ Rest(m, q)
  BY TaskLeaves
<1>2. AnnounceStart(m, t) = TriggerAntiFraud(q, "STARTED")
  BY <1>1 DEF AnnounceStart
<1> HIDE DEF q
<1> QED BY <1>1, <1>2, TriggerGood, GoodTrans DEF AfStates

\* The assistant takes over a call that is there.
LEMMA TakeOverGood ==
    ASSUME NEW m \in Managers, FraudInv(m), NEW p \in Places, There(CallAt(m, p)),
           NEW answer \in StopAnswers, NEW late \in Late
    PROVE  Good(m, TakeOver(m, p, answer, late))
<1> DEFINE n == StopAntiFraudDetect(m, p, answer)
<1>1. p = <<p[1], p[2]>> /\ p[1] \in Slots /\ p[2] \in 0..MaxIdx
  BY PlaceTypes
<1>2. Good(m, StopAntiFraudDetect(m, <<p[1], p[2]>>, answer))
  BY <1>1, StopGood
<1>3. Good(m, n) /\ n \in Managers /\ FraudInv(n)
  BY <1>1, <1>2 DEF Good
<1>4. Held(m, p) \in Objects
  BY HeldType
<1> HIDE DEF n
<1>5. LET k == SetActiveAgain(n, Held(m, p), "celia", late) IN Good(n, k) /\ k.calls = n.calls
  BY <1>3, <1>4, SetActiveAgainGood
<1> QED BY <1>3, <1>5, GoodThen DEF TakeOver, n

\* The late write changes the state of a call and nothing else.
LEMMA UpdateGood ==
    ASSUME NEW m \in Managers, FraudInv(m), NEW u \in Updates
    PROVE  Good(m, UpdateActiveCall(m, u))
<1> DEFINE f == [m.af EXCEPT !.updates = @ \ {u}]
           q == [m EXCEPT !.af = f]
           p == u.call.place
           d == [CallAt(m, p) EXCEPT !.st = "ACTIVE"]
<1>1. /\ f \in Frauds /\ [m EXCEPT !.af.updates = @ \ {u}] = q
      /\ f.latch = m.af.latch /\ f.trig = m.af.trig /\ f.det = m.af.det
      /\ f.abandoned = m.af.abandoned /\ f.updates \subseteq m.af.updates
  BY DEF Managers, Frauds
<1>2. q \in Managers /\ q.calls = m.calls
  BY <1>1 DEF Managers
<1>3. Good(m, q) /\ FraudInv(q) /\ Rest(m, q)
  <2> HIDE DEF f
  <2>1. Good(m, q)
    BY <1>1, AfMinor
  <2> QED BY <2>1 DEF Good
<1> HIDE DEF f, q
<1>4. CASE StillThere(m, u.call)
  <2>1. p \in Places /\ p = <<p[1], p[2]>> /\ p[1] \in Slots /\ p[2] \in 0..MaxIdx
    BY PlaceTypes DEF Updates, Objects
  <2>2. CallAt(m, p) \in TableCalls /\ There(CallAt(m, p)) /\ CallAt(m, p) = q.calls[p[1]][p[2]]
    BY <1>2, <1>4, <2>1, CallAtType DEF StillThere, There, CallAt
  <2>3. /\ d \in TableCalls /\ There(d) /\ Warned(CallAt(m, p), d)
        /\ Unmarked(CallAt(m, p)) => Unmarked(d)
    BY <2>2, CallTypes DEF TableCalls, There, Warned, Unmarked, States
  <2>4. UpdateActiveCall(m, u) = Write(q, p[1], p[2], d)
    BY <1>1, <1>2, <1>4, <2>1, <2>2 DEF UpdateActiveCall, Write, Managers, Tables
  <2> HIDE DEF d
  <2>5. Good(q, Write(q, p[1], p[2], d))
    BY <1>2, <1>3, <2>1, <2>2, <2>3, WriteGood
  <2> QED BY <1>2, <1>3, <2>4, <2>5, GoodTrans
<1>5. CASE ~StillThere(m, u.call)
  BY <1>1, <1>3, <1>5 DEF UpdateActiveCall
<1> QED BY <1>4, <1>5
-----------------------------------------------------------------------------
(* The handlers of one call's report *)

\* Only the call at index i of slot s and calls without an index may differ.
Local(m, n, s, i) == \A p \in Places : p # <<s, i>> => CallAt(n, p) = CallAt(m, p)

\* What a handler of a report about the call at index i of slot s does.
Handled(m, n, s, i) == Good(m, n) /\ Local(m, n, s, i)

\* A call under another type is another object.
Retyped(c, type) == IF c.type = type THEN c ELSE [c EXCEPT !.type = type, !.af = "DEFAULT"]
Changes(c, type, st) == [Retyped(c, type) EXCEPT !.st = st]

\* A change of state and type keeps a call what it is; a new object has no warning.
LEMMA ChangesType ==
    ASSUME NEW c \in TableCalls, There(c), NEW type \in Types, NEW st \in States
    PROVE  /\ Changes(c, type, st) \in TableCalls /\ There(Changes(c, type, st))
           /\ Changes(c, type, st).st = st /\ Changes(c, type, st).type = type
           /\ Changes(c, type, st).num = c.num
           /\ Unmarked(c) => Unmarked(Changes(c, type, st))
           /\ Warned(c, Changes(c, type, st))
  BY CallTypes DEF Changes, Retyped, TableCalls, There, Unmarked, Warned, AfStates, States

\* To do nothing is to have handled a report.
LEMMA HandledSame ==
    ASSUME NEW m \in Managers, FraudInv(m), NEW s, NEW i
    PROVE  Handled(m, m, s, i)
  BY GoodSame DEF Handled, Local

\* Two handlers in a row handle it too, unless the second changes a call with a warning.
LEMMA HandledThen ==
    ASSUME NEW m \in Managers, NEW n, NEW k, NEW s \in Slots, NEW i \in 0..MaxIdx,
           Handled(m, n, s, i), Handled(n, k, s, i),
           n.calls[s][i] = m.calls[s][i] \/ Unmarked(m.calls[s][i])
    PROVE  Handled(m, k, s, i)
<1>1. n \in Managers /\ k \in Managers /\ FraudInv(k)
  BY DEF Handled, Good
<1>2. ASSUME NEW p \in Places PROVE Warned(CallAt(m, p), CallAt(k, p))
  <2>1. CASE p # <<s, i>>
    BY <2>1 DEF Handled, Local, Warned
  <2>2. CASE p = <<s, i>>
    <3>1. CallAt(m, p) = m.calls[s][i] /\ CallAt(n, p) = n.calls[s][i]
      BY <2>2 DEF CallAt
    <3>2. Warned(CallAt(n, p), CallAt(k, p))
      BY DEF Handled, Good, StillWarned
    <3> QED BY <3>1, <3>2 DEF Unmarked, Warned
  <2> QED BY <2>1, <2>2
<1>3. Local(m, k, s, i)
  BY DEF Handled, Local
<1>4. Rest(m, k)
  BY <1>1, RestTrans DEF Handled, Good
<1> QED BY <1>1, <1>2, <1>3, <1>4 DEF Handled, Good, StillWarned

\* So does a change of the entry of the report.
LEMMA WriteHandled ==
    ASSUME NEW m \in Managers, FraudInv(m),
           NEW s \in Slots, NEW i \in 0..MaxIdx, NEW c \in TableCalls,
           ~There(c) => m.af.latch # <<s, i>>,
           Unmarked(m.calls[s][i]) => Unmarked(c),
           Warned(m.calls[s][i], c)
    PROVE  Handled(m, Write(m, s, i, c), s, i)
  BY WriteGood, WriteAt DEF Handled, Local

\* A change of the queue or of the refused calls.
LEMMA RestHandled ==
    ASSUME NEW m \in Managers, FraudInv(m), NEW n \in Managers,
           n.calls = m.calls, n.af = m.af, Rest(m, n), NEW s, NEW i
    PROVE  Handled(m, n, s, i) /\ FraudInv(n)
  BY DEF Handled, Good, Local, FraudInv, StillWarned, Warned, CallAt

\* The fields of a report.
LEMMA ReportTypes ==
    ASSUME NEW r \in SoundReports
    PROVE  /\ r.slot \in Slots /\ r.idx \in 0..MaxIdx /\ r.type \in Types
           /\ r.st \in States \cup {"DISCONNECTED"} /\ r.num \in Nums \cup {0}
           /\ r.st # "DISCONNECTED" => r.num \in Nums
           /\ r.st \notin {"DIALING", "DISCONNECTED"} => r.idx \in Indexes
  BY PlaceTypes DEF SoundReports, Reports

\* What the operators on one call write.
LEMMA OneCall ==
    ASSUME NEW m \in Managers, NEW r \in SoundReports, Known(m, r), NEW st \in States
    PROVE  LET c == m.calls[r.slot][r.idx]
           IN /\ RefreshCallIfNecessary(m, r) = Write(m, r.slot, r.idx, Retyped(c, r.type))
              /\ SetState(RefreshCallIfNecessary(m, r), r, st)
                    = Write(m, r.slot, r.idx, Changes(c, r.type, st))
<1> DEFINE c == m.calls[r.slot][r.idx]
           n == RefreshCallIfNecessary(m, r)
<1>1. r.slot \in Slots /\ r.idx \in 0..MaxIdx /\ c \in TableCalls
  BY ReportTypes DEF Managers, Tables
<1>2. n = Write(m, r.slot, r.idx, Retyped(c, r.type))
  <2>1. CASE c.type = r.type
    <3>1. [m.calls EXCEPT ![r.slot][r.idx] = c] = m.calls
      BY <1>1 DEF Managers, Tables
    <3>2. Write(m, r.slot, r.idx, c) = m
      BY <3>1 DEF Write, Managers
    <3> QED BY <2>1, <3>2 DEF RefreshCallIfNecessary, Retyped
  <2>2. CASE c.type # r.type
    BY <1>1, <2>2 DEF RefreshCallIfNecessary, Retyped, Write, Managers, Tables
  <2> QED BY <2>1, <2>2
<1>3. SetState(n, r, st) = Write(m, r.slot, r.idx, Changes(c, r.type, st))
  <2> DEFINE d == Retyped(c, r.type)
  <2>1. SetState(Write(m, r.slot, r.idx, d), r, st) = Write(m, r.slot, r.idx, [d EXCEPT !.st = st])
    <3> HIDE DEF d
    <3> QED BY <1>1 DEF SetState, Write, Managers, Tables
  <2> QED BY <1>2, <2>1 DEF Changes
<1> QED BY <1>2, <1>3

\* A known call is refreshed and changes its state.
LEMMA ChangeHandled ==
    ASSUME NEW m \in Managers, FraudInv(m), NEW r \in SoundReports, Known(m, r),
           NEW st \in States
    PROVE  /\ Handled(m, SetState(RefreshCallIfNecessary(m, r), r, st), r.slot, r.idx)
           /\ Handled(m, RefreshCallIfNecessary(m, r), r.slot, r.idx)
           /\ Known(SetState(RefreshCallIfNecessary(m, r), r, st), r)
<1> DEFINE c == m.calls[r.slot][r.idx]
<1>1. /\ r.slot \in Slots /\ r.idx \in 0..MaxIdx /\ c \in TableCalls /\ There(c)
      /\ r.type \in Types
  BY ReportTypes DEF Managers, Tables, Known
<1>2. Handled(m, Write(m, r.slot, r.idx, Changes(c, r.type, st)), r.slot, r.idx)
  BY <1>1, ChangesType, WriteHandled
<1>3. Handled(m, Write(m, r.slot, r.idx, Retyped(c, r.type)), r.slot, r.idx)
  <2>1. c.st \in States /\ Changes(c, r.type, c.st) = Retyped(c, r.type)
    BY <1>1, CallTypes DEF Changes, Retyped
  <2> QED BY <1>1, <2>1, ChangesType, WriteHandled
<1>4. Known(Write(m, r.slot, r.idx, Changes(c, r.type, st)), r)
  BY <1>1, ChangesType, WriteIs, SMTT(30) DEF Known
<1> QED BY <1>2, <1>3, <1>4, OneCall

\* A new call is put into the table.
LEMMA PutHandled ==
    ASSUME NEW m \in Managers, FraudInv(m), NEW r \in SoundReports,
           ~Known(m, r) \/ r.idx = InitIndex, r.num \in Nums, NEW st \in States
    PROVE  /\ Handled(m, Put(m, r, st), r.slot, r.idx)
           /\ Known(Put(m, r, st), r)
<1> DEFINE d == [st |-> st, type |-> r.type, num |-> r.num, af |-> "DEFAULT"]
<1>1. r.slot \in Slots /\ r.idx \in 0..MaxIdx /\ r.type \in Types
  BY ReportTypes
<1>2. d \in TableCalls /\ There(d) /\ Unmarked(d)
  BY <1>1 DEF TableCalls, AfStates, There, Unmarked, States
<1>3. Put(m, r, st) = Write(m, r.slot, r.idx, d)
  BY DEF Put, Write
<1>4. Warned(m.calls[r.slot][r.idx], d)
  BY <1>1 DEF Known, Warned, FraudInv, Unmarked
<1> HIDE DEF d
<1> QED BY <1>1, <1>2, <1>3, <1>4, WriteHandled, WriteIs DEF Known

\* The dialled call gets its index.
LEMMA NumberHandled ==
    ASSUME NEW m \in Managers, FraudInv(m), NEW r \in SoundReports,
           ~Known(m, r), r.idx \in Indexes, InitSlots(m) # {}
    PROVE  /\ Handled(m, UpdateDialingCallInfo(m, r), r.slot, r.idx)
           /\ Known(UpdateDialingCallInfo(m, r), r)
<1> DEFINE s == CHOOSE s \in InitSlots(m) : TRUE
           c == m.calls[s][InitIndex]
           d == [c EXCEPT !.st = "DIALING", !.type = r.type]
           q == Write(m, s, InitIndex, NoCall)
<1>1. /\ r.slot \in Slots /\ r.idx \in 0..MaxIdx /\ r.idx # InitIndex /\ r.type \in Types
      /\ s \in Slots /\ InitIndex \in 0..MaxIdx /\ There(c) /\ c \in TableCalls
  <2>1. s \in InitSlots(m)
    OBVIOUS
  <2>2. s \in Slots /\ There(c)
    BY <2>1 DEF InitSlots
  <2> HIDE DEF s
  <2>3. InitIndex \in 0..MaxIdx /\ r.idx # InitIndex
    BY PlaceTypes
  <2>4. c \in TableCalls
    BY <2>2, <2>3 DEF Managers, Tables
  <2> QED BY <2>2, <2>3, <2>4, ReportTypes
<1>2. UpdateDialingCallInfo(m, r) = Write(q, r.slot, r.idx, d)
  <2> HIDE DEF s
  <2>1. UpdateDialingCallInfo(m, r) =
           [m EXCEPT !.calls[s][InitIndex] = NoCall, !.calls[r.slot][r.idx] = d]
    BY DEF UpdateDialingCallInfo, s
  <2> QED BY <2>1 DEF Write, Managers, Tables
<1> HIDE DEF s
<1>3. d \in TableCalls /\ There(d) /\ Unmarked(d)
  BY <1>1, CallTypes DEF TableCalls, There, States, FraudInv, Unmarked
<1>4. Handled(m, q, s, InitIndex) /\ q \in Managers /\ FraudInv(q)
  <2>1. Unmarked(NoCall) /\ Warned(c, NoCall) /\ NoCall \in TableCalls
    BY CallTypes DEF Unmarked, Warned
  <2>2. Handled(m, q, s, InitIndex)
    BY <1>1, <2>1, NotAPlace, WriteHandled
  <2> QED BY <2>2 DEF Handled, Good
<1>5. \A p \in Places : CallAt(q, p) = CallAt(m, p)
  <2>1. \A p \in Places : p # <<s, InitIndex>>
    BY <1>1, PlaceTypes
  <2> HIDE DEF q
  <2> QED BY <1>4, <2>1 DEF Handled, Local
<1>6. q.calls[r.slot][r.idx] = m.calls[r.slot][r.idx]
  <2>1. <<r.slot, r.idx>> # <<s, InitIndex>> /\ NoCall \in TableCalls
    BY <1>1, CallTypes
  <2> QED BY <1>1, <2>1, WriteIs, SMTT(30)
<1>7. Handled(q, Write(q, r.slot, r.idx, d), r.slot, r.idx)
  <2>1. Warned(q.calls[r.slot][r.idx], d)
    BY <1>6 DEF Known, Warned
  <2> HIDE DEF q, d
  <2> QED BY <1>1, <1>3, <1>4, <2>1, WriteHandled
<1>8. Handled(m, Write(q, r.slot, r.idx, d), r.slot, r.idx)
  <2> HIDE DEF q, d
  <2>1. Rest(m, Write(q, r.slot, r.idx, d))
    BY <1>4, <1>7, RestTrans DEF Handled, Good
  <2> QED BY <1>5, <1>7, <2>1 DEF Handled, Good, StillWarned, Local
<1>9. Known(Write(q, r.slot, r.idx, d), r)
  <2> HIDE DEF q, d
  <2> QED BY <1>1, <1>3, <1>4, WriteIs, SMTT(30) DEF Known
<1> QED BY <1>2, <1>8, <1>9

\* DialingHandle.
LEMMA DialingHandled ==
    ASSUME NEW m \in Managers, FraudInv(m), NEW r \in SoundReports, r.num \in Nums
    PROVE  /\ Handled(m, DialingHandle(m, r), r.slot, r.idx)
           /\ Known(DialingHandle(m, r), r)
<1> DEFINE n == DialingHandle(m, r)
<1>1. CASE r.idx > InitIndex /\ Known(m, r)
  <2>1. n = RefreshCallIfNecessary(m, r)
    BY <1>1 DEF DialingHandle, UpdateDialingCallInfo
  <2>2. Known(n, r)
    <3>1. r.slot \in Slots /\ r.idx \in 0..MaxIdx /\ r.type \in Types
          /\ m.calls[r.slot][r.idx] \in TableCalls
      BY ReportTypes DEF Managers, Tables
    <3>2. n = Write(m, r.slot, r.idx, Retyped(m.calls[r.slot][r.idx], r.type))
      BY <1>1, <2>1, OneCall DEF States
    <3>3. /\ There(Retyped(m.calls[r.slot][r.idx], r.type))
          /\ Retyped(m.calls[r.slot][r.idx], r.type) \in TableCalls
      BY <1>1, <3>1, CallTypes DEF Known, Retyped, There, TableCalls, AfStates
    <3> QED BY <3>1, <3>2, <3>3, WriteIs DEF Known
  <2> QED BY <1>1, <2>1, <2>2, ChangeHandled DEF States
<1>2. CASE r.idx > InitIndex /\ There(m.calls[r.slot][InitIndex]) /\ ~Known(m, r)
  <2>1. n = UpdateDialingCallInfo(m, r)
    BY <1>2 DEF DialingHandle
  <2>2. InitSlots(m) # {} /\ r.idx \in Indexes
    BY <1>2, ReportTypes, PlaceTypes DEF InitSlots, InitIndex
  <2> QED BY <1>2, <2>1, <2>2, NumberHandled
<1>3. CASE ~(r.idx > InitIndex /\ (There(m.calls[r.slot][InitIndex]) \/ Known(m, r)))
  <2>1. n = Put(m, r, "DIALING")
    BY <1>3 DEF DialingHandle
  <2>2. ~Known(m, r) \/ r.idx = InitIndex
    BY <1>3, ReportTypes DEF InitIndex
  <2> QED BY <2>1, <2>2, PutHandled DEF States
<1> QED BY <1>1, <1>2, <1>3

\* RefreshDialingStateByOtherState.
LEMMA RefreshHandled ==
    ASSUME NEW m \in Managers, FraudInv(m), NEW r \in SoundReports, r.num \in Nums
    PROVE  LET n == RefreshDialingStateByOtherState(m, r)
           IN Handled(m, n, r.slot, r.idx) /\ (Known(m, r) => n = m)
<1>1. CASE Known(m, r) \/ InitSlots(m) = {}
  BY <1>1, HandledSame DEF RefreshDialingStateByOtherState
<1>2. CASE ~(Known(m, r) \/ InitSlots(m) = {})
  BY <1>2, DialingHandled DEF RefreshDialingStateByOtherState
<1> QED BY <1>1, <1>2

\* A step that leaves an unknown call unknown or makes it known, then another one.
LEMMA RefreshThen ==
    ASSUME NEW m \in Managers, FraudInv(m), NEW r \in SoundReports, r.num \in Nums, NEW k,
           Handled(RefreshDialingStateByOtherState(m, r), k, r.slot, r.idx)
    PROVE  Handled(m, k, r.slot, r.idx)
<1> DEFINE n == RefreshDialingStateByOtherState(m, r)
<1>1. Handled(m, n, r.slot, r.idx) /\ (Known(m, r) => n = m)
  BY RefreshHandled
<1>2. n.calls[r.slot][r.idx] = m.calls[r.slot][r.idx] \/ Unmarked(m.calls[r.slot][r.idx])
  BY <1>1 DEF Known, Unmarked
<1> HIDE DEF n
<1> QED BY <1>1, <1>2, HandledThen, ReportTypes DEF n

\* ActiveHandle.
LEMMA ActiveHandled ==
    ASSUME NEW m \in Managers, FraudInv(m), NEW r \in SoundReports, r.st = "ACTIVE",
           NEW choice \in Choices
    PROVE  Handled(m, ActiveHandle(m, r, choice), r.slot, r.idx)
<1> DEFINE n == RefreshDialingStateByOtherState(m, r)
           a == SetState(RefreshCallIfNecessary(n, r), r, "ACTIVE")
           k == ActiveHandle(m, r, choice)
           p == <<r.slot, r.idx>>
<1>1. /\ r.num \in Nums /\ r.slot \in Slots /\ r.idx \in 0..MaxIdx /\ p \in Places
  BY ReportTypes, PlaceTypes
<1>2. Handled(m, n, r.slot, r.idx) /\ n \in Managers /\ FraudInv(n)
  BY <1>1, RefreshHandled DEF Handled, Good
<1>3. k = IF ~Known(n, r) THEN n
          ELSE IF choice.detect THEN SetupAntiFraudService(a, p) ELSE a
  BY DEF ActiveHandle
<1> HIDE DEF n, k
<1>4. CASE ~Known(n, r)
  BY <1>2, <1>3, <1>4 DEF k
<1>5. CASE Known(n, r)
  <2>1. Handled(n, a, r.slot, r.idx) /\ a \in Managers /\ FraudInv(a) /\ Known(a, r)
    BY <1>2, <1>5, ChangeHandled DEF Handled, Good, States
  <2>2. CASE ~choice.detect
    BY <1>1, <1>3, <1>5, <2>1, <2>2, RefreshThen DEF n, k
  <2>3. CASE choice.detect
    <3>1. There(CallAt(a, p))
      BY <2>1 DEF Known, CallAt
    <3> HIDE DEF a, p
    <3>2. Good(a, k) /\ k = [a EXCEPT !.af = k.af]
      BY <1>1, <1>3, <1>5, <2>1, <2>3, <3>1, SetupGood
    <3>3. k.calls = a.calls
      BY <2>1, <3>2 DEF Managers
    <3>4. Rest(n, k)
      BY <1>2, <2>1, <3>2, RestTrans DEF Handled, Good
    <3>5. Handled(n, k, r.slot, r.idx)
      BY <2>1, <3>2, <3>3, <3>4 DEF Handled, Good, Local, StillWarned, CallAt
    <3> QED BY <1>1, <3>5, RefreshThen DEF n, k
  <2> QED BY <2>2, <2>3
<1> QED BY <1>4, <1>5 DEF k

\* AlertHandle.
LEMMA AlertHandled ==
    ASSUME NEW m \in Managers, FraudInv(m), NEW r \in SoundReports, r.st = "ALERTING"
    PROVE  Handled(m, AlertHandle(m, r), r.slot, r.idx)
<1> DEFINE n == RefreshDialingStateByOtherState(m, r)
           k == AlertHandle(m, r)
<1>1. r.num \in Nums
  BY ReportTypes
<1>2. Handled(m, n, r.slot, r.idx) /\ n \in Managers /\ FraudInv(n)
  BY <1>1, RefreshHandled DEF Handled, Good
<1>3. k = IF ~Known(n, r) \/ n.calls[r.slot][r.idx].st = "DISCONNECTING" THEN n
          ELSE SetState(RefreshCallIfNecessary(n, r), r, "ALERTING")
  BY DEF AlertHandle
<1> HIDE DEF n, k
<1>4. CASE ~Known(n, r) \/ n.calls[r.slot][r.idx].st = "DISCONNECTING"
  BY <1>2, <1>3, <1>4 DEF k
<1>5. CASE ~(~Known(n, r) \/ n.calls[r.slot][r.idx].st = "DISCONNECTING")
  <2>1. Handled(n, k, r.slot, r.idx)
    BY <1>2, <1>3, <1>5, ChangeHandled DEF States
  <2> QED BY <1>1, <2>1, RefreshThen DEF n, k
<1> QED BY <1>4, <1>5

\* HoldingHandle.
LEMMA HoldingHandled ==
    ASSUME NEW m \in Managers, FraudInv(m), NEW r \in SoundReports, NEW choice \in Choices
    PROVE  Handled(m, HoldingHandle(m, r, choice), r.slot, r.idx)
<1> DEFINE q == PauseAntiFraudDetect(m, <<r.slot, r.idx>>, choice.stop)
           k == SetState(RefreshCallIfNecessary(q, r), r, "HOLDING")
<1>1. CASE ~Known(m, r)
  BY <1>1, HandledSame DEF HoldingHandle
<1>2. CASE Known(m, r)
  <2>1. r.slot \in Slots /\ r.idx \in 0..MaxIdx /\ choice.stop \in StopAnswers
    BY ReportTypes DEF Choices
  <2>2. q \in Managers /\ FraudInv(q) /\ q = [m EXCEPT !.af = q.af]
    BY <2>1, PauseGood
  <2>3. HoldingHandle(m, r, choice) = k
    BY <1>2 DEF HoldingHandle
  <2> HIDE DEF q
  <2>4. q.calls = m.calls
    BY <2>2 DEF Managers
  <2>5. Handled(q, k, r.slot, r.idx)
    BY <1>2, <2>2, <2>4, ChangeHandled DEF Known, States
  <2>6. Rest(m, k)
    BY <2>2, <2>5, AfRest, RestTrans DEF Handled, Good
  <2>7. Handled(m, k, r.slot, r.idx)
    BY <2>4, <2>5, <2>6 DEF Handled, Good, Local, StillWarned, CallAt
  <2> QED BY <2>3, <2>7
<1> QED BY <1>1, <1>2

\* The stop of a detection as part of a handler.
LEMMA StopHandled ==
    ASSUME NEW m \in Managers, FraudInv(m), NEW r \in SoundReports, Known(m, r),
           NEW answer \in StopAnswers
    PROVE  LET q == StopAntiFraudDetect(m, <<r.slot, r.idx>>, answer)
               c == m.calls[r.slot][r.idx]
           IN /\ Handled(m, q, r.slot, r.idx) /\ q \in Managers /\ FraudInv(q) /\ Known(q, r)
              /\ q.calls[r.slot][r.idx] = c \/ Unmarked(c)
              /\ q.af.latch # <<r.slot, r.idx>>
<1> DEFINE q == StopAntiFraudDetect(m, <<r.slot, r.idx>>, answer)
           c == m.calls[r.slot][r.idx]
           d == q.calls[r.slot][r.idx]
<1>1. r.slot \in Slots /\ r.idx \in 0..MaxIdx /\ c \in TableCalls /\ There(c)
  BY ReportTypes DEF Managers, Tables, Known
<1>2. /\ Good(m, q) /\ q.af.latch # <<r.slot, r.idx>>
      /\ q = [m EXCEPT !.af = q.af, !.calls[r.slot][r.idx] = d]
      /\ d \in {c, [c EXCEPT !.af = "STOPPED"]}
  BY <1>1, StopGood
<1>3. There(d)
  BY <1>1, <1>2, CallTypes DEF There
<1>4. d = c \/ Unmarked(c)
  <2>1. CASE m.af.latch # <<r.slot, r.idx>>
    BY <2>1 DEF StopAntiFraudDetect
  <2>2. CASE m.af.latch = <<r.slot, r.idx>>
    <3>1. CallAt(m, <<r.slot, r.idx>>) = c
      BY DEF CallAt
    <3> QED BY <1>1, <2>2, <3>1, PlaceTypes DEF FraudInv
  <2> QED BY <2>1, <2>2
<1> HIDE DEF q
<1>5. Local(m, q, r.slot, r.idx)
  <2>1. q.calls = [m.calls EXCEPT ![r.slot][r.idx] = d]
    BY <1>2 DEF Managers
  <2> HIDE DEF d
  <2> SUFFICES ASSUME NEW p \in Places, p # <<r.slot, r.idx>> PROVE CallAt(q, p) = CallAt(m, p)
    BY DEF Local
  <2>2. p = <<p[1], p[2]>> /\ p[1] \in Slots /\ p[2] \in 0..MaxIdx
    BY PlaceTypes
  <2> QED BY <1>1, <2>1, <2>2 DEF CallAt, Managers, Tables
<1> QED BY <1>2, <1>3, <1>4, <1>5 DEF Handled, Good, Known, q

\* DisconnectingHandle.
LEMMA DisconnectingHandled ==
    ASSUME NEW m \in Managers, FraudInv(m), NEW r \in SoundReports, NEW choice \in Choices
    PROVE  Handled(m, DisconnectingHandle(m, r, choice), r.slot, r.idx)
<1> DEFINE q == StopAntiFraudDetect(m, <<r.slot, r.idx>>, choice.stop)
           c == m.calls[r.slot][r.idx]
           k == SetState(RefreshCallIfNecessary(q, r), r, "DISCONNECTING")
<1>1. CASE ~Known(m, r)
  BY <1>1, HandledSame DEF DisconnectingHandle
<1>2. CASE Known(m, r)
  <2>1. r.slot \in Slots /\ r.idx \in 0..MaxIdx /\ choice.stop \in StopAnswers
    BY ReportTypes DEF Choices
  <2>2. Handled(m, q, r.slot, r.idx) /\ q \in Managers /\ FraudInv(q) /\ Known(q, r)
        /\ (q.calls[r.slot][r.idx] = c \/ Unmarked(c))
    BY <1>2, <2>1, StopHandled
  <2>3. DisconnectingHandle(m, r, choice) = k
    BY <1>2 DEF DisconnectingHandle
  <2> HIDE DEF q
  <2>4. Handled(q, k, r.slot, r.idx)
    BY <2>2, ChangeHandled DEF States
  <2> QED BY <2>1, <2>2, <2>3, <2>4, HandledThen
<1> QED BY <1>1, <1>2

\* DisconnectedHandle, after which the call is gone.
LEMMA DisconnectedHandled ==
    ASSUME NEW m \in Managers, FraudInv(m), NEW r \in SoundReports, NEW choice \in Choices
    PROVE  LET k == DisconnectedHandle(m, r, choice)
           IN Handled(m, k, r.slot, r.idx) /\ ~Known(k, r)
<1> DEFINE n == RefreshDialingStateByOtherState(m, r)
           q == StopAntiFraudDetect(n, <<r.slot, r.idx>>, choice.stop)
           k == Write(q, r.slot, r.idx, NoCall)
           h == DisconnectedHandle(m, r, choice)
<1>1. r.slot \in Slots /\ r.idx \in 0..MaxIdx /\ choice.stop \in StopAnswers /\ r.type \in Types
  BY ReportTypes DEF Choices
<1>2. h = IF ~Known(n, r) THEN n ELSE k
  BY DEF DisconnectedHandle, Write
<1>3. CASE ~Known(n, r)
  <2>1. n = m
    <3>1. CASE Known(m, r) \/ InitSlots(m) = {}
      BY <3>1 DEF RefreshDialingStateByOtherState
    <3>2. CASE ~(Known(m, r) \/ InitSlots(m) = {})
      <4>1. n = DialingHandle(m, r)
        BY <3>2 DEF RefreshDialingStateByOtherState
      <4>2. CASE r.idx > InitIndex /\ There(m.calls[r.slot][InitIndex])
        <5>1. r.idx \in Indexes /\ n = UpdateDialingCallInfo(m, r)
          BY <1>1, <3>2, <4>1, <4>2, PlaceTypes DEF DialingHandle, InitIndex
        <5> QED BY <1>3, <3>2, <5>1, NumberHandled
      <4>3. CASE ~(r.idx > InitIndex /\ There(m.calls[r.slot][InitIndex]))
        <5>1. n = Put(m, r, "DIALING")
          BY <3>2, <4>1, <4>3 DEF DialingHandle
        <5>2. There(n.calls[r.slot][r.idx])
          <6> HIDE DEF n
          <6> QED BY <1>1, <5>1 DEF Put, Managers, Tables, There
        <5> QED BY <1>3, <5>2 DEF Known
      <4> QED BY <4>2, <4>3
    <3> QED BY <3>1, <3>2
  <2> QED BY <1>2, <1>3, <2>1, HandledSame
<1>4. ASSUME NEW x \in Managers, FraudInv(x), Known(x, r)
      PROVE  LET y == StopAntiFraudDetect(x, <<r.slot, r.idx>>, choice.stop)
                 z == Write(y, r.slot, r.idx, NoCall)
             IN Handled(x, z, r.slot, r.idx) /\ ~Known(z, r)
  <2> DEFINE y == StopAntiFraudDetect(x, <<r.slot, r.idx>>, choice.stop)
             z == Write(y, r.slot, r.idx, NoCall)
  <2>1. Handled(x, y, r.slot, r.idx) /\ y \in Managers /\ FraudInv(y)
        /\ (y.calls[r.slot][r.idx] = x.calls[r.slot][r.idx] \/ Unmarked(x.calls[r.slot][r.idx]))
        /\ y.af.latch # <<r.slot, r.idx>>
    BY <1>1, <1>4, StopHandled
  <2> HIDE DEF y
  <2>2. Unmarked(NoCall) /\ NoCall \in TableCalls /\ ~There(NoCall)
        /\ Warned(y.calls[r.slot][r.idx], NoCall)
    BY CallTypes DEF Unmarked, Warned
  <2>3. Handled(y, z, r.slot, r.idx)
    BY <1>1, <2>1, <2>2, WriteHandled
  <2>4. ~Known(z, r)
    BY <1>1, <2>1, <2>2, WriteIs DEF Known
  <2> QED BY <1>1, <2>1, <2>3, <2>4, HandledThen DEF y
<1>5. CASE Known(n, r) /\ Known(m, r)
  <2>1. n = m
    BY <1>5 DEF RefreshDialingStateByOtherState
  <2> QED BY <1>2, <1>4, <1>5, <2>1
<1>6. CASE Known(n, r) /\ ~Known(m, r)
  <2>1. n = DialingHandle(m, r) /\ InitSlots(m) # {}
    BY <1>6 DEF RefreshDialingStateByOtherState
  <2>2. CASE r.idx > InitIndex /\ There(m.calls[r.slot][InitIndex])
    <3>1. r.idx \in Indexes /\ n = UpdateDialingCallInfo(m, r)
      BY <1>1, <1>6, <2>1, <2>2, PlaceTypes DEF DialingHandle, InitIndex
    <3>2. Handled(m, n, r.slot, r.idx) /\ n \in Managers /\ FraudInv(n)
      BY <1>6, <2>1, <3>1, NumberHandled DEF Handled, Good
    <3>3. Handled(n, h, r.slot, r.idx) /\ ~Known(h, r)
      BY <1>2, <1>4, <1>6, <3>2
    <3> HIDE DEF n, h
    <3>4. Unmarked(m.calls[r.slot][r.idx])
      BY <1>6 DEF Known, Unmarked
    <3> QED BY <1>1, <3>2, <3>3, <3>4, HandledThen DEF h
  <2>3. CASE ~(r.idx > InitIndex /\ There(m.calls[r.slot][InitIndex]))
    <3> DEFINE d == [st |-> "DIALING", type |-> r.type, num |-> r.num, af |-> "DEFAULT"]
    <3>1. n = Write(m, r.slot, r.idx, d)
      BY <1>6, <2>1, <2>3 DEF DialingHandle, Put, Write
    <3>2. m.af.latch # <<r.slot, r.idx>>
      <4>1. CallAt(m, <<r.slot, r.idx>>) = m.calls[r.slot][r.idx]
        BY DEF CallAt
      <4> QED BY <1>1, <1>6, <4>1, PlaceTypes DEF FraudInv, Known
    <3>3. q = n
      <4>1. n.af = m.af
        BY <3>1 DEF Write, Managers
      <4> HIDE DEF n
      <4> QED BY <3>2, <4>1 DEF StopAntiFraudDetect
    <3>4. k = m
      <4>1. m.calls[r.slot][r.idx] = NoCall
        BY <1>1, <1>6, CallTypes DEF Known, Managers, Tables
      <4>2. Write(Write(m, r.slot, r.idx, d), r.slot, r.idx, NoCall) = m
        <5> HIDE DEF d
        <5>1. [[m.calls EXCEPT ![r.slot][r.idx] = d] EXCEPT ![r.slot][r.idx] = NoCall] = m.calls
          BY <1>1, <4>1 DEF Managers, Tables
        <5> QED BY <5>1 DEF Write, Managers
      <4> QED BY <3>1, <3>3, <4>2
    <3> QED BY <1>2, <1>6, <3>4, HandledSame
  <2> QED BY <2>2, <2>3
<1> QED BY <1>3, <1>5, <1>6

\* DealFailDials, which only reports.
LEMMA FailDialsHandled ==
    ASSUME NEW m \in Managers, FraudInv(m), NEW s, NEW i
    PROVE  LET n == DealFailDials(m)
           IN Handled(m, n, s, i) /\ n \in Managers /\ FraudInv(n) /\ n.calls = m.calls
<1> DEFINE n == DealFailDials(m)
           t == CHOOSE t \in InitSlots(m) : TRUE
           c == m.calls[t][InitIndex]
           r == Report(t, InitIndex, "DISCONNECTED", c.type, c.num)
<1>1. CASE InitSlots(m) = {}
  BY <1>1, HandledSame DEF DealFailDials
<1>2. CASE InitSlots(m) # {}
  <2>1. t \in Slots /\ There(c)
    <3>1. t \in InitSlots(m)
      BY <1>2
    <3> QED BY <3>1 DEF InitSlots
  <2>2. n = [m EXCEPT !.queue = Append(@, r)]
    BY <1>2 DEF DealFailDials
  <2> HIDE DEF t
  <2>3. r \in SoundReports
    <3>0. InitIndex \in 0..MaxIdx
      BY PlaceTypes
    <3>1. c \in TableCalls
      BY <2>1, <3>0 DEF Managers, Tables
    <3> QED BY <2>1, <3>1, CallTypes, PlaceTypes DEF Report, SoundReports, Reports
  <2> HIDE DEF r
  <2>4. Append(m.queue, r) \in Seq(Lists \cup SoundReports)
    BY <2>3 DEF Managers
  <2> HIDE DEF n
  <2>5. n \in Managers /\ n.calls = m.calls /\ n.af = m.af
    BY <2>2, <2>4 DEF Managers
  <2>6. Rest(m, n)
    <3>1. n.details = m.details /\ n.queue = Append(m.queue, r) /\ m.queue \in Seq(Lists \cup SoundReports)
      BY <2>2 DEF Managers
    <3> QED BY <2>3, <3>1 DEF Rest, Grown
  <2> QED BY <2>5, <2>6, RestHandled DEF n
<1> QED BY <1>1, <1>2

\* IncomingHandle.
LEMMA IncomingHandled ==
    ASSUME NEW m \in Managers, FraudInv(m), NEW r \in SoundReports, r.st \in RingingStates,
           NEW choice \in Choices
    PROVE  Handled(m, IncomingHandle(m, r, choice), r.slot, r.idx)
<1> DEFINE n == DealFailDials(m)
           k == IncomingHandle(m, r, choice)
           p == <<r.slot, r.idx>>
           put == Put(n, r, r.st)
<1>1. /\ r.slot \in Slots /\ r.idx \in 0..MaxIdx /\ p \in Places /\ r.num \in Nums
      /\ r.st \in States
  BY ReportTypes, PlaceTypes DEF RingingStates, States
<1>2. Handled(m, n, r.slot, r.idx) /\ n \in Managers /\ FraudInv(n) /\ n.calls = m.calls
  BY FailDialsHandled
<1>3. k = IF Known(n, r) THEN RefreshOldCall(n, r)
          ELSE IF choice.show
          THEN [put EXCEPT !.screened = {x \in @ : x.place # p}]
          ELSE [n EXCEPT !.screened = @ \cup {[place |-> p, num |-> r.num]}]
  BY DEF IncomingHandle
<1> HIDE DEF n, k
<1>4. Handled(n, k, r.slot, r.idx)
  <2>1. CASE Known(n, r)
    <3>1. CASE n.calls[r.slot][r.idx].type = r.type
      BY <1>2, <1>3, <2>1, <3>1, HandledSame DEF RefreshOldCall
    <3>2. CASE n.calls[r.slot][r.idx].type # r.type
      BY <1>1, <1>2, <1>3, <2>1, <3>2, ChangeHandled DEF RefreshOldCall
    <3> QED BY <3>1, <3>2
  <2>2. CASE ~Known(n, r) /\ choice.show
    <3>1. Handled(n, put, r.slot, r.idx) /\ put \in Managers /\ FraudInv(put)
      BY <1>1, <1>2, <2>2, PutHandled DEF Handled, Good
    <3>2. k = [put EXCEPT !.screened = {x \in @ : x.place # p}]
      BY <1>3, <2>2
    <3> HIDE DEF put, p
    <3>3. k \in Managers /\ k.calls = put.calls /\ k.af = put.af
      BY <3>1, <3>2 DEF Managers
    <3>4. Rest(put, k)
      <4>1. k.details = put.details /\ k.queue = put.queue
        BY <3>1, <3>2 DEF Managers
      <4> QED BY <3>1, <4>1, RestSame
    <3>5. FraudInv(k)
      BY <3>1, <3>3, <3>4, RestHandled
    <3>6. Rest(n, k)
      BY <1>2, <3>1, <3>3, <3>4, RestTrans DEF Handled, Good
    <3> QED BY <3>1, <3>3, <3>5, <3>6 DEF Handled, Good, Local, StillWarned, CallAt
  <2>3. CASE ~Known(n, r) /\ ~choice.show
    <3>1. k = [n EXCEPT !.screened = @ \cup {[place |-> p, num |-> r.num]}]
      BY <1>3, <2>3
    <3>2. n.screened \cup {[place |-> p, num |-> r.num]} \in SUBSET [place: Places, num: Nums]
      BY <1>1, <1>2, SMTT(30) DEF Managers
    <3> HIDE DEF p
    <3>3. k \in Managers /\ k.calls = n.calls /\ k.af = n.af
      BY <1>2, <3>1, <3>2 DEF Managers
    <3>4. Rest(n, k)
      <4>1. k.details = n.details /\ k.queue = n.queue
        BY <1>2, <3>1 DEF Managers
      <4> QED BY <1>2, <4>1, RestSame
    <3> QED BY <1>2, <3>3, <3>4, RestHandled
  <2> QED BY <2>1, <2>2, <2>3
<1> QED BY <1>1, <1>2, <1>4, HandledThen DEF k

\* Every report's handler keeps the types and the invariant, and no warning is lost.
LEMMA ReportHandled ==
    ASSUME NEW m \in Managers, FraudInv(m), NEW r \in SoundReports, NEW choice \in Choices
    PROVE  Handled(m, HandleCallReportInfo(m, r, choice), r.slot, r.idx)
<1>1. r.st \in States \cup {"DISCONNECTED"}
  BY ReportTypes
<1>2. CASE r.st = "ACTIVE"
  BY <1>2, ActiveHandled DEF HandleCallReportInfo, RingingStates
<1>3. CASE r.st = "HOLDING"
  BY <1>3, HoldingHandled DEF HandleCallReportInfo, RingingStates
<1>4. CASE r.st = "DIALING"
  <2>1. r.num \in Nums
    BY <1>4, ReportTypes
  <2> QED BY <1>4, <2>1, DialingHandled DEF HandleCallReportInfo, RingingStates
<1>5. CASE r.st = "ALERTING"
  BY <1>5, AlertHandled DEF HandleCallReportInfo, RingingStates
<1>6. CASE r.st \in RingingStates
  BY <1>6, IncomingHandled DEF HandleCallReportInfo, RingingStates
<1>7. CASE r.st = "DISCONNECTING"
  BY <1>7, DisconnectingHandled DEF HandleCallReportInfo, RingingStates
<1>8. CASE r.st = "DISCONNECTED"
  BY <1>8, DisconnectedHandled DEF HandleCallReportInfo, RingingStates
<1> QED BY <1>1, <1>2, <1>3, <1>4, <1>5, <1>6, <1>7, <1>8 DEF States, RingingStates
-----------------------------------------------------------------------------
(* The lists and the modem *)

ListedCalls == [Indexes -> ModemCalls \cup {Ended}]

\* The positions a loop over a list picks.
LEMMA Picked ==
    ASSUME NEW S \in SUBSET Indexes
    PROVE  LET a == Ascending(S, MaxIdx)
           IN /\ a \in Seq(S) /\ Len(a) \in Nat /\ DOMAIN a = 1..Len(a)
              /\ \A k \in 1..Len(a) : a[k] \in S
<1> DEFINE a == Ascending(S, MaxIdx)
<1>1. a \in Seq(S)
  <2>1. MaxIdx \in Nat /\ S \cap 1..MaxIdx = S
    BY ListsAssumption DEF Indexes
  <2> QED BY <2>1, AscendingEnumerates DEF Enumerates
<1> HIDE DEF a
<1> QED BY <1>1 DEF a

\* HandleCallsReportInfo makes sound reports of two lists.
LEMMA DifferencesType ==
    ASSUME NEW l \in Lists, NEW old \in [Indexes -> [st: States, type: Types] \cup {NoCall}]
    PROVE  Differences(l, old) \in Seq(SoundReports)
<1> DEFINE N == {i \in Indexes : /\ There(l.calls[i])
                                 /\ ~There(old[i]) \/ Changed(old[i], l.calls[i])}
           G == {i \in Indexes : There(old[i]) /\ ~There(l.calls[i])}
           f(i) == Report(l.slot, i, l.calls[i].st, l.calls[i].type, l.calls[i].num)
           g(i) == Report(l.slot, i, "DISCONNECTED", old[i].type, 0)
           new == Ascending(N, MaxIdx)
           gone == Ascending(G, MaxIdx)
<1>1. \A i \in N : f(i) \in SoundReports
  <2> SUFFICES ASSUME NEW i \in N PROVE f(i) \in SoundReports
    OBVIOUS
  <2>1. l.slot \in Slots /\ i \in 0..MaxIdx /\ i # InitIndex
    BY PlaceTypes DEF Lists
  <2>2. l.calls[i] \in [st: States, type: Types, num: Nums] \cup {Ended}
    BY DEF Lists, ModemCalls, There, NoCall
  <2>3. l.calls[i].st \in States \cup {"DISCONNECTED"} /\ l.calls[i].type \in Types
        /\ l.calls[i].num \in Nums \cup {0}
        /\ (l.calls[i].st # "DISCONNECTED" => l.calls[i].num \in Nums)
    BY <2>2 DEF Ended, Types
  <2> QED BY <2>1, <2>3 DEF Report, SoundReports, Reports
<1>2. \A i \in G : g(i) \in SoundReports
  <2> SUFFICES ASSUME NEW i \in G PROVE g(i) \in SoundReports
    OBVIOUS
  <2>1. l.slot \in Slots /\ i \in 0..MaxIdx /\ i # InitIndex
    BY PlaceTypes DEF Lists
  <2>2. old[i].type \in Types
    <3>1. old[i] \in [st: States, type: Types] \cup {NoCall} /\ There(old[i])
      OBVIOUS
    <3> QED BY <3>1 DEF There, NoCall
  <2> QED BY <2>1, <2>2 DEF Report, SoundReports, Reports
<1>5. Differences(l, old) = [k \in DOMAIN new |-> f(new[k])] \o [k \in DOMAIN gone |-> g(gone[k])]
  BY DEF Differences
<1>6. N \in SUBSET Indexes /\ G \in SUBSET Indexes
  OBVIOUS
<1> HIDE DEF N, G, f, g
<1>7. /\ DOMAIN new = 1..Len(new) /\ Len(new) \in Nat /\ \A k \in 1..Len(new) : new[k] \in N
      /\ DOMAIN gone = 1..Len(gone) /\ Len(gone) \in Nat /\ \A k \in 1..Len(gone) : gone[k] \in G
  BY <1>6, Picked
<1> HIDE DEF new, gone
<1>3. [k \in DOMAIN new |-> f(new[k])] \in Seq(SoundReports)
  BY <1>1, <1>7
<1>4. [k \in DOMAIN gone |-> g(gone[k])] \in Seq(SoundReports)
  BY <1>2, <1>7
<1> QED BY <1>3, <1>4, <1>5

-----------------------------------------------------------------------------
(* The inductive invariant and its steps *)

EnvOK ==
    /\ modem \in [Slots -> [Indexes -> ModemCalls]]
    /\ dialReq \in [Slots -> Nums \cup {0}]
    /\ up \in BOOLEAN /\ clearing \subseteq Slots \X (0..MaxIdx) /\ reported \subseteq Slots
    /\ used \in [calls: 0..MaxCalls, dials: 0..MaxDials, changes: 0..MaxChanges,
                 crashes: 0..MaxCrashes, old: 0..MaxCalls]

\* The report queue works on its head, which stays there until it is finished.
AtWork == work \in Seq(SoundReports) /\ busy \in BOOLEAN /\ (busy => queue # <<>> /\ IsList(Head(queue)))

ListsInv == Manager \in Managers /\ FraudInv(Manager) /\ AtWork /\ EnvOK

\* What every step does.
Sound == ListsInv' /\ StillWarned(Manager, Manager')

\* The manager and the variables it is made of.
LEMMA Expand ==
    /\ Manager.calls = calls /\ Manager.queue = queue /\ Manager.details = details
    /\ Manager.af = af /\ Manager.screened = screened
    /\ Manager'.calls = calls' /\ Manager'.queue = queue' /\ Manager'.details = details'
    /\ Manager'.af = af' /\ Manager'.screened = screened'
  BY DEF Manager

\* The invariant of the manager after a step.
LEMMA PrimedInv == FraudInv(Manager') <=> FraudInv(Manager)'
  BY DEF FraudInv, Manager, CallAt, Unmarked, There

\* Become makes the manager what the handler left behind.
LEMMA BecomeIs == ASSUME NEW m \in Managers, Become(m) PROVE Manager' = m
  BY DEF Become, Manager, Managers

\* What the report queue takes off its head has its type.
LEMMA HeadTypes ==
    ASSUME NEW q \in Seq(Lists \cup SoundReports), q # <<>>
    PROVE  /\ Tail(q) \in Seq(Lists \cup SoundReports)
           /\ IsList(Head(q)) => Head(q) \in Lists
           /\ ~IsList(Head(q)) => Head(q) \in SoundReports
<1>1. Head(q) \in Lists \cup SoundReports
  OBVIOUS
<1> QED BY <1>1, QueueTypes

\* A step of the call manager's own threads.
LEMMA GoodStep ==
    ASSUME ListsInv, NEW m, Become(m), Good(Manager, m), UNCHANGED <<busy, env>>,
           work' \in Seq(SoundReports)
    PROVE  Sound
<1>1. Manager' = m /\ m \in Managers /\ FraudInv(m) /\ StillWarned(Manager, m) /\ Rest(Manager, m)
  BY BecomeIs DEF Good
<1>2. AtWork'
  <2>1. queue \in Seq(Lists \cup SoundReports) /\ queue' \in Seq(Lists \cup SoundReports)
    BY <1>1, Expand DEF ListsInv, Managers
  <2>2. Grown(queue, queue')
    BY <1>1, Expand DEF Rest
  <2>3. queue # <<>> => queue' # <<>> /\ Head(queue') = Head(queue)
    BY <2>1, <2>2 DEF Grown
  <2> QED BY <2>3 DEF ListsInv, AtWork
<1>3. EnvOK'
  BY DEF ListsInv, EnvOK, env
<1> QED BY <1>1, <1>2, <1>3, PrimedInv DEF Sound, ListsInv

\* A step that leaves the table and fraud detection alone.
LEMMA QueueStep ==
    ASSUME ListsInv, UNCHANGED <<calls, af>>, queue' \in Seq(Lists \cup SoundReports),
           details' \in Details, screened' \in SUBSET [place: Places, num: Nums],
           AtWork', EnvOK'
    PROVE  Sound
<1>1. Manager' \in Managers
  BY DEF ListsInv, Managers, Manager
<1>2. FraudInv(Manager')
  BY Expand DEF FraudInv, CallAt, ListsInv
<1>3. StillWarned(Manager, Manager')
  BY Expand DEF StillWarned, Warned, CallAt
<1> QED BY <1>1, <1>2, <1>3, PrimedInv DEF Sound, ListsInv

\* Reports and lists are only put at the end of the queue.
LEMMA AppendStep ==
    ASSUME ListsInv, UNCHANGED <<calls, details, af, screened, work, busy>>, EnvOK',
           NEW more \in Seq(Lists \cup SoundReports), queue' = queue \o more
    PROVE  Sound
<1>1. queue \in Seq(Lists \cup SoundReports) /\ details \in Details
      /\ screened \in SUBSET [place: Places, num: Nums]
  BY Expand DEF ListsInv, Managers
<1>2. queue' \in Seq(Lists \cup SoundReports)
      /\ (queue # <<>> => queue' # <<>> /\ Head(queue') = Head(queue))
  BY <1>1
<1>3. AtWork'
  BY <1>2 DEF ListsInv, AtWork
<1> QED BY <1>1, <1>2, <1>3, QueueStep

\* HandleCallsReportInfo keeps the invariant.
LEMMA StepCallsReport == ASSUME ListsInv, HandleCallsReportInfo PROVE Sound
<1>1. queue \in Seq(Lists \cup SoundReports) /\ details \in Details
      /\ screened \in SUBSET [place: Places, num: Nums]
  BY Expand DEF ListsInv, Managers
<1>2. queue # <<>> /\ IsList(Head(queue)) /\ Head(queue) \in Lists
  BY <1>1, HeadTypes DEF HandleCallsReportInfo
<1>3. work' \in Seq(SoundReports)
  <2>1. details[Head(queue).slot] \in [Indexes -> [st: States, type: Types] \cup {NoCall}]
    BY <1>1, <1>2 DEF Details, Lists
  <2> QED BY <1>2, <2>1, DifferencesType DEF HandleCallsReportInfo
<1>4. AtWork' /\ EnvOK'
  BY <1>2, <1>3 DEF HandleCallsReportInfo, AtWork, ListsInv, EnvOK, env, manager
<1> QED BY <1>1, <1>4, QueueStep DEF HandleCallsReportInfo, manager

\* HandleListedCall keeps it.
LEMMA StepListedCall == ASSUME ListsInv, HandleListedCall PROVE Sound
<1>1. Head(work) \in SoundReports /\ Tail(work) \in Seq(SoundReports)
  BY DEF HandleListedCall, ListsInv, AtWork
<1>2. PICK choice \in Choices : Become(HandleCallReportInfo(Manager, Head(work), choice))
  BY DEF HandleListedCall
<1>3. Good(Manager, HandleCallReportInfo(Manager, Head(work), choice))
  BY <1>1, ReportHandled DEF Handled, ListsInv
<1> QED BY <1>1, <1>2, <1>3, GoodStep DEF HandleListedCall

\* FinishCallsReportInfo keeps it.
LEMMA StepFinish == ASSUME ListsInv, FinishCallsReportInfo PROVE Sound
<1>1. queue \in Seq(Lists \cup SoundReports) /\ details \in Details
      /\ screened \in SUBSET [place: Places, num: Nums]
  BY Expand DEF ListsInv, Managers
<1>2. Head(queue) \in Lists /\ Tail(queue) \in Seq(Lists \cup SoundReports)
  BY <1>1, HeadTypes DEF FinishCallsReportInfo, ListsInv, AtWork
<1>3. details' \in Details
  <2> DEFINE l == Head(queue)
             shown == [i \in Indexes |-> IF Live(l.calls[i]) THEN [st |-> l.calls[i].st, type |-> l.calls[i].type]
                                         ELSE NoCall]
  <2>1. l.slot \in Slots /\ l.calls \in [Indexes -> ModemCalls \cup {Ended}]
    BY <1>2 DEF Lists
  <2>2. \A i \in Indexes : Live(l.calls[i]) => l.calls[i].st \in States /\ l.calls[i].type \in Types
    BY <2>1 DEF ModemCalls, Live, NoCall, Ended
  <2>3. shown \in [Indexes -> [st: States, type: Types] \cup {NoCall}]
    BY <2>2
  <2>4. details' = [details EXCEPT ![l.slot] = shown]
    BY DEF FinishCallsReportInfo, UpdateCallDetailsInfo
  <2> HIDE DEF shown, l
  <2> QED BY <1>1, <2>1, <2>3, <2>4 DEF Details
<1>4. AtWork' /\ EnvOK'
  BY DEF FinishCallsReportInfo, AtWork, ListsInv, EnvOK, env
<1> QED BY <1>1, <1>2, <1>3, <1>4, QueueStep DEF FinishCallsReportInfo

\* HandleSingleReport keeps it.
LEMMA StepSingleReport == ASSUME ListsInv, HandleSingleReport PROVE Sound
<1> DEFINE m == [Manager EXCEPT !.queue = Tail(@)]
<1>1. queue \in Seq(Lists \cup SoundReports) /\ Manager \in Managers
  BY Expand DEF ListsInv, Managers
<1>2. Head(queue) \in SoundReports /\ Tail(queue) \in Seq(Lists \cup SoundReports) /\ busy = FALSE
  BY <1>1, HeadTypes DEF HandleSingleReport, ListsInv, AtWork
<1>3. m \in Managers /\ m.calls = Manager.calls /\ m.af = Manager.af
  BY <1>1, <1>2, Expand DEF Managers
<1>4. FraudInv(m)
  BY <1>3 DEF ListsInv, FraudInv, CallAt
<1>5. PICK choice \in Choices : Become(HandleCallReportInfo(m, Head(queue), choice))
  BY DEF HandleSingleReport
<1> DEFINE n == HandleCallReportInfo(m, Head(queue), choice)
<1> HIDE DEF m, n
<1>6. n \in Managers /\ FraudInv(n) /\ StillWarned(m, n)
  BY <1>2, <1>3, <1>4, ReportHandled DEF Handled, Good, n
<1>7. Manager' = n
  BY <1>5, <1>6, BecomeIs DEF n
<1>8. StillWarned(Manager, n)
  BY <1>3, <1>6 DEF StillWarned, CallAt
<1>9. AtWork' /\ EnvOK'
  BY <1>2 DEF HandleSingleReport, AtWork, ListsInv, EnvOK, env
<1> QED BY <1>6, <1>7, <1>8, <1>9, PrimedInv DEF Sound, ListsInv

\* TaskStarts keeps it.
LEMMA StepTaskStarts == ASSUME ListsInv, TaskStarts PROVE Sound
<1>1. af.tasks \subseteq Tasks
  BY Expand DEF ListsInv, Managers, Frauds
<1>2. PICK t \in Tasks, ok \in BOOLEAN, answer \in StopAnswers :
         Become(StartAntiFraudService(Manager, t, ok, answer))
  BY <1>1 DEF TaskStarts
<1>3. Good(Manager, StartAntiFraudService(Manager, t, ok, answer))
  BY StartGood DEF ListsInv
<1> QED BY <1>2, <1>3, GoodStep DEF TaskStarts, ListsInv, AtWork

\* TaskDetects keeps it.
LEMMA StepTaskDetects == ASSUME ListsInv, TaskDetects PROVE Sound
<1>1. af.tasks \subseteq Tasks
  BY Expand DEF ListsInv, Managers, Frauds
<1>2. PICK t \in Tasks, ok \in BOOLEAN, answer \in StopAnswers :
         Become(AntiFraudStartDetect(Manager, t, ok, answer))
  BY <1>1 DEF TaskDetects
<1>3. Good(Manager, AntiFraudStartDetect(Manager, t, ok, answer))
  BY DetectGood DEF ListsInv
<1> QED BY <1>2, <1>3, GoodStep DEF TaskDetects, ListsInv, AtWork

\* TaskAnnounces keeps it.
LEMMA StepTaskAnnounces == ASSUME ListsInv, TaskAnnounces PROVE Sound
<1>1. af.tasks \subseteq Tasks
  BY Expand DEF ListsInv, Managers, Frauds
<1>2. PICK t \in Tasks : Become(AnnounceStart(Manager, t))
  BY <1>1 DEF TaskAnnounces
<1>3. Good(Manager, AnnounceStart(Manager, t))
  BY AnnounceGood DEF ListsInv
<1> QED BY <1>2, <1>3, GoodStep DEF TaskAnnounces, ListsInv, AtWork

\* ResultArrives keeps it.
LEMMA StepResultArrives == ASSUME ListsInv, ResultArrives PROVE Sound
<1> DEFINE f == [af EXCEPT !.det = NoPlace, !.abandoned = FALSE]
           m == [Manager EXCEPT !.af = f]
<1>1. Manager \in Managers /\ af \in Frauds /\ f \in Frauds /\ af.det \in Places
      /\ f.latch = af.latch /\ f.trig = af.trig /\ f.det = NoPlace /\ f.updates = af.updates
  BY Expand DEF ListsInv, Managers, Frauds, AfPlaces, ResultArrives
<1>2. [Manager EXCEPT !.af.det = NoPlace, !.af.abandoned = FALSE] = m
  BY <1>1, Expand DEF Managers, Frauds
<1>3. PICK state \in Verdicts : Become(RecordDetectResult(m, af.det, state))
  BY <1>2, Zenon DEF ResultArrives
<1> HIDE DEF f
<1>4. m \in Managers /\ m.calls = Manager.calls /\ m.af = f
  BY <1>1 DEF Managers
<1>5. FraudInv(m)
  BY <1>1, <1>4, Expand DEF ListsInv, FraudInv, CallAt
<1>6. Good(Manager, m) /\ Rest(Manager, m)
  BY <1>1, <1>5, AfGood DEF Good
<1> HIDE DEF m
<1>7. Good(m, RecordDetectResult(m, af.det, state))
  BY <1>1, <1>4, <1>5, RecordGood DEF Verdicts, AfStates
<1>8. Good(Manager, RecordDetectResult(m, af.det, state))
  BY <1>1, <1>4, <1>6, <1>7, GoodTrans
<1> QED BY <1>3, <1>8, GoodStep DEF ResultArrives, ListsInv, AtWork

\* LateResultArrives keeps it.
LEMMA StepLateResult == ASSUME ListsInv, LateResultArrives PROVE Sound
<1>1. Manager \in Managers /\ af \in Frauds /\ af.late \subseteq Places
  BY Expand DEF ListsInv, Managers, Frauds
<1>2. PICK place \in Places, state \in Verdicts :
         Become(RecordDetectResult([Manager EXCEPT !.af.late = @ \ {place}], place, state))
  BY <1>1 DEF LateResultArrives
<1> DEFINE f == [af EXCEPT !.late = @ \ {place}]
           m == [Manager EXCEPT !.af = f]
<1>3. /\ f \in Frauds /\ f.latch = af.latch /\ f.trig = af.trig /\ f.det = af.det
      /\ f.abandoned = af.abandoned /\ f.updates = af.updates
  BY <1>1 DEF Frauds
<1>4. [Manager EXCEPT !.af.late = @ \ {place}] = m
  BY <1>1, Expand DEF Managers, Frauds
<1>5. Good(Manager, m)
  BY <1>1, <1>3, Expand, AfMinor DEF ListsInv
<1>6. m \in Managers /\ FraudInv(m) /\ m.calls = Manager.calls /\ Rest(Manager, m)
  BY <1>1, <1>5 DEF Good, Managers
<1> HIDE DEF m
<1>7. Good(m, RecordDetectResult(m, place, state))
  BY <1>6, RecordGood DEF Verdicts, AfStates
<1>8. Good(Manager, RecordDetectResult(m, place, state))
  BY <1>1, <1>6, <1>7, GoodTrans
<1> QED BY <1>2, <1>4, <1>8, GoodStep DEF LateResultArrives, ListsInv, AtWork

\* TriggerFinishes keeps it.
LEMMA StepTriggerFinishes == ASSUME ListsInv, TriggerFinishes PROVE Sound
<1>1. PICK late \in Late : Become(FinishTrigger(Manager, late))
  BY DEF TriggerFinishes
<1>2. Good(Manager, FinishTrigger(Manager, late))
  BY FinishGood, Expand DEF ListsInv, TriggerFinishes
<1> QED BY <1>1, <1>2, GoodStep DEF TriggerFinishes, ListsInv, AtWork

\* HandleCeliaCall keeps it.
LEMMA StepCelia == ASSUME ListsInv, HandleCeliaCall PROVE Sound
<1>1. PICK place \in Places, answer \in StopAnswers, late \in Late :
         There(calls[place[1]][place[2]]) /\ Become(TakeOver(Manager, place, answer, late))
  BY DEF HandleCeliaCall
<1>2. Good(Manager, TakeOver(Manager, place, answer, late))
  <2>1. There(CallAt(Manager, place))
    BY <1>1, Expand DEF CallAt
  <2> QED BY <2>1, TakeOverGood DEF ListsInv
<1> QED BY <1>1, <1>2, GoodStep DEF HandleCeliaCall, ListsInv, AtWork

\* CallSetActive keeps it.
LEMMA StepCallSetActive == ASSUME ListsInv, CallSetActive PROVE Sound
<1>1. af.updates \subseteq Updates
  BY Expand DEF ListsInv, Managers, Frauds
<1>2. PICK u \in Updates : Become(UpdateActiveCall(Manager, u))
  BY <1>1 DEF CallSetActive
<1>3. Good(Manager, UpdateActiveCall(Manager, u))
  BY UpdateGood DEF ListsInv
<1> QED BY <1>2, <1>3, GoodStep DEF CallSetActive, ListsInv, AtWork

\* A report put at the end of the queue.
LEMMA OneMore ==
    ASSUME ListsInv, UNCHANGED <<calls, details, af, screened, work, busy>>, EnvOK',
           NEW x \in Lists \cup SoundReports, queue' = Append(queue, x)
    PROVE  Sound
<1>1. queue \in Seq(Lists \cup SoundReports)
  BY Expand DEF ListsInv, Managers
<1>2. <<x>> \in Seq(Lists \cup SoundReports) /\ queue' = queue \o <<x>>
  BY <1>1
<1> HIDE DEF ListsInv
<1> QED BY <1>2, AppendStep

\* No report put at the end of the queue.
LEMMA NoMore ==
    ASSUME ListsInv, UNCHANGED <<calls, details, af, screened, work, busy, queue>>, EnvOK'
    PROVE  Sound
<1>1. queue \in Seq(Lists \cup SoundReports)
  BY Expand DEF ListsInv, Managers
<1>2. <<>> \in Seq(Lists \cup SoundReports) /\ queue' = queue \o <<>>
  BY <1>1
<1> QED BY <1>2, AppendStep

\* The lists cellular_call sends have their type.
LEMMA ListsOfType ==
    ASSUME NEW s \in Slots, NEW cs \in [Indexes -> ModemCalls], NEW l \in ListsOf(s, cs)
    PROVE  [slot |-> s, calls |-> l] \in Lists
<1>1. PICK named : l = [i \in Indexes |-> IF i \in named THEN Ended ELSE cs[i]]
  BY DEF ListsOf
<1>2. \A i \in Indexes : l[i] \in ModemCalls \cup {Ended}
  BY <1>1
<1> QED BY <1>1, <1>2 DEF Lists

\* The modem changes its calls and lists them.
LEMMA StepModem ==
    ASSUME ListsInv, NEW s \in Slots, NEW cs \in [Indexes -> ModemCalls], ModemBecomes(s, cs),
           dialReq' \in [Slots -> Nums \cup {0}],
           used' \in [calls: 0..MaxCalls, dials: 0..MaxDials, changes: 0..MaxChanges,
                      crashes: 0..MaxCrashes, old: 0..MaxCalls]
    PROVE  Sound
<1>1. EnvOK'
  BY DEF ModemBecomes, ListsInv, EnvOK
<1>2. CASE queue' = queue
  BY <1>1, <1>2, NoMore DEF ModemBecomes
<1>3. CASE queue' # queue
  <2>1. PICK l \in ListsOf(s, cs) : queue' = Append(queue, [slot |-> s, calls |-> l])
    BY <1>3 DEF ModemBecomes, OnUpdateCallsReportInfo
  <2>2. [slot |-> s, calls |-> l] \in Lists
    BY ListsOfType
  <2> QED BY <1>1, <2>1, <2>2, OneMore DEF ModemBecomes
<1> QED BY <1>2, <1>3

\* UserDials keeps the invariant.
LEMMA StepUserDials == ASSUME ListsInv, NEW s \in Slots, UserDials(s) PROVE Sound
<1>1. used.calls + 1 \in Nums /\ used.calls \in Nat /\ used.dials + 1 \in 0..MaxDials
      /\ used.calls + 1 \in 0..MaxCalls
  <2>1. used.calls \in 0..MaxCalls /\ used.dials \in 0..MaxDials
        /\ used.calls < MaxCalls /\ used.dials < MaxDials
    BY DEF UserDials, ListsInv, EnvOK
  <2> QED BY <2>1, ListsAssumption DEF Nums
<1>2. EnvOK'
  BY <1>1 DEF UserDials, ListsInv, EnvOK
<1>3. Report(s, InitIndex, "DIALING", "IMS", used.calls + 1) \in SoundReports
  BY <1>1, PlaceTypes DEF SoundReports, Reports, Report, States, Types
<1> QED BY <1>2, <1>3, OneMore DEF UserDials

\* ModemAcceptsDial keeps it.
LEMMA StepAcceptsDial == ASSUME ListsInv, NEW s \in Slots, ModemAcceptsDial(s) PROVE Sound
<1>1. dialReq[s] \in Nums /\ dialReq' \in [Slots -> Nums \cup {0}]
  BY DEF ModemAcceptsDial, ListsInv, EnvOK
<1>2. PICK i \in Indexes, st \in {"DIALING", "ALERTING"} :
         ModemBecomes(s, [modem[s] EXCEPT ![i] = [st |-> st, type |-> "IMS", num |-> dialReq[s]]])
  BY DEF ModemAcceptsDial
<1>3. [modem[s] EXCEPT ![i] = [st |-> st, type |-> "IMS", num |-> dialReq[s]]] \in [Indexes -> ModemCalls]
  <2>1. [st |-> st, type |-> "IMS", num |-> dialReq[s]] \in ModemCalls
    BY <1>1 DEF ModemCalls, States, Types
  <2> QED BY <2>1 DEF ListsInv, EnvOK
<1> QED BY <1>1, <1>2, <1>3, StepModem DEF ModemAcceptsDial, ListsInv, EnvOK

\* ModemRefusesDial keeps it.
LEMMA StepRefusesDial == ASSUME ListsInv, NEW s \in Slots, ModemRefusesDial(s) PROVE Sound
<1>1. dialReq[s] \in Nums /\ EnvOK'
  BY DEF ModemRefusesDial, ListsInv, EnvOK
<1>2. Report(s, InitIndex, "DISCONNECTED", "IMS", dialReq[s]) \in SoundReports
  BY <1>1, PlaceTypes DEF SoundReports, Reports, Report, States, Types
<1> QED BY <1>1, <1>2, OneMore DEF ModemRefusesDial

\* ModemRings keeps it.
LEMMA StepRings == ASSUME ListsInv, NEW s \in Slots, ModemRings(s) PROVE Sound
<1>1. used.calls + 1 \in Nums /\ used.calls + 1 \in 0..MaxCalls
  BY ListsAssumption DEF ModemRings, ListsInv, EnvOK, Nums
<1> DEFINE st == IF \A j \in Indexes : ~There(modem[s][j]) THEN "INCOMING" ELSE "WAITING"
           c == [st |-> st, type |-> "IMS", num |-> used.calls + 1]
<1>2. PICK i \in Indexes : ModemBecomes(s, [modem[s] EXCEPT ![i] = c])
  BY DEF ModemRings
<1>3. c \in ModemCalls
  BY <1>1 DEF ModemCalls, States, Types
<1> HIDE DEF c
<1>4. [modem[s] EXCEPT ![i] = c] \in [Indexes -> ModemCalls]
  BY <1>3 DEF ListsInv, EnvOK
<1>5. used' = [used EXCEPT !.calls = @ + 1] /\ dialReq' = dialReq
  BY DEF ModemRings
<1>6. used' \in [calls: 0..MaxCalls, dials: 0..MaxDials, changes: 0..MaxChanges,
                 crashes: 0..MaxCrashes, old: 0..MaxCalls]
      /\ dialReq' \in [Slots -> Nums \cup {0}]
  BY <1>1, <1>5 DEF ListsInv, EnvOK
<1> QED BY <1>2, <1>4, <1>6, StepModem

\* The count of the changes stays in its bound.
LEMMA OneChange ==
    ASSUME ListsInv, used.changes < MaxChanges, used' = [used EXCEPT !.changes = @ + 1],
           UNCHANGED dialReq
    PROVE  used' \in [calls: 0..MaxCalls, dials: 0..MaxDials, changes: 0..MaxChanges,
                      crashes: 0..MaxCrashes, old: 0..MaxCalls]
           /\ dialReq' \in [Slots -> Nums \cup {0}]
<1>1. used.changes + 1 \in 0..MaxChanges
  BY ListsAssumption DEF ListsInv, EnvOK
<1> QED BY <1>1 DEF ListsInv, EnvOK

\* ModemChanges keeps the invariant.
LEMMA StepChanges == ASSUME ListsInv, NEW s \in Slots, ModemChanges(s) PROVE Sound
<1>1. /\ used' \in [calls: 0..MaxCalls, dials: 0..MaxDials, changes: 0..MaxChanges,
                    crashes: 0..MaxCrashes, old: 0..MaxCalls]
      /\ dialReq' \in [Slots -> Nums \cup {0}]
  BY OneChange DEF ModemChanges
<1>2. modem[s] \in [Indexes -> ModemCalls]
  BY DEF ListsInv, EnvOK
<1> DEFINE moved(i, st) == [j \in Indexes |->
                    IF j = i THEN [modem[s][i] EXCEPT !.st = st]
                    ELSE IF st = "ACTIVE" /\ modem[s][j].st = "ACTIVE"
                    THEN [modem[s][j] EXCEPT !.st = "HOLDING"]
                    ELSE modem[s][j]]
<1>3. PICK i \in Indexes :
         /\ There(modem[s][i])
         /\ \/ \E st \in NextStates(s, i) : ModemBecomes(s, moved(i, st))
            \/ ModemBecomes(s, [modem[s] EXCEPT ![i] = NoCall])
  BY DEF ModemChanges
<1>4. CASE \E st \in NextStates(s, i) : ModemBecomes(s, moved(i, st))
  <2>1. PICK st \in NextStates(s, i) : ModemBecomes(s, moved(i, st))
    BY <1>4
  <2>2. st \in States
    BY DEF NextStates, States
  <2>3. \A j \in Indexes, x \in States : There(modem[s][j]) => [modem[s][j] EXCEPT !.st = x] \in ModemCalls
    BY <1>2 DEF ModemCalls, There, NoCall
  <2>4. \A j \in Indexes : modem[s][j].st = "ACTIVE" => There(modem[s][j])
    BY DEF There
  <2>5. "HOLDING" \in States
    BY DEF States
  <2>6. moved(i, st) \in [Indexes -> ModemCalls]
    BY <1>2, <1>3, <2>2, <2>3, <2>4, <2>5
  <2> HIDE DEF moved
  <2> QED BY <1>1, <2>1, <2>6, StepModem
<1>5. CASE ModemBecomes(s, [modem[s] EXCEPT ![i] = NoCall])
  <2>1. [modem[s] EXCEPT ![i] = NoCall] \in [Indexes -> ModemCalls]
    BY <1>2 DEF ModemCalls
  <2> QED BY <1>1, <1>5, <2>1, StepModem
<1> QED BY <1>3, <1>4, <1>5

\* ModemHandsOver keeps it.
LEMMA StepHandsOver == ASSUME ListsInv, NEW s \in Slots, ModemHandsOver(s) PROVE Sound
<1> DEFINE cs == [i \in Indexes |-> IF There(modem[s][i]) THEN [modem[s][i] EXCEPT !.type = "CS"] ELSE NoCall]
<1>1. /\ used' \in [calls: 0..MaxCalls, dials: 0..MaxDials, changes: 0..MaxChanges,
                    crashes: 0..MaxCrashes, old: 0..MaxCalls]
      /\ dialReq' \in [Slots -> Nums \cup {0}]
  BY OneChange DEF ModemHandsOver
<1>2. modem[s] \in [Indexes -> ModemCalls]
  BY DEF ListsInv, EnvOK
<1>3. \A i \in Indexes : There(modem[s][i]) => [modem[s][i] EXCEPT !.type = "CS"] \in ModemCalls
  BY <1>2 DEF ModemCalls, There, NoCall, Types
<1>4. cs \in [Indexes -> ModemCalls]
  BY <1>3 DEF ModemCalls
<1>5. ModemBecomes(s, cs)
  BY DEF ModemHandsOver
<1> HIDE DEF cs
<1> QED BY <1>1, <1>4, <1>5, StepModem

\* OnRemoveSystemAbility keeps it.
LEMMA StepRemove == ASSUME ListsInv, OnRemoveSystemAbility PROVE Sound
<1>1. used.crashes + 1 \in 0..MaxCrashes
  BY ListsAssumption DEF OnRemoveSystemAbility, ListsInv, EnvOK
<1>2. EnvOK'
  BY <1>1 DEF OnRemoveSystemAbility, ListsInv, EnvOK
<1> QED BY <1>2, NoMore DEF OnRemoveSystemAbility, manager

\* OnAddSystemAbility keeps it.
LEMMA StepAdd == ASSUME ListsInv, OnAddSystemAbility PROVE Sound
<1>1. EnvOK'
  BY DEF OnAddSystemAbility, ListsInv, EnvOK
<1> QED BY <1>1, NoMore DEF OnAddSystemAbility, manager

\* ClearAllCalls keeps it.
LEMMA StepClear == ASSUME ListsInv, ClearAllCalls PROVE Sound
<1> DEFINE ended(s, i) == <<s, i>> \in clearing
           left(s) == [i \in Indexes |-> IF ended(s, i) THEN NoCall ELSE modem[s][i]]
           single(s, i) == Report(s, i, "DISCONNECTED", "IMS", 0)
           s == CHOOSE s \in Slots : \E p \in clearing : p[1] = s
           inits == IF ended(s, InitIndex) THEN <<single(s, InitIndex)>> ELSE <<>>
           numbered == Ascending({i \in Indexes : ended(s, i)}, MaxIdx)
           l == [slot |-> s, calls |-> [i \in Indexes |-> IF ended(s, i) THEN Ended ELSE modem[s][i]]]
           singles == [k \in DOMAIN numbered |-> single(s, numbered[k])]
<1>1. /\ modem' = [modem EXCEPT ![s] = left(s)]
      /\ queue' = IF ClearReport = "list" THEN OnUpdateCallsReportInfo(queue \o inits, l)
                  ELSE queue \o inits \o singles
      /\ clearing # {} /\ clearing' \subseteq clearing /\ reported' = reported \cup {s}
      /\ UNCHANGED <<calls, details, af, screened, work, busy, dialReq, up, used>>
  BY DEF ClearAllCalls
<1>2. s \in Slots
  <2>1. \E t \in Slots : \E p \in clearing : p[1] = t
    BY <1>1 DEF ListsInv, EnvOK
  <2> QED BY <2>1
<1>3. queue \in Seq(Lists \cup SoundReports)
  BY Expand DEF ListsInv, Managers
<1>4. \A i \in 0..MaxIdx : single(s, i) \in SoundReports
  BY <1>2 DEF Report, SoundReports, Reports, Types
<1>5. inits \in Seq(Lists \cup SoundReports)
  <2>1. single(s, InitIndex) \in SoundReports
    BY <1>4, PlaceTypes
  <2> HIDE DEF single
  <2> QED BY <2>1
<1>6. singles \in Seq(Lists \cup SoundReports)
  <2>1. {i \in Indexes : ended(s, i)} \in SUBSET Indexes
    OBVIOUS
  <2>2. DOMAIN numbered = 1..Len(numbered) /\ Len(numbered) \in Nat
        /\ \A k \in 1..Len(numbered) : numbered[k] \in Indexes
    BY <2>1, Picked
  <2> HIDE DEF numbered, single
  <2>3. \A k \in 1..Len(numbered) : single(s, numbered[k]) \in Lists \cup SoundReports
    BY <1>4, <2>2, PlaceTypes
  <2> QED BY <2>2, <2>3
<1>7. l \in Lists
  <2>1. \A i \in Indexes : modem[s][i] \in ModemCalls
    BY <1>2 DEF ListsInv, EnvOK
  <2> QED BY <1>2, <2>1 DEF Lists
<1>8. EnvOK'
  <2>0. \A i \in Indexes : modem[s][i] \in ModemCalls
    BY <1>2 DEF ListsInv, EnvOK
  <2>1. left(s) \in [Indexes -> ModemCalls]
    BY <2>0 DEF ModemCalls
  <2> HIDE DEF left, s
  <2> QED BY <1>1, <1>2, <2>1 DEF ListsInv, EnvOK
<1> HIDE DEF inits, singles, l, s
<1>9. PICK more \in Seq(Lists \cup SoundReports) : queue' = queue \o more
  <2>1. queue \o inits \o singles = queue \o (inits \o singles)
        /\ inits \o singles \in Seq(Lists \cup SoundReports)
    BY <1>3, <1>5, <1>6
  <2>2. Append(queue \o inits, l) = queue \o Append(inits, l)
        /\ Append(inits, l) \in Seq(Lists \cup SoundReports)
    BY <1>3, <1>5, <1>7
  <2> QED BY <1>1, <1>5, <2>1, <2>2 DEF OnUpdateCallsReportInfo
<1> QED BY <1>1, <1>8, <1>9, AppendStep
-----------------------------------------------------------------------------
\* The invariant holds at the start.
LEMMA ListsInit == ASSUME Init PROVE ListsInv
<1>1. AfInit \in Frauds
  BY DEF AfInit, Frauds, AfPlaces, Triggers
<1>2. Manager \in Managers
  <2>1. calls \in Tables
    BY CallTypes DEF Init, Tables
  <2>2. details \in Details
    BY DEF Init, Details
  <2> QED BY <1>1, <2>1, <2>2 DEF Init, Manager, Managers
<1>3. FraudInv(Manager)
  BY CallTypes, PlaceTypes DEF Init, FraudInv, Manager, AfInit, Unmarked
<1>4. AtWork
  <2>1. work = <<>> /\ busy = FALSE
    BY DEF Init
  <2>2. <<>> \in Seq(SoundReports)
    OBVIOUS
  <2>3. work \in Seq(SoundReports)
    BY <2>1, <2>2
  <2> QED BY <2>1, <2>3 DEF AtWork
<1>5. EnvOK
  BY ListsAssumption DEF Init, EnvOK, ModemCalls
<1> QED BY <1>2, <1>3, <1>4, <1>5 DEF ListsInv

\* No step breaks it.
LEMMA ListsStep == ASSUME ListsInv, [Next]_vars PROVE Sound
<1>1. CASE UNCHANGED vars
  <2>1. EnvOK'
    BY <1>1 DEF vars, env, EnvOK, ListsInv
  <2> QED BY <1>1, <2>1, NoMore DEF vars, manager
<1>2. CASE ReportQueue
  BY <1>2, StepCallsReport, StepListedCall, StepFinish, StepSingleReport DEF ReportQueue
<1>3. CASE Detection
  BY <1>3, StepTaskStarts, StepTaskDetects, StepTaskAnnounces, StepResultArrives,
     StepLateResult, StepTriggerFinishes, StepCelia, StepCallSetActive DEF Detection
<1>4. CASE Modem
  BY <1>4, StepUserDials, StepAcceptsDial, StepRefusesDial, StepRings, StepChanges,
     StepHandsOver DEF Modem
<1>5. CASE Service
  BY <1>5, StepRemove, StepAdd, StepClear DEF Service
<1> QED BY <1>1, <1>2, <1>3, <1>4, <1>5 DEF Next

\* The types, the soundness of the queued reports and the invariant of fraud detection
\* hold throughout: no order of reports, callbacks, crashes and clearings breaks them.
THEOREM ListsInvariant == Spec => []ListsInv
<1>1. Init => ListsInv
  BY ListsInit
<1>2. ListsInv /\ [Next]_vars => ListsInv'
  BY ListsStep DEF Sound
<1> QED BY <1>1, <1>2, PTL DEF Spec

\* Table, queue, previous lists and fraud detection keep their types; in particular a
\* report the queue invents or receives always fits the handlers that read it.
THEOREM TypeCorrect == Spec => []TypeOK
<1>1. ListsInv => TypeOK
  <2> SUFFICES ASSUME ListsInv PROVE TypeOK
    OBVIOUS
  <2>1. calls \in Tables /\ queue \in Seq(Lists \cup SoundReports) /\ details \in Details
        /\ af \in Frauds /\ screened \subseteq [place: Places, num: Nums]
    BY Expand DEF ListsInv, Managers
  <2>2. SoundReports \subseteq Reports
    BY DEF SoundReports
  <2>3. queue \in Seq(Lists \cup Reports) /\ work \in Seq(Reports)
    BY <2>1, <2>2 DEF ListsInv, AtWork
  <2> QED BY <2>1, <2>3 DEF TypeOK, Tables, Details, Frauds, ListsInv, AtWork, EnvOK
<1> QED BY <1>1, ListsInvariant, PTL

\* antiFraudSlotId_ and antiFraudIndex_ never outlive their call: every handler that
\* takes a call out of the table stops its detection first.
THEOREM LatchHeld == Spec => []LatchHasCall
<1>1. ListsInv => LatchHasCall
  BY Expand DEF ListsInv, FraudInv, LatchHasCall, CallAt
<1> QED BY <1>1, ListsInvariant, PTL

\* Whatever the anti-fraud service answers, it listens only to the call the latch names,
\* unless another detection's verdict freed the latch, the service refused to stop or the
\* latch was freed between the start task's look at it and the start.
THEOREM DetectionOwned == Spec => []DetectionIsOwned
<1>1. ListsInv => DetectionIsOwned
  BY Expand DEF ListsInv, FraudInv, DetectionIsOwned
<1> QED BY <1>1, ListsInvariant, PTL

\* No step of the handlers or of fraud detection overwrites ANTIFRAUD_STATE_RISK on a
\* call that is still the same object.
THEOREM VerdictStays == Spec => VerdictSticks
<1>1. ListsInv /\ [Next]_vars =>
         [\A p \in Places :
             LET c == calls[p[1]][p[2]]
                 d == calls'[p[1]][p[2]]
             IN There(c) /\ There(d) =>
                (c.af = "RISK" /\ d.num = c.num /\ d.type = c.type => d.af = "RISK")]_vars
  <2> SUFFICES ASSUME ListsInv, [Next]_vars, NEW p \in Places
               PROVE  Warned(calls[p[1]][p[2]], calls'[p[1]][p[2]])
    BY DEF Warned
  <2>1. StillWarned(Manager, Manager')
    BY ListsStep DEF Sound
  <2> QED BY <2>1, Expand DEF StillWarned, CallAt
<1> QED BY <1>1, ListsInvariant, PTL DEF Spec, VerdictSticks
=============================================================================
