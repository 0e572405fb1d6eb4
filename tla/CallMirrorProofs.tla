--------------------------- MODULE CallMirrorProofs --------------------------
(***************************************************************************)
(* CallLists implements CallMirror, for any slots, indexes and bounds, as  *)
(* long as the lists arrive in the orders the standing runs admit and      *)
(* ClearAllCalls is answered by a list.                                    *)
(*                                                                         *)
(* The invariant says of every place that the table agrees with what was   *)
(* last handled of it, callDetailsInfo_ or the list at work, and that the  *)
(* queued lists go on from there in the order of a call's life, up to the  *)
(* modem's call (see ListReportsProofs).  So no report finds the table in  *)
(* a state its handler was not made for, and each brings its call to what  *)
(* the list says.                                                          *)
(***************************************************************************)
EXTENDS ListReportsProofs

\* The list at the head of the queue is at work, and with the call at (s, i) done.
Here(s) == busy /\ Head(queue).slot = s
Done(s, i) == Here(s) /\ \A k \in DOMAIN work : work[k].idx # i

\* The calls the modem has had.
Seen == {n \in Nums : n <= used.calls /\ \A t \in Slots : dialReq[t] # n}

Hidden(s, i) == \E x \in screened : x.place = <<s, i>>
Lastly(s, i) == IF Done(s, i) THEN Head(queue).calls[i] ELSE details[s][i]

\* cellular_call tells what becomes of the modem's call.
Open(s, i) == up /\ <<s, i>> \notin clearing

\* The first list to show a dialled call has it ALERTING; for the other calls it is
\* as the previous list, so the dial is still in the table under index 0.
FirstAlert(s, i) ==
    /\ Head(queue).calls[i].st = "ALERTING" /\ ~There(details[s][i])
    /\ There(calls[s][InitIndex])
    /\ \A j \in Indexes \ {i} :
          /\ There(Head(queue).calls[j]) <=> There(details[s][j])
          /\ There(Head(queue).calls[j]) => Live(Head(queue).calls[j])

\* The head's first report of the call needs nothing of callDetailsInfo_.
Excused(s, i) == Done(s, i) \/ FirstAlert(s, i)

PlaceOK(s, i) ==
    /\ Agrees(Lastly(s, i), calls[s][i], Hidden(s, i))
    /\ Fits(View(queue, s, i), details[s][i], modem[s][i], calls[s][i],
            Open(s, i), Excused(s, i), Seen, Hidden(s, i), Here(s))

\* The reports still to handle say what the list at work says.
Told(r, l) ==
    LET h == l.calls[r.idx]
    IN /\ r.slot = l.slot /\ r.idx \in Indexes
       /\ IF There(h) THEN r.st = h.st /\ r.type = h.type /\ r.num = h.num
          ELSE r.st = "DISCONNECTED" /\ There(details[r.slot][r.idx])

WorkOK ==
    /\ ~busy => work = <<>>
    /\ \A k \in DOMAIN work :
          /\ Told(work[k], Head(queue))
          /\ \A j \in DOMAIN work : j # k => work[j].idx # work[k].idx

\* One dial is on its way, and no call is refused while nobody reports its end.
DialsOK ==
    /\ \A s \in Slots : dialReq[s] <= used.calls
    /\ \A s, t \in Slots : dialReq[s] # 0 /\ dialReq[t] # 0 => s = t
    /\ ~up => screened = {}
    /\ Singles(queue)

Following == /\ \A s \in Slots, i \in Indexes : PlaceOK(s, i)
             /\ WorkOK /\ DialsOK
-----------------------------------------------------------------------------
(* Steps that leave a place as it is *)

\* One place.
LEMMA PlaceStill ==
    ASSUME NEW s, NEW i, PlaceOK(s, i),
           View(queue', s, i) = View(queue, s, i), details'[s][i] = details[s][i],
           modem'[s][i] = modem[s][i], SameCall(calls[s][i], calls'[s][i]),
           Open(s, i)' => Open(s, i),
           1 \in DOMAIN View(queue, s, i) /\ Excused(s, i) => Excused(s, i)',
           Seen \subseteq Seen', Hidden(s, i)' <=> Hidden(s, i), Here(s) => Here(s)',
           Look(Lastly(s, i)') = Look(Lastly(s, i))
    PROVE  PlaceOK(s, i)'
<1>1. Fits(View(queue', s, i), details'[s][i], modem'[s][i], calls'[s][i],
            Open(s, i)', Excused(s, i)', Seen', Hidden(s, i)', Here(s)')
  BY FitsStill DEF PlaceOK
<1>2. Agrees(Lastly(s, i)', calls'[s][i], Hidden(s, i)')
  BY LookFacts DEF Agrees, PlaceOK, SameCall, There, Look, Live
<1> QED BY <1>1, <1>2 DEF PlaceOK

Keeps(m, n) == \A s \in Slots, i \in 0..MaxIdx : SameCall(m.calls[s][i], n.calls[s][i])

\* Nothing but fraud detection moves, and reports at the queue's end.
LEMMA StillFollowing ==
    ASSUME ListsInv, ListsInv', Following, Keeps(Manager, Manager'), Grown(queue, queue'),
           UNCHANGED <<details, screened, modem, work, busy>>,
           \A s \in Slots, i \in Indexes : Open(s, i)' => Open(s, i),
           Seen \subseteq Seen', DialsOK'
    PROVE  Following'
<1>1. queue \in Queues /\ queue' \in Queues
  BY Expand DEF ListsInv, Managers, Queues
<1>2. queue # <<>> => queue' # <<>> /\ Head(queue') = Head(queue)
  BY <1>1 DEF Grown, Queues
<1>3. busy => queue # <<>>
  BY DEF ListsInv, AtWork
<1>4. WorkOK'
  <2>1. \A k \in DOMAIN work : Told(work[k], Head(queue)) => Told(work[k], Head(queue))'
    <3> SUFFICES ASSUME NEW k \in DOMAIN work PROVE queue # <<>>
      BY <1>2 DEF Told
    <3>1. busy
      BY DEF Following, WorkOK
    <3> QED BY <1>3, <3>1
  <2> QED BY <2>1 DEF Following, WorkOK
<1>5. ASSUME NEW s \in Slots, NEW i \in Indexes PROVE PlaceOK(s, i)'
  <2>0. i \in 0..MaxIdx /\ InitIndex \in 0..MaxIdx
    BY PlaceTypes
  <2>1. View(queue', s, i) = View(queue, s, i)
    BY <1>1, ViewGrown
  <2>2. SameCall(calls[s][i], calls'[s][i]) /\ SameCall(calls[s][InitIndex], calls'[s][InitIndex])
    BY <2>0, Expand DEF Keeps
  <2>3. (Here(s)' <=> Here(s)) /\ (Done(s, i)' <=> Done(s, i))
    BY <1>2, <1>3 DEF Here, Done
  <2>4. Hidden(s, i)' <=> Hidden(s, i)
    BY DEF Hidden
  <2>5. Lastly(s, i)' = Lastly(s, i)
    BY <1>2, <1>3, <2>3 DEF Lastly, Done, Here
  <2>6. 1 \in DOMAIN View(queue, s, i) /\ Excused(s, i) => Excused(s, i)'
    <3> SUFFICES ASSUME 1 \in DOMAIN View(queue, s, i), FirstAlert(s, i) PROVE FirstAlert(s, i)'
      BY <2>3 DEF Excused
    <3>1. queue # <<>>
      BY <1>1, ViewIs
    <3> QED BY <1>2, <2>2, <3>1 DEF FirstAlert, SameCall, There
  <2>7. PlaceOK(s, i)
    BY DEF Following
  <2> QED BY <2>1, <2>2, <2>3, <2>4, <2>5, <2>6, <2>7, PlaceStill
<1> QED BY <1>4, <1>5 DEF Following
-----------------------------------------------------------------------------
(* Fraud detection's own steps *)

\* A record of the call manager's state, whatever its fraud detection.
Fielded(m) ==
    m.calls \in Tables /\ DOMAIN m = {"calls", "queue", "details", "af", "screened"}

Untouched(m, n) == /\ Fielded(n) /\ n.queue = m.queue /\ n.details = m.details
               /\ n.screened = m.screened /\ Keeps(m, n)

\* A step of fraud detection that leaves the calls alone is quiet,
LEMMA AfQuiet ==
    ASSUME NEW m, Fielded(m), NEW n, DOMAIN n = DOMAIN m, n.calls = m.calls,
           n.queue = m.queue, n.details = m.details, n.screened = m.screened
    PROVE  Untouched(m, n)
  BY DEF Untouched, Fielded, Keeps, SameCall

\* and so is a mark on a call;
LEMMA SetAfQuiet ==
    ASSUME NEW m, Fielded(m), NEW p \in Places, NEW x \in AfStates
    PROVE  Untouched(m, SetAf(m, p, x))
<1> DEFINE n == SetAf(m, p, x)
           s == p[1]
           i == p[2]
           c == m.calls[s][i]
           d == [c EXCEPT !.af = x]
<1>1. s \in Slots /\ i \in 0..MaxIdx /\ m.calls \in [Slots -> [0..MaxIdx -> TableCalls]]
  BY PlaceTypes DEF Fielded, Tables
<1>2. c \in TableCalls
  BY <1>1
<1>3. d \in TableCalls /\ SameCall(c, d)
  BY <1>2 DEF TableCalls, SameCall, There, NoCall
<1>4. n = [m EXCEPT !.calls[s][i] = d]
  BY DEF SetAf
<1> HIDE DEF n, d, s, i
<1>5. /\ DOMAIN n = DOMAIN m /\ n.queue = m.queue /\ n.details = m.details /\ n.screened = m.screened
      /\ n.calls = [m.calls EXCEPT ![s][i] = d]
  BY <1>4 DEF Fielded
<1>6. n.calls \in Tables
  BY <1>1, <1>3, <1>5 DEF Tables
<1>7. \A t \in Slots, j \in 0..MaxIdx :
         n.calls[t][j] = IF t = s /\ j = i THEN d ELSE m.calls[t][j]
  BY <1>1, <1>5, ZenonT(40)
<1>8. Keeps(m, n)
  BY <1>3, <1>7 DEF Keeps, SameCall
<1> QED BY <1>5, <1>6, <1>8 DEF Untouched, Fielded, n

\* two quiet steps are one;
LEMMA QuietThen ==
    ASSUME NEW m, NEW n, NEW k, Untouched(m, n), Untouched(n, k)
    PROVE  Untouched(m, k)
<1>1. \A c, d, e : SameCall(c, d) /\ SameCall(d, e) => SameCall(c, e)
  BY DEF SameCall, There
<1> QED BY <1>1 DEF Untouched, Keeps

\* StopAntiFraudDetect is quiet,
LEMMA StopQuiet ==
    ASSUME NEW m, Fielded(m), NEW p \in Places, NEW answer
    PROVE  Untouched(m, StopAntiFraudDetect(m, p, answer))
<1> DEFINE q == [StopAntiFraudService(m, p, answer) EXCEPT !.af.latch = NoPlace]
<1>1. Untouched(m, q)
  <2>1. DOMAIN q = DOMAIN m /\ q.calls = m.calls /\ q.queue = m.queue
        /\ q.details = m.details /\ q.screened = m.screened
    BY DEF StopAntiFraudService, Fielded
  <2> HIDE DEF q
  <2> QED BY <2>1, AfQuiet
<1>2. Untouched(m, m)
  BY AfQuiet
<1>3. StopAntiFraudDetect(m, p, answer) = IF m.af.latch # p THEN m ELSE SetAf(q, p, "STOPPED")
  BY DEF StopAntiFraudDetect
<1> HIDE DEF q
<1>4. Untouched(q, SetAf(q, p, "STOPPED"))
  BY <1>1, SetAfQuiet DEF AfStates, Untouched
<1> QED BY <1>1, <1>2, <1>3, <1>4, QuietThen

\* TriggerAntiFraud,
LEMMA TriggerQuiet ==
    ASSUME NEW m, Fielded(m), NEW state
    PROVE  Untouched(m, TriggerAntiFraud(m, state))
<1> DEFINE n == TriggerAntiFraud(m, state)
<1>1. DOMAIN n = DOMAIN m /\ n.calls = m.calls /\ n.queue = m.queue
      /\ n.details = m.details /\ n.screened = m.screened
  BY DEF TriggerAntiFraud, Fielded
<1> HIDE DEF n
<1> QED BY <1>1, AfQuiet DEF n

\* RecordDetectResult,
LEMMA RecordQuiet ==
    ASSUME NEW m, Fielded(m), NEW p, NEW state
    PROVE  Untouched(m, RecordDetectResult(m, p, state))
<1>1. CASE m.af.stopped = p
  <2> DEFINE n == [m EXCEPT !.af.stopped = NoPlace]
  <2>1. DOMAIN n = DOMAIN m /\ n.calls = m.calls /\ n.queue = m.queue
        /\ n.details = m.details /\ n.screened = m.screened
    BY DEF Fielded
  <2> HIDE DEF n
  <2> QED BY <1>1, <2>1, AfQuiet DEF RecordDetectResult, n
<1>2. CASE m.af.stopped # p
  BY <1>2, TriggerQuiet DEF RecordDetectResult
<1> QED BY <1>1, <1>2

\* a thread that is about to set a call ACTIVE,
LEMMA AgainQuiet ==
    ASSUME NEW m, Fielded(m), NEW o, NEW by, NEW late
    PROVE  Untouched(m, SetActiveAgain(m, o, by, late))
<1> DEFINE n == SetActiveAgain(m, o, by, late)
<1>1. DOMAIN n = DOMAIN m /\ n.calls = m.calls /\ n.queue = m.queue
      /\ n.details = m.details /\ n.screened = m.screened
  BY DEF SetActiveAgain, Fielded
<1> HIDE DEF n
<1> QED BY <1>1, AfQuiet DEF n

\* its second half,
LEMMA FinishQuiet ==
    ASSUME NEW m, Fielded(m), m.af.trig.state \in AfStates, NEW late,
           m.af.trig.found # NoCall => m.af.trig.found.place \in Places
    PROVE  Untouched(m, FinishTrigger(m, late))
<1> DEFINE t == m.af.trig
           n == [m EXCEPT !.af.trig = NoTrigger,
                          !.af.latch = IF t.state \in Verdicts THEN NoPlace ELSE @,
                          !.af.abandoned = @ \/ (t.state \in Verdicts /\ m.af.det # NoPlace)]
<1>1. Untouched(m, n)
  <2>1. DOMAIN n = DOMAIN m /\ n.calls = m.calls /\ n.queue = m.queue
        /\ n.details = m.details /\ n.screened = m.screened
    BY DEF Fielded
  <2> HIDE DEF n
  <2> QED BY <2>1, AfQuiet
<1> DEFINE k == SetAf(n, t.found.place, t.state)
<1>2. \/ FinishTrigger(m, late) = n
      \/ t.found # NoCall /\ FinishTrigger(m, late) = SetActiveAgain(k, t.found, "trigger", late)
  BY DEF FinishTrigger
<1> HIDE DEF n
<1>3. ASSUME t.found # NoCall PROVE Untouched(n, k) /\ Untouched(k, SetActiveAgain(k, t.found, "trigger", late))
  <2>1. Untouched(n, k)
    BY <1>1, <1>3, SetAfQuiet DEF Untouched
  <2> HIDE DEF k
  <2> QED BY <2>1, AgainQuiet DEF Untouched
<1> HIDE DEF k
<1> QED BY <1>1, <1>2, <1>3, QuietThen

\* a start given up,
LEMMA GiveUpQuiet ==
    ASSUME NEW m, Fielded(m), NEW t \in Tasks, NEW answer
    PROVE  Untouched(m, GiveUpStart(m, t, answer))
<1>1. t.call.place \in Places /\ Untouched(m, m)
  BY AfQuiet DEF Tasks, Objects
<1> QED BY <1>1, StopQuiet DEF GiveUpStart

\* the start task's check
LEMMA StartQuiet ==
    ASSUME NEW m, Fielded(m), NEW t \in Tasks, NEW ok, NEW answer
    PROVE  Untouched(m, StartAntiFraudService(m, t, ok, answer))
<1> DEFINE n == [m EXCEPT !.af.tasks = @ \ {t}]
           k == [n EXCEPT !.af.tasks = @ \cup {[t EXCEPT !.pc = "checked"]}]
<1>1. Untouched(m, n) /\ Fielded(n)
  <2>1. DOMAIN n = DOMAIN m /\ n.calls = m.calls /\ n.queue = m.queue
        /\ n.details = m.details /\ n.screened = m.screened
    BY DEF Fielded
  <2> HIDE DEF n
  <2> QED BY <2>1, AfQuiet DEF Untouched
<1>2. StartAntiFraudService(m, t, ok, answer) \in {k, GiveUpStart(n, t, answer)}
  BY DEF StartAntiFraudService
<1>3. Untouched(n, k)
  <2> HIDE DEF n
  <2>1. DOMAIN k = DOMAIN n /\ k.calls = n.calls /\ k.queue = n.queue
        /\ k.details = n.details /\ k.screened = n.screened
    BY <1>1 DEF Fielded
  <2> HIDE DEF k
  <2> QED BY <1>1, <2>1, AfQuiet
<1> HIDE DEF n, k
<1> QED BY <1>1, <1>2, <1>3, GiveUpQuiet, QuietThen

\* and its start.
LEMMA DetectQuiet ==
    ASSUME NEW m, Fielded(m), NEW t \in Tasks, NEW ok, NEW answer
    PROVE  Untouched(m, AntiFraudStartDetect(m, t, ok, answer))
<1> DEFINE n == [m EXCEPT !.af.tasks = @ \ {t}]
           k == [n EXCEPT !.af.det = t.call.place,
                          !.af.abandoned = m.af.latch # t.call.place,
                          !.af.tasks = @ \cup {[t EXCEPT !.pc = "started"]}]
<1>1. Untouched(m, n) /\ Fielded(n)
  <2>1. DOMAIN n = DOMAIN m /\ n.calls = m.calls /\ n.queue = m.queue
        /\ n.details = m.details /\ n.screened = m.screened
    BY DEF Fielded
  <2> HIDE DEF n
  <2> QED BY <2>1, AfQuiet DEF Untouched
<1>2. AntiFraudStartDetect(m, t, ok, answer) \in {k, GiveUpStart(n, t, answer)}
  BY DEF AntiFraudStartDetect
<1>3. Untouched(n, k)
  <2> HIDE DEF n
  <2>1. DOMAIN k = DOMAIN n /\ k.calls = n.calls /\ k.queue = n.queue
        /\ k.details = n.details /\ k.screened = n.screened
    BY <1>1 DEF Fielded
  <2> HIDE DEF k
  <2> QED BY <1>1, <2>1, AfQuiet
<1> HIDE DEF n, k
<1> QED BY <1>1, <1>2, <1>3, GiveUpQuiet, QuietThen

-----------------------------------------------------------------------------
(* The mirror's actions *)

LooksOf(c) == [s \in Slots |-> [i \in Indexes |-> Look(c[s][i])]]
Refused(x) == {y.place : y \in x}

Stays == LooksOf(calls') = LooksOf(calls) /\ Inbox(queue') = Inbox(queue) /\ Refused(screened') = Refused(screened)
Posts == \E l \in Lists : /\ Inbox(queue') = Append(Inbox(queue), Entry(l))
                          /\ LooksOf(calls') = LooksOf(calls) /\ Refused(screened') = Refused(screened)
Brings(i) ==
    LET s == Head(queue).slot
        h == Head(queue).calls[i]
    IN /\ \/ /\ Look(h) # Look(calls[s][i])
             /\ LooksOf(calls') = [LooksOf(calls) EXCEPT ![s][i] = Look(h)]
             /\ Refused(screened') = Refused(screened) \ {<<s, i>>}
          \/ /\ Rings(h) /\ Look(calls[s][i]) = NoCall
             /\ LooksOf(calls') = LooksOf(calls)
             /\ Refused(screened') = Refused(screened) \cup {<<s, i>>}
       /\ Inbox(queue') = Inbox(queue)
Ends ==
    LET s == Head(queue).slot
        h == Head(queue).calls
    IN /\ \A i \in Indexes : \/ Look(calls[s][i]) = Look(h[i])
                             \/ Look(calls[s][i]) = NoCall /\ <<s, i>> \in Refused(screened)
       /\ Refused(screened') = Refused(screened) \ {<<s, i>> : i \in {j \in Indexes : Look(h[j]) = NoCall}}
       /\ LooksOf(calls') = LooksOf(calls) /\ queue' = Tail(queue)

Obeys == \/ Stays \/ Posts
         \/ queue # <<>> /\ IsList(Head(queue)) /\ (Ends \/ \E i \in Indexes : Brings(i))

\* The variables of the mirror, by names of this module.
LEMMA MirrorIs ==
    /\ Mirror!mirrorVars = <<LooksOf(calls), Inbox(queue), Refused(screened)>>
    /\ Mirror!mirrorVars' = <<LooksOf(calls'), Inbox(queue'), Refused(screened')>>
  BY DEF Mirror!mirrorVars, LooksOf, Inbox, Refused, Entry, ListsIn

\* What the mirror sees of a list is a list of the mirror.
LEMMA EntryType ==
    ASSUME NEW l \in Lists
    PROVE  Entry(l) \in Mirror!Lists
<1>1. \A st \in States : Running(st) \in {Running(x) : x \in States}
  OBVIOUS
<1>2. \A i \in Indexes : Look(l.calls[i]) \in [run: {Running(st) : st \in States}, type: Types] \cup {NoCall}
  <2> SUFFICES ASSUME NEW i \in Indexes, Live(l.calls[i])
               PROVE  Look(l.calls[i]) \in [run: {Running(st) : st \in States}, type: Types]
    BY LookFacts
  <2>1. l.calls[i] \in [st: States, type: Types, num: Nums]
    BY DEF Lists, ModemCalls, Live, NoCall, Ended
  <2> QED BY <1>1, <2>1, LookFacts
<1> QED BY <1>2 DEF Entry, Mirror!Lists, Lists

\* These are the mirror's actions.
LEMMA ObeysMirror ==
    ASSUME ListsInv, ListsInv', Obeys
    PROVE  [Mirror!MirrorNext]_(Mirror!mirrorVars)
<1>1. queue \in Queues
  BY Expand DEF ListsInv, Managers, Queues
<1>2. CASE Stays
  BY <1>2, MirrorIs DEF Stays
<1>3. CASE Posts
  <2>1. PICK l \in Lists : /\ Inbox(queue') = Append(Inbox(queue), Entry(l))
                           /\ LooksOf(calls') = LooksOf(calls) /\ Refused(screened') = Refused(screened)
    BY <1>3 DEF Posts
  <2>2. Inbox(queue) \in Seq({Entry(x) : x \in Lists}) /\ Entry(l) \in Mirror!Lists
    BY <1>1, <2>1, InboxAppend, EntryType
  <2> DEFINE q == Inbox(queue)
             r == Inbox(queue')
  <2>3. Len(r) = Len(q) + 1 /\ r[Len(q) + 1] = Entry(l) /\ q = SubSeq(r, 1, Len(q))
    <3> HIDE DEF q, r
    <3>1. q \in Seq({Entry(x) : x \in Lists}) /\ r = Append(q, Entry(l))
      BY <2>1, <2>2 DEF q, r
    <3> QED BY <3>1
  <2>4. Mirror!Post
    BY <2>1, <2>2, <2>3 DEF Mirror!Post, LooksOf, Inbox, Refused, Entry, ListsIn
  <2> QED BY <2>4 DEF Mirror!MirrorNext
<1>4. CASE queue # <<>> /\ IsList(Head(queue)) /\ (Ends \/ \E i \in Indexes : Brings(i))
  <2> DEFINE s == Head(queue).slot
             h == Head(queue).calls
             q == Inbox(queue)
  <2>1. /\ q # <<>> /\ Head(q) = Entry(Head(queue)) /\ Inbox(Tail(queue)) = Tail(q)
        /\ Head(q).slot = s /\ (\A i \in Indexes : Head(q).calls[i] = Look(h[i]))
        /\ s \in Slots /\ Head(queue) \in Lists
    <3>1. q # <<>> /\ Head(q) = Entry(Head(queue)) /\ Inbox(Tail(queue)) = Tail(q)
      BY <1>1, <1>4, InboxTail
    <3>2. Head(queue) \in Lists
      BY <1>1, <1>4, HeadTypes DEF Queues
    <3> HIDE DEF q
    <3>3. s \in Slots
      BY <3>2 DEF Lists
    <3> QED BY <3>1, <3>2, <3>3 DEF Entry
  <2>2. \A t \in Slots, i \in Indexes : LooksOf(calls)[t][i] = Look(calls[t][i])
    BY DEF LooksOf
  <2>3. CASE Ends
    <3>0. Mirror!Finish <=>
            /\ Inbox(queue) # <<>>
            /\ \A i \in Indexes :
                  \/ LooksOf(calls)[Head(Inbox(queue)).slot][i] = Head(Inbox(queue)).calls[i]
                  \/ /\ LooksOf(calls)[Head(Inbox(queue)).slot][i] = NoCall
                     /\ <<Head(Inbox(queue)).slot, i>> \in Refused(screened)
            /\ Refused(screened') = Refused(screened) \
                  {<<Head(Inbox(queue)).slot, i>> :
                      i \in {j \in Indexes : Head(Inbox(queue)).calls[j] = NoCall}}
            /\ Inbox(queue') = Tail(Inbox(queue))
            /\ LooksOf(calls') = LooksOf(calls)
      BY DEF Mirror!Finish, LooksOf, Inbox, Refused, Entry, ListsIn
    <3>2. {j \in Indexes : Head(q).calls[j] = NoCall} = {j \in Indexes : Look(h[j]) = NoCall}
      BY <2>1
    <3> HIDE DEF q
    <3>1. Mirror!Finish
      BY <2>1, <2>2, <2>3, <3>0, <3>2 DEF Ends, q
    <3> QED BY <3>1 DEF Mirror!MirrorNext
  <2>4. CASE \E i \in Indexes : Brings(i)
    <3>1. PICK i \in Indexes : Brings(i)
      BY <2>4
    <3>2. CASE /\ Look(h[i]) # Look(calls[s][i])
               /\ LooksOf(calls') = [LooksOf(calls) EXCEPT ![s][i] = Look(h[i])]
               /\ Refused(screened') = Refused(screened) \ {<<s, i>>}
      <4>1. Mirror!Follow
        BY <2>1, <2>2, <3>1, <3>2 DEF Brings, Mirror!Follow, LooksOf, Inbox, Refused, Entry, ListsIn
      <4> QED BY <4>1 DEF Mirror!MirrorNext
    <3>3. CASE /\ Rings(h[i]) /\ Look(calls[s][i]) = NoCall
               /\ LooksOf(calls') = LooksOf(calls)
               /\ Refused(screened') = Refused(screened) \cup {<<s, i>>}
      <4>1. Look(h[i]) \in [run: {"RINGING"}, type: Types]
        <5>1. h[i] \in [st: States, type: Types, num: Nums] /\ Live(h[i])
          BY <2>1, <3>3 DEF Lists, ModemCalls, NoCall, Ended, Rings, RingingStates, Live
        <5> QED BY <3>3, <5>1, LookFacts DEF Rings
      <4>2. Mirror!Screen
        BY <2>1, <2>2, <3>1, <3>3, <4>1 DEF Brings, Mirror!Screen, LooksOf, Inbox, Refused, Entry, ListsIn
      <4> QED BY <4>2 DEF Mirror!MirrorNext
    <3> QED BY <3>1, <3>2, <3>3 DEF Brings
  <2> QED BY <1>4, <2>3, <2>4
<1> QED BY <1>2, <1>3, <1>4 DEF Obeys

\* What every step does.
Mirrored == Following' /\ Obeys

\* The mirror does not notice such a step.
LEMMA StillMirrored ==
    ASSUME ListsInv, ListsInv', Following, Keeps(Manager, Manager'), Grown(queue, queue'),
           UNCHANGED <<details, screened, modem, work, busy>>,
           \A s \in Slots, i \in Indexes : Open(s, i)' => Open(s, i),
           Seen \subseteq Seen', DialsOK'
    PROVE  Mirrored
<1>1. queue \in Queues /\ queue' \in Queues
  BY Expand DEF ListsInv, Managers, Queues
<1>2. Inbox(queue') = Inbox(queue)
  BY <1>1, InboxGrown
<1>3. \A s \in Slots, i \in Indexes : Look(calls'[s][i]) = Look(calls[s][i])
  <2> SUFFICES ASSUME NEW s \in Slots, NEW i \in Indexes PROVE Look(calls'[s][i]) = Look(calls[s][i])
    OBVIOUS
  <2>1. SameCall(calls[s][i], calls'[s][i])
    BY PlaceTypes, Expand DEF Keeps
  <2> QED BY <2>1 DEF SameCall, Look, Live, There
<1>4. Stays
  BY <1>2, <1>3 DEF Stays, LooksOf
<1> QED BY <1>4, StillFollowing DEF Mirrored, Obeys

\* A queue is grown by itself,
LEMMA GrownSame == ASSUME NEW q \in Queues PROVE Grown(q, q)
  BY DEF Grown, Queues

\* and by a report at its end.
LEMMA GrownOne ==
    ASSUME NEW q \in Queues, NEW r \in SoundReports
    PROVE  Grown(q, Append(q, r)) /\ (Singles(q) /\ r.idx = InitIndex => Singles(Append(q, r)))
<1> DEFINE p == Append(q, r)
<1>1. /\ Len(q) \in Nat /\ Len(p) = Len(q) + 1 /\ p[Len(q) + 1] = r
      /\ \A k \in 1..Len(q) : p[k] = q[k]
  BY DEF Queues
<1> HIDE DEF p
<1>2. Grown(q, p) /\ (Singles(q) /\ r.idx = InitIndex => Singles(p))
  BY <1>1 DEF Grown, Singles
<1> QED BY <1>2 DEF p

\* The mirror does not notice fraud detection.
LEMMA QuietMirrored ==
    ASSUME ListsInv, Following, Sound, UNCHANGED <<work, busy, env>>,
           NEW m, Untouched(Manager, m), Become(m)
    PROVE  Mirrored
<1>1. /\ queue' = queue /\ details' = details /\ screened' = screened /\ calls' = m.calls
  BY Expand DEF Untouched, Become
<1>2. Keeps(Manager, Manager')
  BY <1>1, Expand DEF Untouched, Keeps
<1>3. Grown(queue, queue')
  <2>1. queue \in Queues
    BY Expand DEF ListsInv, Managers, Queues
  <2> QED BY <1>1, <2>1, GrownSame
<1>4. Seen \subseteq Seen' /\ DialsOK' /\ \A s \in Slots, i \in Indexes : Open(s, i)' => Open(s, i)
  BY <1>1 DEF Seen, Following, DialsOK, Open, env
<1> QED BY <1>1, <1>2, <1>3, <1>4, StillMirrored DEF Sound, env

\* Detection changes nothing but fraud detection's own state.
LEMMA DetectionIs ==
    ASSUME ListsInv, Races = {}, Detection
    PROVE  UNCHANGED <<work, busy, env>> /\ \E m : Untouched(Manager, m) /\ Become(m)
<1>1. Fielded(Manager) /\ UNCHANGED <<work, busy, env>>
  BY DEF ListsInv, Managers, Fielded, Detection, TaskStarts, TaskDetects, TaskAnnounces,
         ResultArrives, LateResultArrives, TriggerFinishes, HandleCeliaCall, CallSetActive
<1>2. /\ af.tasks \subseteq Tasks /\ af.trig \in Triggers
  BY Expand DEF ListsInv, Managers, Frauds
<1>3. \E m : Untouched(Manager, m) /\ Become(m)
  <2>1. CASE TaskStarts
    <3>1. PICK t \in af.tasks, ok \in BOOLEAN, answer \in StopAnswers :
             Become(StartAntiFraudService(Manager, t, ok, answer))
      BY <2>1 DEF TaskStarts
    <3> QED BY <1>1, <1>2, <3>1, StartQuiet
  <2>0. CASE TaskDetects
    <3>1. PICK t \in af.tasks, ok \in BOOLEAN, answer \in StopAnswers :
             Become(AntiFraudStartDetect(Manager, t, ok, answer))
      BY <2>0 DEF TaskDetects
    <3> QED BY <1>1, <1>2, <3>1, DetectQuiet
  <2>2. CASE TaskAnnounces
    <3>1. PICK t \in af.tasks : Become(AnnounceStart(Manager, t))
      BY <2>2 DEF TaskAnnounces
    <3> DEFINE n == [Manager EXCEPT !.af.tasks = @ \ {t}]
    <3>2. Untouched(Manager, n)
      <4>1. DOMAIN n = DOMAIN Manager /\ n.calls = Manager.calls /\ n.queue = Manager.queue
            /\ n.details = Manager.details /\ n.screened = Manager.screened
        BY <1>1 DEF Fielded
      <4> HIDE DEF n
      <4> QED BY <1>1, <4>1, AfQuiet
    <3>3. Become(TriggerAntiFraud(n, "STARTED"))
      BY <3>1 DEF AnnounceStart
    <3> HIDE DEF n
    <3>4. Untouched(n, TriggerAntiFraud(n, "STARTED"))
      BY <3>2, TriggerQuiet DEF Untouched
    <3> QED BY <3>2, <3>3, <3>4, QuietThen
  <2>3. CASE ResultArrives
    <3> DEFINE n == [Manager EXCEPT !.af.det = NoPlace, !.af.abandoned = FALSE]
    <3>1. PICK state \in Verdicts : Become(RecordDetectResult(n, af.det, state))
      BY <2>3 DEF ResultArrives
    <3>2. Untouched(Manager, n)
      <4>1. DOMAIN n = DOMAIN Manager /\ n.calls = Manager.calls /\ n.queue = Manager.queue
            /\ n.details = Manager.details /\ n.screened = Manager.screened
        BY <1>1 DEF Fielded
      <4> HIDE DEF n
      <4> QED BY <1>1, <4>1, AfQuiet
    <3> HIDE DEF n
    <3>4. Untouched(n, RecordDetectResult(n, af.det, state))
      BY <3>2, RecordQuiet DEF Untouched
    <3> QED BY <3>1, <3>2, <3>4, QuietThen
  <2>4. CASE LateResultArrives
    <3>1. PICK place \in af.late, state \in Verdicts :
             Become(RecordDetectResult([Manager EXCEPT !.af.late = @ \ {place}], place, state))
      BY <2>4 DEF LateResultArrives
    <3> DEFINE n == [Manager EXCEPT !.af.late = @ \ {place}]
    <3>2. Untouched(Manager, n)
      <4>1. DOMAIN n = DOMAIN Manager /\ n.calls = Manager.calls /\ n.queue = Manager.queue
            /\ n.details = Manager.details /\ n.screened = Manager.screened
        BY <1>1 DEF Fielded
      <4> HIDE DEF n
      <4> QED BY <1>1, <4>1, AfQuiet
    <3>3. Become(RecordDetectResult(n, place, state))
      BY <3>1
    <3> HIDE DEF n
    <3>4. Untouched(n, RecordDetectResult(n, place, state))
      BY <3>2, RecordQuiet DEF Untouched
    <3> QED BY <3>2, <3>3, <3>4, QuietThen
  <2>5. CASE TriggerFinishes
    <3>1. af.trig.state \in AfStates /\ (af.trig.found # NoCall => af.trig.found.place \in Places)
      BY <1>2, <2>5 DEF TriggerFinishes, Triggers, Objects
    <3>2. PICK late : Become(FinishTrigger(Manager, late))
      BY <2>5 DEF TriggerFinishes
    <3>3. Untouched(Manager, FinishTrigger(Manager, late))
      BY <1>1, <3>1, FinishQuiet, Expand
    <3> QED BY <3>2, <3>3
  <2>6. CASE HandleCeliaCall
    <3>1. PICK place \in Places, answer \in StopAnswers, late \in Late : Become(TakeOver(Manager, place, answer, late))
      BY <2>6 DEF HandleCeliaCall
    <3> DEFINE n == StopAntiFraudDetect(Manager, place, answer)
               k == SetActiveAgain(n, Held(Manager, place), "celia", late)
    <3>2. Untouched(Manager, n)
      BY <1>1, StopQuiet
    <3> HIDE DEF n
    <3>3. Untouched(n, k)
      BY <3>2, AgainQuiet DEF Untouched
    <3>4. TakeOver(Manager, place, answer, late) = k
      BY DEF TakeOver, n
    <3> HIDE DEF k
    <3> QED BY <3>1, <3>2, <3>3, <3>4, QuietThen
  <2>7. CASE CallSetActive
    <3>1. af.updates = {}
      BY Expand DEF ListsInv, FraudInv
    <3> QED BY <2>7, <3>1 DEF CallSetActive
  <2> QED BY <2>0, <2>1, <2>2, <2>3, <2>4, <2>5, <2>6, <2>7 DEF Detection
<1> QED BY <1>1, <1>3

\* So the mirror does not notice it.
LEMMA FollowDetection == ASSUME ListsInv, Following, Races = {}, Detection PROVE Mirrored
<1>1. Sound
  <2>1. [Next]_vars
    BY DEF Next
  <2> QED BY <2>1, ListsStep
<1> QED BY <1>1, DetectionIs, QuietMirrored
-----------------------------------------------------------------------------
(* Dials, and a service that goes *)

\* UserDials puts a report under index 0 at the queue's end.
LEMMA FollowUserDials == ASSUME ListsInv, Following, NEW s \in Slots, UserDials(s) PROVE Mirrored
<1>1. Sound
  BY StepUserDials
<1> DEFINE r == Report(s, InitIndex, "DIALING", "IMS", used.calls + 1)
<1>2. /\ used.calls \in Nat /\ used.calls + 1 \in Nums /\ dialReq \in [Slots -> Nums \cup {0}]
      /\ \A t \in Slots : dialReq[t] = 0
  BY ListsAssumption, SMTT(30) DEF UserDials, ListsInv, EnvOK, Nums
<1>3. r \in SoundReports /\ r.idx = InitIndex
  BY <1>2, PlaceTypes DEF SoundReports, Reports, Report, States, Types
<1> HIDE DEF r
<1>4. queue' = Append(queue, r) /\ queue \in Queues
  BY Expand DEF UserDials, ListsInv, Managers, Queues, r
<1>5. Grown(queue, queue') /\ Singles(queue')
  BY <1>3, <1>4, GrownOne DEF Following, DialsOK
<1>6. /\ dialReq' = [dialReq EXCEPT ![s] = used.calls + 1] /\ used'.calls = used.calls + 1
  BY DEF UserDials, ListsInv, EnvOK
<1>7. Seen \subseteq Seen'
  BY <1>2, <1>6 DEF Seen, Nums
<1>8. DialsOK'
  BY <1>2, <1>5, <1>6 DEF DialsOK, Following, UserDials
<1>9. Keeps(Manager, Manager')
  BY Expand DEF UserDials, Keeps, SameCall
<1>10. \A t \in Slots, i \in Indexes : Open(t, i)' => Open(t, i)
  BY DEF Open, UserDials
<1> QED BY <1>1, <1>5, <1>7, <1>8, <1>9, <1>10, StillMirrored DEF Sound, UserDials

\* So does ModemRefusesDial.
LEMMA FollowRefusesDial ==
    ASSUME ListsInv, Following, NEW s \in Slots, ModemRefusesDial(s) PROVE Mirrored
<1>1. Sound
  BY StepRefusesDial
<1> DEFINE r == Report(s, InitIndex, "DISCONNECTED", "IMS", dialReq[s])
<1>2. dialReq \in [Slots -> Nums \cup {0}] /\ used.calls \in Nat
  BY ListsAssumption DEF ListsInv, EnvOK
<1>3. r \in SoundReports /\ r.idx = InitIndex
  BY <1>2, PlaceTypes DEF SoundReports, Reports, Report, Types
<1> HIDE DEF r
<1>4. queue' = Append(queue, r) /\ queue \in Queues
  BY Expand DEF ModemRefusesDial, ListsInv, Managers, Queues, r
<1>5. Grown(queue, queue') /\ Singles(queue')
  BY <1>3, <1>4, GrownOne DEF Following, DialsOK
<1>6. dialReq' = [dialReq EXCEPT ![s] = 0] /\ used' = used
  BY DEF ModemRefusesDial
<1>7. Seen \subseteq Seen'
  BY <1>2, <1>6 DEF Seen, Nums
<1>8. DialsOK'
  BY <1>2, <1>5, <1>6 DEF DialsOK, Following, ModemRefusesDial
<1>9. Keeps(Manager, Manager')
  BY Expand DEF ModemRefusesDial, Keeps, SameCall
<1>10. \A t \in Slots, i \in Indexes : Open(t, i)' => Open(t, i)
  BY DEF Open, ModemRefusesDial
<1> QED BY <1>1, <1>5, <1>7, <1>8, <1>9, <1>10, StillMirrored DEF Sound, ModemRefusesDial

\* OnRemoveSystemAbility: from now on nobody hears of the modem's calls.
LEMMA FollowRemove ==
    ASSUME ListsInv, Following, Races = {}, OnRemoveSystemAbility PROVE Mirrored
<1>1. Sound
  BY StepRemove
<1>2. /\ used.calls \in Nat /\ used'.calls = used.calls /\ dialReq' = [s \in Slots |-> 0]
      /\ screened = {} /\ screened' = {} /\ queue' = queue /\ calls' = calls
      /\ dialReq \in [Slots -> Nums \cup {0}]
  BY ListsAssumption DEF ListsInv, EnvOK, OnRemoveSystemAbility, manager
<1>3. queue \in Queues
  BY Expand DEF ListsInv, Managers, Queues
<1>4. Grown(queue, queue')
  BY <1>2, <1>3, GrownSame
<1>5. Seen \subseteq Seen'
  BY <1>2 DEF Seen, Nums
<1>6. DialsOK'
  BY <1>2 DEF DialsOK, Following
<1>7. Keeps(Manager, Manager')
  BY <1>2, Expand DEF Keeps, SameCall
<1>8. \A t \in Slots, i \in Indexes : Open(t, i)' => Open(t, i)
  BY DEF Open, OnRemoveSystemAbility
<1> QED BY <1>1, <1>4, <1>5, <1>6, <1>7, <1>8, StillMirrored DEF Sound, OnRemoveSystemAbility, manager
-----------------------------------------------------------------------------
(* A list is put to work *)

\* The reports a list is turned into, the previous list being old.
Tells(r, l, old) ==
    LET h == l.calls[r.idx]
    IN /\ r.slot = l.slot /\ r.idx \in Indexes
       /\ IF There(h) THEN r.st = h.st /\ r.type = h.type /\ r.num = h.num
          ELSE r.st = "DISCONNECTED" /\ There(old[r.idx])

\* Each reports one call, no two the same one, and a call without a report is as before.
LEMMA DifferencesTell ==
    ASSUME NEW l \in Lists, NEW old
    PROVE  LET w == Differences(l, old)
           IN /\ \A k \in DOMAIN w : Tells(w[k], l, old)
              /\ \A j, k \in DOMAIN w : j # k => w[j].idx # w[k].idx
              /\ \A i \in Indexes : (\A k \in DOMAIN w : w[k].idx # i) =>
                    Look(l.calls[i]) = Look(old[i])
<1> DEFINE N == {i \in Indexes : /\ There(l.calls[i])
                                 /\ ~There(old[i]) \/ Changed(old[i], l.calls[i])}
           G == {i \in Indexes : There(old[i]) /\ ~There(l.calls[i])}
           f(i) == Report(l.slot, i, l.calls[i].st, l.calls[i].type, l.calls[i].num)
           g(i) == Report(l.slot, i, "DISCONNECTED", old[i].type, 0)
           new == Ascending(N, MaxIdx)
           gone == Ascending(G, MaxIdx)
           x == [k \in DOMAIN new |-> f(new[k])]
           y == [k \in DOMAIN gone |-> g(gone[k])]
           w == x \o y
<1>1. Differences(l, old) = w
  BY DEF Differences
<1>2. \A i \in N : f(i).idx = i /\ Tells(f(i), l, old)
  BY DEF Report, Tells
<1>3. \A i \in G : g(i).idx = i /\ Tells(g(i), l, old)
  BY DEF Report, Tells
<1>4. \A i \in N : i \notin G
  OBVIOUS
<1>5. \A i \in Indexes : i \notin N /\ i \notin G => Look(l.calls[i]) = Look(old[i])
  BY DEF Changed, Look, Live, There
<1>6. N \in SUBSET Indexes /\ G \in SUBSET Indexes
  OBVIOUS
<1> HIDE DEF N, G, f, g
<1>7. /\ DOMAIN new = 1..Len(new) /\ Len(new) \in Nat /\ \A k \in 1..Len(new) : new[k] \in N
      /\ DOMAIN gone = 1..Len(gone) /\ Len(gone) \in Nat /\ \A k \in 1..Len(gone) : gone[k] \in G
  BY <1>6, Picked
<1>8. /\ \A i \in N : \E k \in 1..Len(new) : new[k] = i
      /\ \A j, k \in 1..Len(new) : j < k => new[j] < new[k]
      /\ \A i \in G : \E k \in 1..Len(gone) : gone[k] = i
      /\ \A j, k \in 1..Len(gone) : j < k => gone[j] < gone[k]
  <2>1. MaxIdx \in Nat /\ N \cap 1..MaxIdx = N /\ G \cap 1..MaxIdx = G
    BY <1>6, ListsAssumption DEF Indexes
  <2> QED BY <2>1, AscendingEnumerates DEF Enumerates
<1> HIDE DEF new, gone
<1>9. /\ Len(w) = Len(new) + Len(gone) /\ DOMAIN w = 1..(Len(new) + Len(gone))
      /\ \A k \in 1..Len(new) : w[k] = f(new[k])
      /\ \A k \in 1..Len(gone) : w[Len(new) + k] = g(gone[k])
  <2>1. x \in Seq({f(i) : i \in N} \cup {g(i) : i \in G}) /\ y \in Seq({f(i) : i \in N} \cup {g(i) : i \in G})
        /\ Len(x) = Len(new) /\ Len(y) = Len(gone)
    BY <1>7
  <2>2. (\A k \in 1..Len(new) : x[k] = f(new[k])) /\ \A k \in 1..Len(gone) : y[k] = g(gone[k])
    BY <1>7
  <2> HIDE DEF x, y
  <2> QED BY <1>7, <2>1, <2>2
<1> HIDE DEF x, y, w
<1>10. ASSUME NEW k \in DOMAIN w
       PROVE  \/ k \in 1..Len(new) /\ w[k] = f(new[k]) /\ new[k] \in N
              \/ \E j \in 1..Len(gone) : k = Len(new) + j /\ w[k] = g(gone[j]) /\ gone[j] \in G
  <2>1. CASE k <= Len(new)
    BY <1>7, <1>9, <2>1
  <2>2. CASE k > Len(new)
    <3>1. k - Len(new) \in 1..Len(gone) /\ k = Len(new) + (k - Len(new))
      BY <1>7, <1>9, <2>2
    <3> QED BY <1>7, <1>9, <3>1
  <2> QED BY <1>7, <1>9, <2>1, <2>2
<1>11. \A k \in DOMAIN w : Tells(w[k], l, old)
  BY <1>2, <1>3, <1>10
<1>12. ASSUME NEW j \in DOMAIN w, NEW k \in DOMAIN w, j < k PROVE w[j].idx # w[k].idx
  <2>0. j \in Nat /\ k \in Nat
    BY <1>7, <1>9
  <2>1. CASE k \in 1..Len(new)
    <3>1. j \in 1..Len(new)
      BY <1>7, <1>9, <1>12, <2>0, <2>1
    <3>2. new[j] < new[k] /\ new[j] \in Nat /\ new[k] \in Nat
      <4>1. new[j] \in Indexes /\ new[k] \in Indexes
        BY <1>6, <1>7, <2>1, <3>1
      <4>2. new[j] < new[k]
        BY <1>8, <1>12, <2>1, <3>1
      <4> QED BY <4>1, <4>2 DEF Indexes
    <3>3. w[j].idx = new[j] /\ w[k].idx = new[k]
      BY <1>2, <1>7, <1>9, <2>1, <3>1
    <3> QED BY <3>2, <3>3
  <2>2. CASE \E b \in 1..Len(gone) : k = Len(new) + b /\ w[k] = g(gone[b]) /\ gone[b] \in G
    <3>1. PICK b \in 1..Len(gone) : k = Len(new) + b /\ w[k] = g(gone[b]) /\ gone[b] \in G
      BY <2>2
    <3>2. w[k].idx = gone[b]
      BY <1>3, <3>1
    <3>3. CASE j \in 1..Len(new)
      BY <1>2, <1>4, <1>7, <1>9, <3>1, <3>2, <3>3
    <3>4. CASE \E a \in 1..Len(gone) : j = Len(new) + a /\ w[j] = g(gone[a]) /\ gone[a] \in G
      <4>1. PICK a \in 1..Len(gone) : j = Len(new) + a /\ w[j] = g(gone[a]) /\ gone[a] \in G
        BY <3>4
      <4>2. a < b
        BY <1>7, <1>12, <3>1, <4>1
      <4>3. gone[a] < gone[b] /\ gone[a] \in Nat /\ gone[b] \in Nat
        <5>1. gone[a] \in Indexes /\ gone[b] \in Indexes
          BY <1>6, <3>1, <4>1
        <5>2. gone[a] < gone[b]
          BY <1>8, <4>2
        <5> QED BY <5>1, <5>2 DEF Indexes
      <4>4. w[j].idx = gone[a]
        BY <1>3, <4>1
      <4> QED BY <3>2, <4>3, <4>4
    <3> QED BY <1>10, <3>3, <3>4
  <2> QED BY <1>10, <2>1, <2>2
<1>13. \A j, k \in DOMAIN w : j # k => w[j].idx # w[k].idx
  <2> SUFFICES ASSUME NEW j \in DOMAIN w, NEW k \in DOMAIN w, j # k PROVE w[j].idx # w[k].idx
    OBVIOUS
  <2>1. j < k \/ k < j
    BY <1>7, <1>9
  <2> QED BY <1>12, <2>1
<1>14. ASSUME NEW i \in Indexes, \A k \in DOMAIN w : w[k].idx # i
       PROVE  Look(l.calls[i]) = Look(old[i])
  <2>1. i \notin N
    <3> SUFFICES ASSUME i \in N PROVE FALSE
      OBVIOUS
    <3>1. PICK k \in 1..Len(new) : new[k] = i
      BY <1>8
    <3>2. k \in DOMAIN w /\ w[k].idx = i
      BY <1>2, <1>7, <1>9, <3>1
    <3> QED BY <1>14, <3>2
  <2>2. i \notin G
    <3> SUFFICES ASSUME i \in G PROVE FALSE
      OBVIOUS
    <3>1. PICK k \in 1..Len(gone) : gone[k] = i
      BY <1>8
    <3>2. Len(new) + k \in DOMAIN w /\ w[Len(new) + k].idx = i
      BY <1>3, <1>7, <1>9, <3>1
    <3> QED BY <1>14, <3>2
  <2> QED BY <1>5, <2>1, <2>2
<1> QED BY <1>1, <1>11, <1>13, <1>14

\* HandleCallsReportInfo: each call that differs is told of, once.
LEMMA FollowCallsReport == ASSUME ListsInv, Following, HandleCallsReportInfo PROVE Mirrored
<1> DEFINE l == Head(queue)
<1>1. queue \in Queues /\ Sound
  BY StepCallsReport, Expand DEF ListsInv, Managers, Queues
<1>2. /\ ~busy /\ busy' /\ queue # <<>> /\ IsList(l) /\ l \in Lists
      /\ work' = Differences(l, details[l.slot])
      /\ UNCHANGED <<calls, queue, details, screened, modem, dialReq, up, clearing, used>>
  BY <1>1, HeadTypes DEF HandleCallsReportInfo, manager, env, Queues
<1> HIDE DEF l
<1>3. /\ \A k \in DOMAIN work' : Tells(work'[k], l, details[l.slot])
      /\ \A j, k \in DOMAIN work' : j # k => work'[j].idx # work'[k].idx
      /\ \A i \in Indexes : (\A k \in DOMAIN work' : work'[k].idx # i) =>
            Look(l.calls[i]) = Look(details[l.slot][i])
  BY <1>2, DifferencesTell
<1>4. WorkOK'
  BY <1>2, <1>3, ZenonT(40) DEF WorkOK, Told, Tells, l
<1>5. DialsOK'
  BY <1>2 DEF DialsOK, Following
<1>6. ASSUME NEW s \in Slots, NEW i \in Indexes PROVE PlaceOK(s, i)'
  <2>1. PlaceOK(s, i) /\ SameCall(calls[s][i], calls'[s][i]) /\ View(queue', s, i) = View(queue, s, i)
    BY <1>2 DEF Following, SameCall
  <2>2. ~Here(s) /\ ~Done(s, i) /\ Lastly(s, i) = details[s][i]
    BY <1>2 DEF Here, Done, Lastly
  <2>3. Excused(s, i) => Excused(s, i)'
    BY <1>2, <2>2 DEF Excused, FirstAlert
  <2>4. Look(Lastly(s, i)') = Look(Lastly(s, i))
    <3>1. CASE Done(s, i)'
      <4>1. s = l.slot /\ \A k \in DOMAIN work' : work'[k].idx # i
        BY <1>2, <3>1 DEF Done, Here, l
      <4>2. Lastly(s, i)' = l.calls[i]
        BY <1>2, <3>1 DEF Lastly, l
      <4> QED BY <1>3, <2>2, <4>1, <4>2
    <3>2. CASE ~Done(s, i)'
      BY <1>2, <2>2, <3>2 DEF Lastly
    <3> QED BY <3>1, <3>2
  <2>5. Open(s, i)' = Open(s, i) /\ Seen' = Seen /\ Hidden(s, i)' = Hidden(s, i)
    BY <1>2 DEF Open, Seen, Hidden
  <2> QED BY <1>2, <2>1, <2>2, <2>3, <2>4, <2>5, PlaceStill
<1>7. Stays
  BY <1>2 DEF Stays
<1> QED BY <1>4, <1>5, <1>6, <1>7 DEF Mirrored, Following, Obeys
-----------------------------------------------------------------------------
(* A listed call is reported *)

\* The report taken from the work, and what is left of it.
LEMMA WorkFacts ==
    ASSUME ListsInv, Following, HandleListedCall
    PROVE  LET r == Head(work)
           IN /\ r \in SoundReports /\ Told(r, Head(queue)) /\ r.slot \in Slots /\ r.idx \in Indexes
              /\ busy /\ queue # <<>> /\ IsList(Head(queue)) /\ Head(queue) \in Lists
              /\ \E k \in DOMAIN work : work[k].idx = r.idx
              /\ \A j : (\A k \in DOMAIN work' : work'[k].idx # j) <=>
                            j = r.idx \/ \A k \in DOMAIN work : work[k].idx # j
              /\ \A k \in DOMAIN work' : Told(work'[k], Head(queue))
              /\ \A j, k \in DOMAIN work' : j # k => work'[j].idx # work'[k].idx
<1> DEFINE r == Head(work)
<1>1. work \in Seq(SoundReports) /\ work # <<>> /\ work' = Tail(work)
  BY DEF HandleListedCall, ListsInv, AtWork
<1>2. /\ Len(work) \in Nat \ {0} /\ DOMAIN work = 1..Len(work) /\ work[1] = r /\ r \in SoundReports
      /\ DOMAIN work' = 1..(Len(work) - 1) /\ \A k \in DOMAIN work' : work'[k] = work[k + 1]
  BY <1>1
<1>3. /\ \A k \in DOMAIN work : Told(work[k], Head(queue))
      /\ \A j, k \in DOMAIN work : j # k => work[j].idx # work[k].idx
  BY DEF Following, WorkOK
<1>4. busy /\ queue # <<>> /\ IsList(Head(queue)) /\ Head(queue) \in Lists
  <2>1. busy /\ queue # <<>> /\ IsList(Head(queue))
    BY DEF HandleListedCall, ListsInv, AtWork
  <2>2. queue \in Seq(Lists \cup SoundReports)
    BY Expand DEF ListsInv, Managers
  <2> QED BY <2>1, <2>2, HeadTypes
<1> HIDE DEF r
<1>5. Told(r, Head(queue)) /\ r.slot \in Slots /\ r.idx \in Indexes
  <2>1. 1 \in DOMAIN work
    BY <1>2
  <2>2. Told(r, Head(queue))
    BY <1>2, <1>3, <2>1
  <2> QED BY <1>4, <2>2 DEF Told, Lists
<1>6. \A k \in DOMAIN work' : k \in Nat /\ k + 1 \in DOMAIN work /\ k + 1 # 1
  BY <1>2
<1>7. \A k \in DOMAIN work' : Told(work'[k], Head(queue))
  BY <1>2, <1>3, <1>6
<1>8. \A j, k \in DOMAIN work' : j # k => work'[j].idx # work'[k].idx
  <2> SUFFICES ASSUME NEW j \in DOMAIN work', NEW k \in DOMAIN work', j # k
               PROVE  work'[j].idx # work'[k].idx
    OBVIOUS
  <2>1. j + 1 # k + 1
    BY <1>6
  <2> QED BY <1>2, <1>3, <1>6, <2>1
<1>9. ASSUME NEW j
      PROVE  (\A k \in DOMAIN work' : work'[k].idx # j) <=>
                 j = r.idx \/ \A k \in DOMAIN work : work[k].idx # j
  <2>0. 1 \in DOMAIN work
    BY <1>2
  <2>1. ASSUME j = r.idx, NEW k \in DOMAIN work' PROVE work'[k].idx # j
    BY <1>2, <1>3, <1>6, <2>0, <2>1
  <2>2. ASSUME \A k \in DOMAIN work : work[k].idx # j, NEW k \in DOMAIN work' PROVE work'[k].idx # j
    BY <1>2, <1>6, <2>2
  <2>3. ASSUME \A k \in DOMAIN work' : work'[k].idx # j, j # r.idx, NEW k \in DOMAIN work
        PROVE  work[k].idx # j
    <3>1. CASE k = 1
      BY <1>2, <2>3, <3>1
    <3>2. CASE k # 1
      <4>1. k - 1 \in DOMAIN work' /\ (k - 1) + 1 = k
        BY <1>2, <3>2
      <4>2. work'[k - 1] = work[k]
        BY <1>2, <4>1
      <4> QED BY <2>3, <4>1, <4>2
    <3> QED BY <3>1, <3>2
  <2> QED BY <2>1, <2>2, <2>3
<1>10. \E k \in DOMAIN work : work[k].idx = r.idx
  <2>1. 1 \in DOMAIN work
    BY <1>2
  <2> QED BY <1>2, <2>1
<1> QED BY <1>2, <1>4, <1>5, <1>7, <1>8, <1>9, <1>10 DEF r

\* What the handlers do, in terms of the list's entry h.
LEMMA EffectIs ==
    ASSUME NEW m, NEW n, NEW r, NEW h, NEW show,
           h.st \in States \cup {"NONE", "DISCONNECTED"},
           IF There(h) THEN r.st = h.st /\ r.type = h.type /\ r.num = h.num
           ELSE r.st = "DISCONNECTED",
           IF Rings(r) THEN DoesRing(m, n, r, show) ELSE Does(m, n, r)
    PROVE  Effect(h, m.calls[r.slot][r.idx], n.calls[r.slot][r.idx],
                  \E x \in m.screened : x.place = <<r.slot, r.idx>>,
                  \E x \in n.screened : x.place = <<r.slot, r.idx>>, InitSlots(m) # {})
<1> DEFINE c == m.calls[r.slot][r.idx]
           e == n.calls[r.slot][r.idx]
           p == <<r.slot, r.idx>>
           scr == \E x \in m.screened : x.place = p
           scn == \E x \in n.screened : x.place = p
<1>1. Rings(r) <=> Rings(h)
  BY DEF Rings, RingingStates, There
<1>2. CASE Rings(h)
  <2>1. r.st = h.st /\ r.type = h.type /\ r.num = h.num
    BY <1>2, StepFacts
  <2>2. DoesRing(m, n, r, show)
    BY <1>1, <1>2
  <2>3. There(c) => /\ scn => scr
                    /\ e.st \in {c.st, h.st} /\ e.type = h.type /\ e.num = c.num
    BY <2>1, <2>2 DEF DoesRing
  <2>4. ~There(c) /\ show => ~scn /\ e.st = h.st /\ e.type = h.type /\ e.num = h.num
    BY <2>1, <2>2 DEF DoesRing
  <2>5. ~There(c) /\ ~show => scn /\ e = c
    <3> SUFFICES ASSUME ~There(c), ~show PROVE scn /\ e = c
      OBVIOUS
    <3>1. n.screened = m.screened \cup {[place |-> p, num |-> r.num]} /\ e = c
      BY <2>2 DEF DoesRing
    <3> HIDE DEF p
    <3>2. [place |-> p, num |-> r.num] \in n.screened /\ [place |-> p, num |-> r.num].place = p
      BY <3>1
    <3> QED BY <3>1, <3>2
  <2> HIDE DEF c, e, p, scr, scn
  <2>6. Effect(h, c, e, scr, scn, InitSlots(m) # {})
    BY <1>2, <2>3, <2>4, <2>5 DEF Effect
  <2> QED BY <2>6 DEF c, e, p, scr, scn
<1>3. CASE ~Rings(h)
  <2>1. Does(m, n, r)
    BY <1>1, <1>3
  <2>2. (scn <=> scr) /\ (Rings(e) => Rings(c) /\ e.num = c.num)
    BY <2>1 DEF Does, Plain
  <2>3. ~Live(h) => r.st = "DISCONNECTED"
    BY DEF Live, There
  <2>4. ~Live(h) => ~There(e)
    BY <2>1, <2>3 DEF Does
  <2>5. Live(h) => r.st = h.st /\ r.type = h.type
    BY StepFacts
  <2>6. h.st \in {"ACTIVE", "HOLDING", "DISCONNECTING", "ALERTING", "DIALING"} => Live(h)
    BY DEF Live
  <2>7. /\ h.st \in {"ACTIVE", "HOLDING", "DISCONNECTING"} /\ There(c) =>
                e.st = h.st /\ e.type = h.type
        /\ h.st = "ALERTING" /\ (IF There(c) THEN c.st # "DISCONNECTING" ELSE InitSlots(m) # {}) =>
                e.st = "ALERTING" /\ e.type = h.type
        /\ h.st = "DIALING" =>
                e.st = (IF There(c) THEN c.st ELSE "DIALING") /\ e.type = h.type
    BY <2>1, <2>5, <2>6 DEF Does
  <2> HIDE DEF c, e, p, scr, scn
  <2>8. Effect(h, c, e, scr, scn, InitSlots(m) # {})
    BY <1>3, <2>2, <2>4, <2>7 DEF Effect
  <2> QED BY <2>8 DEF c, e, p, scr, scn
<1> QED BY <1>2, <1>3

\* The step's choice, and the place it is about; every other one is left alone.
LEMMA ListedCallIs ==
    ASSUME ListsInv, Following, HandleListedCall, Races = {}
    PROVE  LET r == Head(work)
           IN \E show \in BOOLEAN :
              /\ show \/ up
              /\ IF Rings(r) THEN DoesRing(Manager, Manager', r, show) ELSE Does(Manager, Manager', r)
              /\ details' = details /\ Grown(queue, queue')
              /\ \A s \in Slots, i \in Indexes :
                    <<s, i>> # <<r.slot, r.idx>> => calls'[s][i] = calls[s][i]
<1> DEFINE r == Head(work)
<1>1. r \in SoundReports /\ r.idx \in Indexes
  BY WorkFacts
<1>2. PICK choice \in Choices : /\ choice.show \/ up
                                /\ Become(HandleCallReportInfo(Manager, r, choice))
  BY DEF HandleListedCall
<1> DEFINE n == HandleCallReportInfo(Manager, r, choice)
<1> HIDE DEF r
<1>3. Manager \in Managers /\ FraudInv(Manager)
  BY DEF ListsInv
<1>4. Handled(Manager, n, r.slot, r.idx)
  BY <1>1, <1>3, ReportHandled
<1>5. IF Rings(r) THEN DoesRing(Manager, n, r, choice.show) ELSE Does(Manager, n, r)
  BY <1>1, <1>3, ReportDoes
<1>6. Manager' = n
  BY <1>2, <1>4, BecomeIs DEF Handled, Good
<1> HIDE DEF n
<1>7. details' = details /\ Grown(queue, queue')
  BY <1>4, <1>6, Expand DEF Handled, Good, Rest
<1>8. \A s \in Slots, i \in Indexes : <<s, i>> # <<r.slot, r.idx>> => calls'[s][i] = calls[s][i]
  <2> SUFFICES ASSUME NEW s \in Slots, NEW i \in Indexes, <<s, i>> # <<r.slot, r.idx>>
               PROVE  calls'[s][i] = calls[s][i]
    OBVIOUS
  <2>1. <<s, i>> \in Places
    BY DEF Places
  <2>2. CallAt(n, <<s, i>>) = CallAt(Manager, <<s, i>>)
    BY <1>4, <2>1 DEF Handled, Local
  <2> QED BY <1>6, <2>2, Expand DEF CallAt
<1>9. choice.show \in BOOLEAN
  BY DEF Choices
<1> QED BY <1>2, <1>5, <1>6, <1>7, <1>8, <1>9 DEF r

\* While another call's first list has it ALERTING, no report numbers the dialled call
\* or takes it out of the table.
LEMMA DialKept ==
    ASSUME ListsInv, Following, HandleListedCall, Races = {},
           NEW j \in Indexes, j # Head(work).idx, FirstAlert(Head(work).slot, j)
    PROVE  \A t \in Slots : calls'[t][InitIndex] = calls[t][InitIndex]
<1> DEFINE r == Head(work)
           s == r.slot
           i == r.idx
           h == Head(queue).calls[i]
           c == calls[s][i]
           o == details[s][i]
           v == View(queue, s, i)
<1>1. /\ r \in SoundReports /\ Told(r, Head(queue)) /\ s \in Slots /\ i \in Indexes
      /\ busy /\ queue # <<>> /\ IsList(Head(queue)) /\ (\E k \in DOMAIN work : work[k].idx = i)
  BY WorkFacts
<1>2. PICK show \in BOOLEAN :
         IF Rings(r) THEN DoesRing(Manager, Manager', r, show) ELSE Does(Manager, Manager', r)
  BY ListedCallIs
<1>3. PlaceOK(s, i)
  BY <1>1 DEF Following
<1>4. Head(queue).slot = s
  BY <1>1 DEF Told
<1>5. queue \in Queues /\ details \in Details
  BY Expand DEF ListsInv, Managers, Queues
<1>6. 1 \in DOMAIN v /\ v[1] = h
  BY <1>1, <1>4, <1>5, ViewIs
<1>7. (There(h) <=> There(o)) /\ (There(h) => Live(h))
  <2> HIDE DEF s, i, h, o
  <2>1. i \in Indexes \ {j} /\ FirstAlert(s, j)
    BY <1>1 DEF s, i
  <2> QED BY <2>1 DEF FirstAlert, h, o
<1>8. There(h) /\ r.st = h.st
  <2>1. There(h) \/ There(o)
    BY <1>1 DEF Told
  <2>2. There(h)
    BY <1>7, <2>1
  <2> QED BY <1>1, <2>2 DEF Told
<1>9. Live(o)
  <2>1. o \in [st: States, type: Types] \cup {NoCall} /\ There(o)
    BY <1>1, <1>5, <1>7, <1>8 DEF Details
  <2> QED BY <2>1 DEF There, NoCall, Live, States
<1>10. ~Done(s, i)
  BY <1>1 DEF Done
<1>11. Agrees(o, c, Hidden(s, i)) /\ ScreenOK(v, o, c, modem[s][i], Hidden(s, i), Here(s))
  BY <1>3, <1>10 DEF PlaceOK, Lastly, Fits
<1> HIDE DEF r, s, i, h, c, o, v
<1>12. There(c) \/ Rings(r)
  <2>1. CASE Look(c) = Look(o)
    BY <1>9, <2>1, LookFacts, StepFacts
  <2>2. CASE Look(c) # Look(o)
    <3>1. Hidden(s, i)
      BY <1>11, <2>2 DEF Agrees
    <3>2. 1 \in Positions(v) /\ At(v, modem[s][i], 1) = h /\ Live(h)
      BY <1>6, <1>7, <1>8 DEF Positions, At
    <3>3. Through(v, 1, 1)
      <4>1. \A n \in DOMAIN v : 1 <= n /\ n <= 1 => n = 1
        BY <1>5, ViewIs DEF v
      <4> QED BY <1>6, <3>2, <4>1 DEF Through
    <3>4. Rings(h)
      BY <1>11, <3>1, <3>2, <3>3 DEF ScreenOK
    <3> QED BY <1>8, <3>4 DEF Rings
  <2> QED BY <2>1, <2>2
<1>13. CASE Rings(r)
  <2>1. DoesRing(Manager, Manager', r, show)
    BY <1>2, <1>13
  <2> QED BY <2>1, Expand DEF DoesRing
<1>14. CASE ~Rings(r)
  <2>1. Does(Manager, Manager', r) /\ There(Manager.calls[r.slot][r.idx])
    BY <1>2, <1>12, <1>14, Expand DEF c, s, i
  <2> QED BY <2>1, Expand DEF Does, Apart
<1> QED BY <1>13, <1>14

\* The place the report is about.
LEMMA ListedPlace ==
    ASSUME ListsInv, ListsInv', Following, HandleListedCall, Races = {},
           NEW s, NEW i, s = Head(work).slot, i = Head(work).idx
    PROVE  /\ PlaceOK(s, i)'
           /\ \/ Look(calls'[s][i]) = Look(calls[s][i])
              \/ Look(calls'[s][i]) = Look(Head(queue).calls[i])
           /\ Hidden(s, i) => ~There(calls[s][i])
           /\ Hidden(s, i)' => ~There(calls'[s][i])
<1> DEFINE r == Head(work)
           h == Head(queue).calls[i]
           c == calls[s][i]
           e == calls'[s][i]
           o == details[s][i]
           d == modem[s][i]
           v == View(queue, s, i)
           inits == InitSlots(Manager) # {}
<1>1. /\ r \in SoundReports /\ r.slot = s /\ r.idx = i /\ Told(r, Head(queue)) /\ s \in Slots /\ i \in Indexes
      /\ busy /\ queue # <<>> /\ IsList(Head(queue)) /\ (\E k \in DOMAIN work : work[k].idx = i)
      /\ \A k \in DOMAIN work' : work'[k].idx # i
      /\ Head(queue) \in Lists
  BY WorkFacts
<1>2. PICK show \in BOOLEAN :
         /\ IF Rings(r) THEN DoesRing(Manager, Manager', r, show) ELSE Does(Manager, Manager', r)
         /\ details' = details /\ Grown(queue, queue')
  BY ListedCallIs
<1>3. PlaceOK(s, i) /\ Head(queue).slot = s /\ UNCHANGED <<modem, busy, up, clearing, dialReq, used>>
  BY <1>1 DEF Following, Told, HandleListedCall, env
<1>4. queue \in Queues /\ queue' \in Queues /\ calls \in Tables
  BY Expand DEF ListsInv, Managers, Queues
<1>5. 1 \in DOMAIN v /\ v[1] = h /\ DOMAIN v \subseteq Nat \ {0}
  BY <1>1, <1>3, <1>4, ViewIs
<1>6. Head(queue') = Head(queue) /\ View(queue', s, i) = v
  <2>1. View(queue', s, i) = v
    BY <1>2, <1>4, ViewGrown
  <2>2. Head(queue') = Head(queue)
    BY <1>1, <1>2, <1>4 DEF Grown, Queues
  <2> QED BY <2>1, <2>2
<1>7. ~Done(s, i) /\ Done(s, i)' /\ Here(s) /\ Here(s)' /\ Excused(s, i)'
  BY <1>1, <1>3, <1>6 DEF Done, Here, Excused
<1>8. Lastly(s, i) = o /\ Lastly(s, i)' = h
  <2>1. Lastly(s, i) = o
    BY <1>7 DEF Lastly
  <2>2. Done(s, i)'
    BY <1>7
  <2>3. Lastly(s, i)' = Head(queue').calls[i]
    BY <2>2 DEF Lastly
  <2> QED BY <1>6, <2>1, <2>3
<1>9. c.st \in States \cup {"NONE"} /\ h.st \in States \cup {"NONE", "DISCONNECTED"}
  <2>0. s \in Slots /\ i \in 0..MaxIdx /\ calls \in Tables
    BY <1>1, <1>4, PlaceTypes
  <2>1. c \in TableCalls
    BY <2>0 DEF Tables
  <2>2. h \in ModemCalls \cup {Ended}
    BY <1>1 DEF Lists
  <2> QED BY <2>1, <2>2 DEF TableCalls, ModemCalls, NoCall, Ended
<1>10. Effect(h, c, e, Hidden(s, i), Hidden(s, i)', inits)
  <2>1. IF There(h) THEN r.st = h.st /\ r.type = h.type /\ r.num = h.num
        ELSE r.st = "DISCONNECTED"
    BY <1>1 DEF Told
  <2> HIDE DEF r, h, inits
  <2>2. Effect(h, Manager.calls[r.slot][r.idx], Manager'.calls[r.slot][r.idx],
               \E x \in Manager.screened : x.place = <<r.slot, r.idx>>,
               \E x \in Manager'.screened : x.place = <<r.slot, r.idx>>, InitSlots(Manager) # {})
    BY <1>2, <1>9, <2>1, EffectIs
  <2>3. /\ (\E x \in Manager.screened : x.place = <<r.slot, r.idx>>) <=> Hidden(s, i)
        /\ (\E x \in Manager'.screened : x.place = <<r.slot, r.idx>>) <=> Hidden(s, i)'
        /\ Manager.calls[r.slot][r.idx] = c /\ Manager'.calls[r.slot][r.idx] = e
    BY <1>1, Expand DEF Hidden, r
  <2> HIDE DEF c, e
  <2> QED BY <2>2, <2>3 DEF Effect, inits
<1>11. Excused(s, i) => v[1].st = "ALERTING" /\ ~There(o) /\ inits
  <2> SUFFICES ASSUME Excused(s, i) PROVE v[1].st = "ALERTING" /\ ~There(o) /\ inits
    OBVIOUS
  <2>1. FirstAlert(s, i)
    BY <1>7 DEF Excused
  <2>2. s \in InitSlots(Manager)
    BY <1>1, <2>1, Expand DEF FirstAlert, InitSlots
  <2>3. h.st = "ALERTING" /\ ~There(o)
    BY <2>1 DEF FirstAlert
  <2> QED BY <1>5, <2>2, <2>3
<1>12. /\ Agrees(o, c, Hidden(s, i))
       /\ Fits(v, o, d, c, Open(s, i), Excused(s, i), Seen, Hidden(s, i), Here(s))
  BY <1>3, <1>8 DEF PlaceOK
<1>13. /\ Agrees(v[1], e, Hidden(s, i)')
       /\ Fits(v, o, d, e, Open(s, i), Excused(s, i)', Seen, Hidden(s, i)', Here(s))
       /\ Look(e) = Look(c) \/ Look(e) = Look(v[1])
  <2>1. v[1].st \in States \cup {"NONE", "DISCONNECTED"} /\ Effect(v[1], c, e, Hidden(s, i), Hidden(s, i)', inits)
    BY <1>5, <1>9, <1>10
  <2> HIDE DEF r, h, c, e, o, d, v, inits
  <2> QED BY <1>5, <1>7, <1>9, <1>11, <1>12, <2>1, Handling
<1>14. Open(s, i)' = Open(s, i) /\ Seen' = Seen /\ details'[s][i] = o /\ modem'[s][i] = d
  BY <1>2, <1>3 DEF Open, Seen
<1>15. Fits(View(queue', s, i), details'[s][i], modem'[s][i], calls'[s][i],
            Open(s, i)', Excused(s, i)', Seen', Hidden(s, i)', Here(s)')
  BY <1>6, <1>7, <1>13, <1>14 DEF Fits, ScreenOK
<1>16. Agrees(Lastly(s, i)', calls'[s][i], Hidden(s, i)')
  BY <1>5, <1>8, <1>13
<1>17. PlaceOK(s, i)'
  BY <1>15, <1>16 DEF PlaceOK
<1>18. (Hidden(s, i) => ~There(c)) /\ (Hidden(s, i)' => ~There(e))
  BY <1>12, <1>13 DEF Fits, ScreenOK
<1> QED BY <1>5, <1>13, <1>17, <1>18

\* Every other place.
LEMMA UnlistedPlace ==
    ASSUME ListsInv, ListsInv', Following, HandleListedCall, Races = {},
           NEW s \in Slots, NEW i \in Indexes, <<s, i>> # <<Head(work).slot, Head(work).idx>>
    PROVE  PlaceOK(s, i)'
<1> DEFINE r == Head(work)
<1>1. /\ r.slot \in Slots /\ r.idx \in Indexes /\ Told(r, Head(queue)) /\ busy /\ queue # <<>>
      /\ \A j : (\A k \in DOMAIN work' : work'[k].idx # j) <=>
                            j = r.idx \/ \A k \in DOMAIN work : work[k].idx # j
  BY WorkFacts
<1>2. PICK show \in BOOLEAN :
         /\ IF Rings(r) THEN DoesRing(Manager, Manager', r, show) ELSE Does(Manager, Manager', r)
         /\ details' = details /\ Grown(queue, queue')
         /\ calls'[s][i] = calls[s][i]
  BY ListedCallIs
<1>3. PlaceOK(s, i) /\ Head(queue).slot = r.slot /\ UNCHANGED <<modem, busy, up, clearing, dialReq, used>>
  BY <1>1 DEF Following, Told, HandleListedCall, env
<1>4. queue \in Queues /\ queue' \in Queues
  BY Expand DEF ListsInv, Managers, Queues
<1>5. Head(queue') = Head(queue) /\ View(queue', s, i) = View(queue, s, i)
  <2>1. View(queue', s, i) = View(queue, s, i)
    BY <1>2, <1>4, ViewGrown
  <2>2. Head(queue') = Head(queue)
    BY <1>1, <1>2, <1>4 DEF Grown, Queues
  <2> QED BY <2>1, <2>2
<1>6. Hidden(s, i)' <=> Hidden(s, i)
  <2>1. CASE Rings(r)
    <3>1. DoesRing(Manager, Manager', r, show)
      BY <1>2, <2>1
    <3>2. \/ screened' = screened
          \/ screened' = {x \in screened : x.place # <<r.slot, r.idx>>}
          \/ screened' = screened \cup {[place |-> <<r.slot, r.idx>>, num |-> r.num]}
      BY <3>1, Expand DEF DoesRing
    <3> HIDE DEF r
    <3> QED BY <3>2 DEF Hidden, r
  <2>2. CASE ~Rings(r)
    <3>1. Does(Manager, Manager', r)
      BY <1>2, <2>2
    <3>2. screened' = screened
      BY <3>1, Expand DEF Does, Plain
    <3> QED BY <3>2 DEF Hidden
  <2> QED BY <2>1, <2>2
<1>7. Here(s)' <=> Here(s)
  BY <1>3, <1>5 DEF Here
<1> HIDE DEF r
<1>8. Done(s, i)' <=> Done(s, i)
  <2>1. CASE Here(s)
    <3>1. i # r.idx
      BY <1>3, <2>1 DEF Here, r
    <3> QED BY <1>1, <1>7, <3>1 DEF Done
  <2>2. CASE ~Here(s)
    BY <1>7, <2>2 DEF Done
  <2> QED BY <2>1, <2>2
<1>9. Lastly(s, i)' = Lastly(s, i)
  BY <1>2, <1>5, <1>8 DEF Lastly
<1>10. 1 \in DOMAIN View(queue, s, i) /\ Excused(s, i) => Excused(s, i)'
  <2> SUFFICES ASSUME 1 \in DOMAIN View(queue, s, i), FirstAlert(s, i) PROVE FirstAlert(s, i)'
    BY <1>8 DEF Excused
  <2>1. s = r.slot
    BY <1>3, <1>4, ViewIs
  <2>2. i # r.idx
    BY <2>1 DEF r
  <2>3. calls'[s][InitIndex] = calls[s][InitIndex]
    <3>1. i # Head(work).idx /\ FirstAlert(Head(work).slot, i)
      BY <2>1, <2>2 DEF r
    <3> QED BY <3>1, DialKept
  <2> QED BY <1>2, <1>5, <2>3 DEF FirstAlert
<1>11. Open(s, i)' = Open(s, i) /\ Seen' = Seen
  BY <1>3 DEF Open, Seen
<1>12. SameCall(calls[s][i], calls'[s][i])
  BY <1>2 DEF SameCall
<1> QED BY <1>2, <1>3, <1>5, <1>6, <1>7, <1>9, <1>10, <1>11, <1>12, PlaceStill

\* HandleListedCall brings one call to what the list at work says.
LEMMA FollowListedCall ==
    ASSUME ListsInv, Following, HandleListedCall, Races = {} PROVE Mirrored
<1>0. ListsInv'
  BY StepListedCall DEF Sound
<1> DEFINE r == Head(work)
<1>1. PICK s \in Slots, i \in Indexes : s = r.slot /\ i = r.idx
  BY WorkFacts
<1>2. /\ Told(r, Head(queue)) /\ busy /\ queue # <<>> /\ IsList(Head(queue))
      /\ \A k \in DOMAIN work' : Told(work'[k], Head(queue))
      /\ \A j, k \in DOMAIN work' : j # k => work'[j].idx # work'[k].idx
  BY WorkFacts
<1>3. PICK show \in BOOLEAN :
         /\ show \/ up
         /\ IF Rings(r) THEN DoesRing(Manager, Manager', r, show) ELSE Does(Manager, Manager', r)
         /\ details' = details /\ Grown(queue, queue')
         /\ \A t \in Slots, j \in Indexes : <<t, j>> # <<s, i>> => calls'[t][j] = calls[t][j]
  BY <1>1, ListedCallIs
<1>4. /\ UNCHANGED <<modem, busy, up, clearing, dialReq, used>> /\ Head(queue).slot = s
  BY <1>1, <1>2 DEF HandleListedCall, env, Told
<1>5. queue \in Queues /\ queue' \in Queues
  BY <1>0, Expand DEF ListsInv, Managers, Queues
<1>6. Head(queue') = Head(queue) /\ Inbox(queue') = Inbox(queue)
  <2>1. Inbox(queue') = Inbox(queue)
    BY <1>3, <1>5, InboxGrown
  <2>2. Head(queue') = Head(queue)
    BY <1>2, <1>3, <1>5 DEF Grown, Queues
  <2> QED BY <2>1, <2>2
<1> DEFINE h == Head(queue).calls[i]
           c == calls[s][i]
           e == calls'[s][i]
<1>7. /\ PlaceOK(s, i)' /\ (Look(e) = Look(c) \/ Look(e) = Look(h))
      /\ Hidden(s, i) => ~There(c)
      /\ Hidden(s, i)' => ~There(e)
  BY <1>0, <1>1, ListedPlace
<1>8. ASSUME NEW t \in Slots, NEW j \in Indexes PROVE PlaceOK(t, j)'
  <2>1. CASE t = s /\ j = i
    BY <1>7, <2>1
  <2>2. CASE <<t, j>> # <<s, i>>
    BY <1>0, <1>1, <2>2, UnlistedPlace
  <2> QED BY <2>1, <2>2
<1> HIDE DEF r
<1>9. WorkOK'
  BY <1>2, <1>3, <1>4, <1>6 DEF WorkOK, Told
\* What becomes of the refused calls.
<1>10. Rings(r) <=> Rings(h)
  BY <1>1, <1>2 DEF Told, Rings, RingingStates, There
<1>11. \/ screened' = screened
       \/ /\ Rings(h) /\ ~There(c) /\ show /\ screened' = {x \in screened : x.place # <<s, i>>}
          /\ Rings(e)
       \/ /\ Rings(h) /\ ~There(c) /\ ~show /\ e = c
          /\ screened' = screened \cup {[place |-> <<s, i>>, num |-> r.num]}
  <2>1. CASE Rings(r)
    <3>1. DoesRing(Manager, Manager', r, show)
      BY <1>3, <2>1
    <3>2. /\ There(c) => screened' = screened
          /\ ~There(c) /\ show => screened' = {x \in screened : x.place # <<s, i>>} /\ e.st = r.st
          /\ ~There(c) /\ ~show => /\ e = c
                                   /\ screened' = screened \cup {[place |-> <<s, i>>, num |-> r.num]}
      BY <1>1, <3>1, Expand DEF DoesRing
    <3> HIDE DEF c, e, h
    <3> QED BY <1>10, <2>1, <3>2 DEF Rings
  <2>2. CASE ~Rings(r)
    BY <1>3, <2>2, Expand DEF Does, Plain
  <2> QED BY <2>1, <2>2
<1>12. Singles(queue) => Singles(queue')
  <2>1. CASE Rings(r)
    BY <1>3, <2>1, Expand DEF DoesRing
  <2>2. CASE ~Rings(r)
    <3>1. queue' = queue
      BY <1>3, <2>2, Expand DEF Does, Plain
    <3> QED BY <3>1
  <2> QED BY <2>1, <2>2
<1>13. DialsOK'
  <2>1. ~up' => screened' = {}
    <3> SUFFICES ASSUME ~up PROVE screened' = {}
      BY <1>4
    <3>1. screened = {} /\ show
      BY <1>3 DEF Following, DialsOK
    <3> QED BY <1>11, <3>1
  <2> QED BY <1>4, <1>12, <2>1 DEF Following, DialsOK
<1>14. \A x : <<s, i>> \in Refused(x) <=> \E y \in x : y.place = <<s, i>>
  BY DEF Refused
<1>15. calls \in Tables /\ calls' \in Tables
  BY <1>0, Expand DEF ListsInv, Managers
<1>16. Stays \/ Brings(i)
  <2>1. CASE Look(e) = Look(c)
    <3>1. LooksOf(calls') = LooksOf(calls)
      <4>1. \A t \in Slots, j \in Indexes : Look(calls'[t][j]) = Look(calls[t][j])
        <5> SUFFICES ASSUME NEW t \in Slots, NEW j \in Indexes
                     PROVE  Look(calls'[t][j]) = Look(calls[t][j])
          OBVIOUS
        <5>1. CASE t = s /\ j = i
          BY <2>1, <5>1
        <5>2. CASE <<t, j>> # <<s, i>>
          BY <1>3, <5>2
        <5> QED BY <5>1, <5>2
      <4> QED BY <4>1 DEF LooksOf
    <3>2. CASE screened' = screened
      BY <1>6, <3>1, <3>2 DEF Stays
    <3>3. CASE ~There(c) /\ Rings(e)
      BY <2>1, <3>3, LookFacts, StepFacts
    <3>4. CASE /\ Rings(h) /\ ~There(c)
               /\ screened' = screened \cup {[place |-> <<s, i>>, num |-> r.num]}
      <4>1. Refused(screened') = Refused(screened) \cup {<<s, i>>}
        <5> DEFINE y == [place |-> <<s, i>>, num |-> r.num]
        <5>1. screened' = screened \cup {y} /\ y.place = <<s, i>>
          BY <3>4
        <5> HIDE DEF y
        <5> QED BY <5>1 DEF Refused
      <4>2. Look(c) = NoCall
        BY <3>4, LookFacts, StepFacts
      <4> QED BY <1>4, <1>6, <3>1, <3>4, <4>1, <4>2 DEF Brings
    <3> QED BY <1>11, <3>2, <3>3, <3>4
  <2>2. CASE Look(e) # Look(c)
    <3>1. Look(e) = Look(h)
      BY <1>7, <2>2
    <3>2. LooksOf(calls') = [LooksOf(calls) EXCEPT ![s][i] = Look(h)]
      <4>1. \A t \in Slots, j \in Indexes :
               Look(calls'[t][j]) = IF t = s /\ j = i THEN Look(h) ELSE Look(calls[t][j])
        <5> SUFFICES ASSUME NEW t \in Slots, NEW j \in Indexes
                     PROVE  Look(calls'[t][j]) = IF t = s /\ j = i THEN Look(h) ELSE Look(calls[t][j])
          OBVIOUS
        <5>1. CASE t = s /\ j = i
          BY <3>1, <5>1
        <5>2. CASE <<t, j>> # <<s, i>>
          BY <1>3, <5>2
        <5> QED BY <5>1, <5>2
      <4> HIDE DEF h
      <4> QED BY <4>1 DEF LooksOf
    <3>3. Refused(screened') = Refused(screened) \ {<<s, i>>}
      <4>1. CASE screened' = screened
        <5>1. ~Hidden(s, i)
          <6> SUFFICES ASSUME Hidden(s, i) PROVE FALSE
            OBVIOUS
          <6>1. Hidden(s, i)'
            BY <4>1 DEF Hidden
          <6> QED BY <1>7, <2>2, <6>1, LookFacts, StepFacts
        <5> QED BY <1>14, <4>1, <5>1 DEF Hidden
      <4>2. CASE screened' = {x \in screened : x.place # <<s, i>>}
        BY <4>2 DEF Refused
      <4> QED BY <1>11, <2>2, <4>1, <4>2
    <3> QED BY <1>4, <1>6, <2>2, <3>1, <3>2, <3>3 DEF Brings
  <2> QED BY <2>1, <2>2
<1>17. Obeys
  BY <1>2, <1>16 DEF Obeys
<1> QED BY <1>8, <1>9, <1>13, <1>17 DEF Mirrored, Following
-----------------------------------------------------------------------------
(* The queue's head is worked off *)

\* The first entry of the queue is taken off and remembered.
LEMMA HeadGone ==
    ASSUME ListsInv, NEW s, NEW i, PlaceOK(s, i), queue # <<>>, queue' = Tail(queue), ~busy',
           calls'[s][i] = calls[s][i], modem'[s][i] = modem[s][i],
           Remembers(View(queue, s, i), details[s][i], details'[s][i]),
           Hidden(s, i)' => /\ Hidden(s, i)
                            /\ 1 \in DOMAIN View(queue, s, i) => Live(View(queue, s, i)[1]),
           Open(s, i)' <=> Open(s, i), Seen' = Seen,
           Agrees(details'[s][i], calls[s][i], Hidden(s, i)')
    PROVE  PlaceOK(s, i)'
<1> DEFINE v == View(queue, s, i)
           w == View(Tail(queue), s, i)
           c == calls[s][i]
           d == modem[s][i]
           o == details[s][i]
           q == details'[s][i]
<1>1. Shifts(v, w)
  <2>1. queue \in Queues
    BY Expand DEF ListsInv, Managers, Queues
  <2> QED BY <2>1, ViewShifts
<1>2. /\ Ordered(v, o, d, c, Open(s, i), Excused(s, i)) /\ UsedOK(v, c, d, Seen)
      /\ ScreenOK(v, o, c, d, Hidden(s, i), Here(s))
  BY DEF PlaceOK, Fits
<1>3. ~Here(s)' /\ Lastly(s, i)' = details'[s][i]
  BY DEF Here, Done, Lastly
<1> HIDE DEF v, w, c, d, o, q
<1>4. Ordered(w, q, d, c, Open(s, i), Excused(s, i)')
  BY <1>1, <1>2, ShiftOrdered DEF v, o, q
<1>5. UsedOK(w, c, d, Seen)
  BY <1>1, <1>2, ShiftUsed
<1>6. ScreenOK(w, q, c, d, Hidden(s, i)', FALSE)
  BY <1>1, <1>2, ShiftScreen DEF v, o, q
<1>7. Ordered(w, q, d, c, Open(s, i)', Excused(s, i)')
  BY <1>4 DEF Ordered, LastOK, FinalOK
<1>8. ScreenOK(w, q, c, d, Hidden(s, i)', Here(s)')
  BY <1>3, <1>6 DEF ScreenOK
<1>9. Fits(w, q, d, c, Open(s, i)', Excused(s, i)', Seen', Hidden(s, i)', Here(s)')
  BY <1>5, <1>7, <1>8 DEF Fits
<1>10. Agrees(Lastly(s, i)', calls'[s][i], Hidden(s, i)')
  BY <1>3
<1> QED BY <1>9, <1>10 DEF PlaceOK, w, q, c, d

\* What is left of the queue has single reports about dials only.
LEMMA SinglesTail ==
    ASSUME NEW q \in Queues, q # <<>>, Singles(q)
    PROVE  Singles(Tail(q))
<1> DEFINE r == Tail(q)
<1>1. Len(q) \in Nat /\ Len(r) \in Nat /\ Len(q) = Len(r) + 1 /\ \A k \in 1..Len(r) : r[k] = q[k + 1]
  BY DEF Queues
<1> HIDE DEF r
<1>2. \A k \in 1..Len(r) : k + 1 \in 1..Len(q)
  BY <1>1
<1>3. Singles(r)
  BY <1>1, <1>2 DEF Singles
<1> QED BY <1>3 DEF r

\* FinishCallsReportInfo: the table agrees with the list, which is remembered.
LEMMA FollowFinish == ASSUME ListsInv, Following, FinishCallsReportInfo PROVE Mirrored
<1> DEFINE l == Head(queue)
<1>1. /\ busy /\ work = <<>> /\ work' = <<>> /\ ~busy' /\ queue' = Tail(queue)
      /\ details' = UpdateCallDetailsInfo(details, l)
      /\ screened' = {x \in screened : x.place[1] = l.slot => Live(l.calls[x.place[2]])}
      /\ UNCHANGED <<calls, modem, dialReq, up, clearing, used>>
  BY DEF FinishCallsReportInfo, env
<1>2. queue \in Queues /\ details \in Details /\ screened \subseteq [place: Places, num: Nums]
  BY Expand DEF ListsInv, Managers, Queues
<1>3. queue # <<>> /\ IsList(l) /\ l \in Lists /\ l.slot \in Slots
  <2>1. queue # <<>> /\ IsList(l)
    BY <1>1 DEF ListsInv, AtWork
  <2>2. l \in Lists
    BY <1>2, <2>1, HeadTypes DEF Queues
  <2> QED BY <2>1, <2>2 DEF Lists
<1>4. \A s \in Slots, i \in Indexes :
         details'[s][i] = IF s = l.slot
                          THEN IF Live(l.calls[i]) THEN [st |-> l.calls[i].st, type |-> l.calls[i].type]
                               ELSE NoCall
                          ELSE details[s][i]
  <2> DEFINE listed == [i \in Indexes |->
                 IF Live(l.calls[i]) THEN [st |-> l.calls[i].st, type |-> l.calls[i].type] ELSE NoCall]
  <2>1. details' = [details EXCEPT ![l.slot] = listed]
    BY <1>1 DEF UpdateCallDetailsInfo
  <2>2. \A i \in Indexes : listed[i] =
           IF Live(l.calls[i]) THEN [st |-> l.calls[i].st, type |-> l.calls[i].type] ELSE NoCall
    OBVIOUS
  <2> HIDE DEF listed, l
  <2>3. \A s \in Slots : details'[s] = IF s = l.slot THEN listed ELSE details[s]
    BY <1>2, <1>3, <2>1 DEF Details
  <2> QED BY <2>2, <2>3
<1> HIDE DEF l
<1>5. \A s \in Slots, i \in Indexes : Hidden(s, i)' <=> Hidden(s, i) /\ (s = l.slot => Live(l.calls[i]))
  <2>1. \A s, i : <<s, i>>[1] = s /\ <<s, i>>[2] = i
    OBVIOUS
  <2> QED BY <1>1, <2>1 DEF Hidden
<1>6. \A s \in Slots, i \in Indexes : 1 \in DOMAIN View(queue, s, i) <=> s = l.slot
  BY <1>2, <1>3, ViewIs DEF l
<1>7. \A i \in Indexes : View(queue, l.slot, i)[1] = l.calls[i]
  BY <1>2, <1>3, <1>6, ViewIs DEF l
<1>8. \A i \in Indexes : Agrees(l.calls[i], calls[l.slot][i], Hidden(l.slot, i))
  <2> SUFFICES ASSUME NEW i \in Indexes PROVE Agrees(l.calls[i], calls[l.slot][i], Hidden(l.slot, i))
    OBVIOUS
  <2>1. Lastly(l.slot, i) = l.calls[i]
    BY <1>1 DEF Lastly, Done, Here, l
  <2>2. PlaceOK(l.slot, i)
    BY <1>3 DEF Following
  <2> QED BY <2>1, <2>2 DEF PlaceOK
<1>9. ASSUME NEW s \in Slots, NEW i \in Indexes PROVE PlaceOK(s, i)'
  <2>1. PlaceOK(s, i) /\ (Open(s, i)' <=> Open(s, i)) /\ Seen' = Seen
    BY <1>1 DEF Following, Open, Seen
  <2>2. CASE s = l.slot
    <3>1. /\ Live(details'[s][i]) <=> Live(l.calls[i])
          /\ Live(details'[s][i]) => details'[s][i].st = l.calls[i].st
          /\ Look(details'[s][i]) = Look(l.calls[i])
      <4>1. CASE Live(l.calls[i])
        <5>1. details'[s][i] = [st |-> l.calls[i].st, type |-> l.calls[i].type]
          BY <1>4, <2>2, <4>1
        <5>2. details'[s][i].st = l.calls[i].st /\ details'[s][i].type = l.calls[i].type
          BY <5>1
        <5> QED BY <4>1, <5>2 DEF Live, Look
      <4>2. CASE ~Live(l.calls[i])
        <5>1. details'[s][i] = NoCall /\ ~Live(NoCall)
          BY <1>4, <2>2, <4>2 DEF Live, NoCall
        <5> QED BY <4>2, <5>1, LookFacts
      <4> QED BY <4>1, <4>2
    <3>2. Agrees(details'[s][i], calls[s][i], Hidden(s, i)')
      BY <1>5, <1>8, <2>2, <3>1 DEF Agrees
    <3>3. Remembers(View(queue, s, i), details[s][i], details'[s][i])
      BY <1>6, <1>7, <2>2, <3>1 DEF Remembers
    <3>4. Hidden(s, i)' => Hidden(s, i) /\ Live(View(queue, s, i)[1])
      BY <1>5, <1>7, <2>2
    <3> QED BY <1>1, <1>3, <2>1, <3>2, <3>3, <3>4, HeadGone
  <2>3. CASE s # l.slot
    <3>1. details'[s][i] = details[s][i] /\ (Hidden(s, i)' <=> Hidden(s, i))
          /\ 1 \notin DOMAIN View(queue, s, i)
      BY <1>4, <1>5, <1>6, <2>3
    <3>2. Agrees(details[s][i], calls[s][i], Hidden(s, i))
      <4>1. Lastly(s, i) = details[s][i]
        BY <2>3 DEF Lastly, Done, Here, l
      <4> QED BY <2>1, <4>1 DEF PlaceOK
    <3>3. Agrees(details'[s][i], calls[s][i], Hidden(s, i)')
      BY <3>1, <3>2 DEF Agrees
    <3>4. Remembers(View(queue, s, i), details[s][i], details'[s][i])
      BY <3>1 DEF Remembers
    <3> QED BY <1>1, <1>3, <2>1, <3>1, <3>3, <3>4, HeadGone
  <2> QED BY <2>2, <2>3
<1>10. WorkOK'
  BY <1>1 DEF WorkOK
<1>11. DialsOK'
  <2>1. Singles(queue')
    BY <1>1, <1>2, <1>3, SinglesTail DEF Following, DialsOK
  <2>2. screened = {} => screened' = {}
    BY <1>1
  <2> QED BY <1>1, <2>1, <2>2 DEF Following, DialsOK
<1>12. Ends
  <2>1. \A i \in Indexes : \/ Look(calls[l.slot][i]) = Look(l.calls[i])
                           \/ Look(calls[l.slot][i]) = NoCall /\ <<l.slot, i>> \in Refused(screened)
    <3> SUFFICES ASSUME NEW i \in Indexes, Look(calls[l.slot][i]) # Look(l.calls[i])
                 PROVE  Look(calls[l.slot][i]) = NoCall /\ <<l.slot, i>> \in Refused(screened)
      OBVIOUS
    <3>1. ~There(calls[l.slot][i]) /\ Hidden(l.slot, i)
      BY <1>8 DEF Agrees
    <3>2. Look(calls[l.slot][i]) = NoCall
      BY <3>1, LookFacts, StepFacts
    <3> QED BY <3>1, <3>2 DEF Hidden, Refused
  <2>2. Refused(screened') = Refused(screened) \
            {<<l.slot, i>> : i \in {j \in Indexes : Look(l.calls[j]) = NoCall}}
    <3> DEFINE X == {<<l.slot, i>> : i \in {j \in Indexes : Look(l.calls[j]) = NoCall}}
    <3>1. ASSUME NEW x \in screened
          PROVE  x.place \in X <=> ~(x.place[1] = l.slot => Live(l.calls[x.place[2]]))
      <4>1. x.place \in Places
        BY <1>2
      <4>2. x.place = <<x.place[1], x.place[2]>> /\ x.place[2] \in Indexes
        BY <4>1, PlaceTypes
      <4>3. Look(l.calls[x.place[2]]) = NoCall <=> ~Live(l.calls[x.place[2]])
        BY LookFacts
      <4> QED BY <4>2, <4>3
    <3> HIDE DEF X
    <3>2. Refused(screened') = Refused(screened) \ X
      <4>1. ASSUME NEW p PROVE p \in Refused(screened') <=> p \in Refused(screened) /\ p \notin X
        BY <1>1, <3>1 DEF Refused
      <4> QED BY <4>1
    <3> QED BY <3>2 DEF X
  <2>3. LooksOf(calls') = LooksOf(calls)
    BY <1>1
  <2> QED BY <1>1, <2>1, <2>2, <2>3 DEF Ends, l
<1>13. Obeys
  BY <1>3, <1>12 DEF Obeys, l
<1> QED BY <1>9, <1>10, <1>11, <1>13 DEF Mirrored, Following

\* HandleSingleReport touches index 0 only.
LEMMA FollowSingle == ASSUME ListsInv, Following, HandleSingleReport PROVE Mirrored
<1> DEFINE m == [Manager EXCEPT !.queue = Tail(@)]
           r == Head(queue)
<1>1. queue \in Seq(Lists \cup SoundReports) /\ Manager \in Managers /\ queue # <<>> /\ ~IsList(r)
      /\ ~busy /\ UNCHANGED <<work, busy, modem, dialReq, up, clearing, used>>
  BY Expand DEF ListsInv, Managers, HandleSingleReport, env
<1>2. r \in SoundReports /\ Tail(queue) \in Seq(Lists \cup SoundReports)
  BY <1>1, HeadTypes
<1>3. m \in Managers /\ m.calls = calls /\ m.af = Manager.af /\ m.queue = Tail(queue)
      /\ m.screened = screened /\ m.details = details
  BY <1>1, <1>2, Expand DEF Managers
<1>4. FraudInv(m)
  BY <1>3, Expand DEF ListsInv, FraudInv, CallAt
<1>5. PICK choice \in Choices : Become(HandleCallReportInfo(m, r, choice))
  BY DEF HandleSingleReport
<1>6. r.idx = InitIndex
  <2>1. 1 \in 1..Len(queue) /\ queue[1] = r
    BY <1>1
  <2> HIDE DEF r
  <2> QED BY <1>1, <2>1 DEF Following, DialsOK, Singles
<1> DEFINE n == HandleCallReportInfo(m, r, choice)
<1> HIDE DEF m, r, n
<1>7. Plain(m, n)
  BY <1>2, <1>3, <1>6, InitReportDoes DEF n
<1>8. n \in Managers /\ Local(m, n, r.slot, InitIndex) /\ n.details = m.details
  BY <1>2, <1>3, <1>4, <1>6, ReportHandled DEF Handled, Good, Rest, n
<1>9. Manager' = n
  BY <1>5, <1>8, BecomeIs DEF n
<1>10. /\ queue' = Tail(queue) /\ screened' = screened /\ details' = details /\ calls' = n.calls
  BY <1>3, <1>7, <1>8, <1>9, Expand DEF Plain
<1>11. ASSUME NEW s \in Slots, NEW i \in Indexes PROVE calls'[s][i] = calls[s][i]
  <2>1. <<s, i>> \in Places /\ <<s, i>> # <<r.slot, InitIndex>>
    <3>1. i # InitIndex
      BY PlaceTypes
    <3> QED BY <3>1 DEF Places
  <2>2. CallAt(n, <<s, i>>) = CallAt(m, <<s, i>>)
    BY <1>8, <2>1 DEF Local
  <2> QED BY <1>3, <1>10, <2>2 DEF CallAt
<1>12. queue \in Queues
  BY <1>1 DEF Queues
<1>13. ASSUME NEW s \in Slots, NEW i \in Indexes PROVE PlaceOK(s, i)'
  <2>1. PlaceOK(s, i) /\ (Open(s, i)' <=> Open(s, i)) /\ Seen' = Seen /\ (Hidden(s, i)' <=> Hidden(s, i))
    BY <1>1, <1>10 DEF Following, Open, Seen, Hidden
  <2>2. 1 \notin DOMAIN View(queue, s, i)
    BY <1>1, <1>12, ViewIs DEF r
  <2>3. Remembers(View(queue, s, i), details[s][i], details'[s][i])
    BY <1>10, <2>2 DEF Remembers
  <2>4. Agrees(details'[s][i], calls[s][i], Hidden(s, i)')
    <3>1. Lastly(s, i) = details[s][i]
      BY <1>1 DEF Lastly, Done, Here
    <3> QED BY <1>10, <2>1, <3>1 DEF PlaceOK, Agrees
  <2> QED BY <1>1, <1>10, <1>11, <2>1, <2>2, <2>3, <2>4, HeadGone
<1>14. WorkOK'
  BY <1>1 DEF Following, WorkOK
<1>15. DialsOK'
  <2>1. Singles(queue')
    BY <1>1, <1>10, <1>12, SinglesTail DEF Following, DialsOK
  <2> QED BY <1>1, <1>10, <2>1 DEF Following, DialsOK
<1>16. Stays
  <2>1. LooksOf(calls') = LooksOf(calls)
    BY <1>11 DEF LooksOf
  <2>2. Inbox(queue') = Inbox(queue)
    BY <1>1, <1>10, <1>12, InboxTail DEF r
  <2> QED BY <1>10, <2>1, <2>2 DEF Stays
<1> QED BY <1>13, <1>14, <1>15, <1>16 DEF Mirrored, Following, Obeys
-----------------------------------------------------------------------------
(* The modem's calls move on *)

\* What a step may make of the modem's call at (s, i).
MovesOn(s, i, e) ==
    /\ Moves(calls[s][i], modem[s][i], e, Open(s, i), Seen)
    /\ Live(e) => e.num \in Seen'
    /\ ~Live(modem[s][i]) => StepOK(NoCall, e) \/ (queue = <<>> /\ FirstAlert(s, i)')

\* The queue q is to get a list with the call c there.
ListedAs(s, i, q, c, e) ==
    /\ MovesOn(s, i, e)
    /\ queue = <<>> /\ ~Live(modem[s][i]) => q = <<>> \/ StepOK(NoCall, e)
    /\ Live(e) => c = e
    /\ Live(c) => Live(e)

\* The environment's own promises.
Dialling ==
    /\ \A s \in Slots : dialReq[s] <= used.calls
    /\ \A s, t \in Slots : dialReq[s] # 0 /\ dialReq[t] # 0 => s = t

\* The list at work stays at the head of the queue.
LEMMA WorkStill ==
    ASSUME ListsInv, ListsInv', Following, queue # <<>> => Head(queue') = Head(queue),
           UNCHANGED <<details, work, busy>>
    PROVE  WorkOK'
<1>1. busy => queue # <<>>
  BY DEF ListsInv, AtWork
<1>2. \A k \in DOMAIN work : Told(work[k], Head(queue)) => Told(work[k], Head(queue))'
  <2> SUFFICES ASSUME NEW k \in DOMAIN work PROVE queue # <<>>
    BY DEF Told
  <2>1. busy
    BY DEF Following, WorkOK
  <2> QED BY <1>1, <2>1
<1> QED BY <1>2 DEF Following, WorkOK

\* A list of slot s is put at the queue's end, perhaps behind reports.
LEMMA PlaceListed ==
    ASSUME ListsInv, ListsInv', Following, NEW s \in Slots, NEW i \in Indexes, NEW e,
           NEW q \in Queues, Grown(queue, q), NEW l \in Lists, l.slot = s, queue' = Append(q, l),
           UNCHANGED <<calls, details, screened, work, busy>>, modem'[s][i] = e,
           ListedAs(s, i, q, l.calls[i], e), Seen \subseteq Seen'
    PROVE  PlaceOK(s, i)'
<1> DEFINE v == View(queue, s, i)
           w == View(queue', s, i)
           c == calls[s][i]
           d == modem[s][i]
           o == details[s][i]
           n == Len(q) + 1
<1>1. queue \in Queues /\ (busy => queue # <<>>) /\ queue' \in Queues /\ PlaceOK(s, i)
  BY Expand DEF ListsInv, Managers, Queues, AtWork, Following
<1>2. queue # <<>> => Head(queue') = Head(queue)
  <2>1. queue # <<>> => q # <<>> /\ Head(q) = Head(queue)
    BY <1>1 DEF Grown, Queues
  <2>2. q # <<>> => Head(queue') = Head(q)
    BY DEF Queues
  <2> QED BY <2>1, <2>2
<1>3. View(q, s, i) = v
  BY <1>1, ViewGrown
<1>4. Extends(v, w, n, e)
  BY <1>3, ViewExtends DEF ListedAs
<1>5. (Here(s)' <=> Here(s)) /\ (Done(s, i)' <=> Done(s, i)) /\ (Hidden(s, i)' <=> Hidden(s, i))
  BY <1>1, <1>2 DEF Here, Done, Hidden
<1>6. Lastly(s, i)' = Lastly(s, i)
  BY <1>1, <1>2, <1>5 DEF Lastly, Done, Here
<1>7. 1 \in DOMAIN v /\ Excused(s, i) => Excused(s, i)'
  <2> SUFFICES ASSUME 1 \in DOMAIN v, FirstAlert(s, i) PROVE FirstAlert(s, i)'
    BY <1>5 DEF Excused
  <2>1. queue # <<>>
    BY <1>1, ViewIs
  <2> QED BY <1>2, <2>1 DEF FirstAlert
<1>8. Fits(v, o, d, c, Open(s, i), Excused(s, i)', Seen, Hidden(s, i), Here(s))
  <2>1. SameCall(c, c)
    BY DEF SameCall
  <2>2. Fits(v, o, d, c, Open(s, i), Excused(s, i), Seen, Hidden(s, i), Here(s))
    BY <1>1 DEF PlaceOK
  <2> HIDE DEF v, c, d, o
  <2> QED BY <1>7, <2>1, <2>2, FitsStill
<1>9. ~Live(d) => StepOK(NoCall, e) \/ (n = 1 /\ Excused(s, i)')
  <2>1. q = <<>> => n = 1
    OBVIOUS
  <2> QED BY <2>1 DEF ListedAs, MovesOn, Excused
<1>10. Moves(c, d, e, Open(s, i), Seen) /\ (Live(e) => e.num \in Seen')
  BY DEF ListedAs, MovesOn
<1> HIDE DEF v, w, c, d, o, n
<1>11. Ordered(w, o, e, c, Open(s, i)', Excused(s, i)')
  BY <1>4, <1>8, <1>9, <1>10, ExtendOrdered DEF Fits
<1>12. UsedOK(w, c, e, Seen')
  BY <1>4, <1>8, <1>10, ExtendUsed DEF Fits
<1>13. ScreenOK(w, o, c, e, Hidden(s, i), Here(s))
  BY <1>4, <1>8, <1>10, ExtendScreen DEF Fits, Ordered
<1>14. ScreenOK(w, o, c, e, Hidden(s, i)', Here(s)')
  BY <1>5, <1>13 DEF ScreenOK
<1>15. Fits(w, o, e, c, Open(s, i)', Excused(s, i)', Seen', Hidden(s, i)', Here(s)')
  BY <1>11, <1>12, <1>14 DEF Fits
<1>16. Agrees(Lastly(s, i)', calls'[s][i], Hidden(s, i)')
  BY <1>1, <1>5, <1>6 DEF PlaceOK, Agrees
<1> QED BY <1>15, <1>16 DEF PlaceOK, w, o, c

\* It is posted, and no other slot minds.
LEMMA ListPosted ==
    ASSUME ListsInv, ListsInv', Following, NEW s \in Slots, NEW cs \in [Indexes -> ModemCalls],
           NEW q \in Queues, Grown(queue, q), Singles(queue) => Singles(q),
           NEW l \in Lists, l.slot = s, queue' = Append(q, l),
           UNCHANGED <<calls, details, screened, work, busy>>, up' = up,
           modem' = [modem EXCEPT ![s] = cs], Dialling', Seen \subseteq Seen',
           \A t \in Slots \ {s}, i \in Indexes : Open(t, i)' => Open(t, i),
           \A i \in Indexes : ListedAs(s, i, q, l.calls[i], cs[i])
    PROVE  Mirrored
<1>1. queue \in Queues /\ (busy => queue # <<>>) /\ queue' \in Queues
      /\ modem \in [Slots -> [Indexes -> ModemCalls]]
  BY Expand DEF ListsInv, Managers, Queues, AtWork, EnvOK
<1>2. queue # <<>> => Head(queue') = Head(queue)
  <2>1. queue # <<>> => q # <<>> /\ Head(q) = Head(queue)
    BY <1>1 DEF Grown, Queues
  <2>2. q # <<>> => Head(queue') = Head(q)
    BY DEF Queues
  <2> QED BY <2>1, <2>2
<1>3. WorkOK'
  BY <1>2, WorkStill
<1>4. Singles(queue')
  <2>1. Singles(q)
    BY DEF Following, DialsOK
  <2>2. /\ Len(q) \in Nat /\ Len(queue') = Len(q) + 1 /\ queue'[Len(q) + 1] = l
        /\ \A k \in 1..Len(q) : queue'[k] = q[k]
    BY DEF Queues
  <2>3. IsList(l)
    BY QueueTypes
  <2>4. \A k \in 1..Len(queue') : k \in 1..Len(q) \/ k = Len(q) + 1
    BY <2>2
  <2> QED BY <2>1, <2>2, <2>3, <2>4 DEF Singles
<1>5. DialsOK'
  BY <1>4 DEF DialsOK, Dialling, Following
<1>6. ASSUME NEW t \in Slots, NEW i \in Indexes PROVE PlaceOK(t, i)'
  <2>1. CASE t = s
    <3>1. modem'[s][i] = cs[i]
      BY <1>1
    <3> QED BY <2>1, <3>1, PlaceListed
  <2>2. CASE t # s
    <3>1. modem'[t][i] = modem[t][i] /\ PlaceOK(t, i) /\ SameCall(calls[t][i], calls'[t][i])
      BY <1>1, <2>2 DEF Following, SameCall
    <3>2. View(queue', t, i) = View(queue, t, i)
      BY <1>1, <2>2, ViewGrown, ViewOther
    <3>3. (Here(t)' <=> Here(t)) /\ (Done(t, i)' <=> Done(t, i)) /\ (Hidden(t, i)' <=> Hidden(t, i))
      BY <1>1, <1>2 DEF Here, Done, Hidden
    <3>4. Lastly(t, i)' = Lastly(t, i)
      BY <1>1, <1>2, <3>3 DEF Lastly, Done, Here
    <3>5. 1 \in DOMAIN View(queue, t, i) /\ Excused(t, i) => Excused(t, i)'
      <4> SUFFICES ASSUME 1 \in DOMAIN View(queue, t, i), FirstAlert(t, i) PROVE FirstAlert(t, i)'
        BY <3>3 DEF Excused
      <4>1. queue # <<>>
        BY <1>1, ViewIs
      <4> QED BY <1>2, <4>1 DEF FirstAlert
    <3>6. Open(t, i)' => Open(t, i)
      BY <2>2
    <3> QED BY <3>1, <3>2, <3>3, <3>4, <3>5, <3>6, PlaceStill
  <2> QED BY <2>1, <2>2
<1>7. Posts
  <2>1. Inbox(queue') = Append(Inbox(q), Entry(l)) /\ Inbox(q) = Inbox(queue)
    BY <1>1, InboxAppend, InboxGrown
  <2> QED BY <2>1 DEF Posts
<1> QED BY <1>3, <1>5, <1>6, <1>7 DEF Mirrored, Following, Obeys

\* Nobody is there to list the calls.
LEMMA ModemSilent ==
    ASSUME ListsInv, ListsInv', Following, NEW s \in Slots, NEW cs \in [Indexes -> ModemCalls],
           UNCHANGED <<calls, queue, details, screened, work, busy, up, clearing>>, ~up,
           modem' = [modem EXCEPT ![s] = cs], Dialling', Seen \subseteq Seen',
           \A i \in Indexes : MovesOn(s, i, cs[i])
    PROVE  Mirrored
<1>1. queue \in Queues /\ modem \in [Slots -> [Indexes -> ModemCalls]]
  BY Expand DEF ListsInv, Managers, Queues, EnvOK
<1>2. WorkOK'
  BY WorkStill
<1>3. DialsOK'
  BY DEF DialsOK, Dialling, Following
<1>4. ASSUME NEW t \in Slots, NEW i \in Indexes PROVE PlaceOK(t, i)'
  <2>1. /\ (Here(t)' <=> Here(t)) /\ (Done(t, i)' <=> Done(t, i)) /\ (Hidden(t, i)' <=> Hidden(t, i))
        /\ (Excused(t, i)' <=> Excused(t, i)) /\ Lastly(t, i)' = Lastly(t, i)
        /\ ~Open(t, i) /\ ~Open(t, i)' /\ PlaceOK(t, i)
    BY DEF Here, Done, Hidden, Excused, FirstAlert, Lastly, Open, Following
  <2>2. CASE t = s
    <3> DEFINE v == View(queue, s, i)
               c == calls[s][i]
               d == modem[s][i]
               e == cs[i]
               o == details[s][i]
    <3>1. modem'[s][i] = e
      BY <1>1
    <3>2. Moves(c, d, e, FALSE, Seen) /\ (Live(e) => e.num \in Seen')
      BY <2>1, <2>2 DEF MovesOn, Moves
    <3>3. Ordered(v, o, d, c, FALSE, Excused(s, i)) /\ UsedOK(v, c, d, Seen)
          /\ ScreenOK(v, o, c, d, Hidden(s, i), Here(s))
      <4>1. Ordered(v, o, d, c, Open(s, i), Excused(s, i)) /\ UsedOK(v, c, d, Seen)
            /\ ScreenOK(v, o, c, d, Hidden(s, i), Here(s))
        BY <2>1, <2>2 DEF PlaceOK, Fits
      <4> QED BY <4>1 DEF Ordered, LastOK, FinalOK
    <3>4. Len(queue) \in Nat /\ DOMAIN v \subseteq 1..Len(queue)
      BY <1>1, ViewIs
    <3> HIDE DEF v, c, d, e, o
    <3>5. /\ Ordered(v, o, e, c, FALSE, Excused(s, i)) /\ UsedOK(v, c, e, Seen')
          /\ ScreenOK(v, o, c, e, Hidden(s, i), Here(s))
      BY <3>2, <3>3, <3>4, SilentMove
    <3>6. Ordered(v, o, e, c, Open(s, i)', Excused(s, i)')
      <4>1. FirstOK(v, o, Excused(s, i)')
        BY <2>1, <2>2, <3>5 DEF Ordered, FirstOK
      <4>2. LastOK(v, o, e, Open(s, i)')
        BY <2>1, <2>2, <3>5 DEF Ordered, LastOK, FinalOK
      <4> QED BY <3>5, <4>1, <4>2 DEF Ordered
    <3>7. ScreenOK(v, o, c, e, Hidden(s, i)', Here(s)')
      BY <2>1, <2>2, <3>5 DEF ScreenOK
    <3>8. Fits(v, o, e, c, Open(s, i)', Excused(s, i)', Seen', Hidden(s, i)', Here(s)')
      BY <3>5, <3>6, <3>7 DEF Fits
    <3>9. Agrees(Lastly(s, i)', calls'[s][i], Hidden(s, i)')
      BY <2>1, <2>2 DEF PlaceOK, Agrees
    <3>10. PlaceOK(s, i)'
      BY <3>1, <3>8, <3>9 DEF PlaceOK, v, c, o
    <3> QED BY <2>2, <3>10
  <2>3. CASE t # s
    <3>1. modem'[t][i] = modem[t][i] /\ SameCall(calls[t][i], calls'[t][i])
      BY <1>1, <2>3 DEF SameCall
    <3> QED BY <2>1, <3>1, PlaceStill
  <2> QED BY <2>2, <2>3
<1>5. Stays
  BY DEF Stays
<1> QED BY <1>2, <1>3, <1>4, <1>5 DEF Mirrored, Following, Obeys

\* A step of the modem.
LEMMA ModemMirrored ==
    ASSUME ListsInv, ListsInv', Following, Races = {}, NEW s \in Slots,
           NEW cs \in [Indexes -> ModemCalls], ModemBecomes(s, cs), Dialling', Seen \subseteq Seen',
           \A i \in Indexes : MovesOn(s, i, cs[i])
    PROVE  Mirrored
<1>1. /\ UNCHANGED <<calls, details, screened, work, busy, up, clearing>>
      /\ modem' = [modem EXCEPT ![s] = cs]
  BY DEF ModemBecomes
<1>2. CASE up
  <2>1. PICK l \in ListsOf(s, cs) : queue' = OnUpdateCallsReportInfo(queue, [slot |-> s, calls |-> l])
    BY <1>2 DEF ModemBecomes
  <2> DEFINE x == [slot |-> s, calls |-> l]
  <2>2. x \in Lists /\ x.slot = s
    BY ListsOfType
  <2>3. PICK named \in SUBSET {i \in Indexes : There(modem[s][i]) /\ ~There(cs[i])} :
           l = [i \in Indexes |-> IF i \in named THEN Ended ELSE cs[i]]
    BY DEF ListsOf
  <2>4. \E i \in Indexes : There(l[i])
    BY DEF ListsOf
  <2>5. queue' = Append(queue, x)
    BY <2>1, <2>4 DEF OnUpdateCallsReportInfo
  <2>6. ASSUME NEW i \in Indexes PROVE ListedAs(s, i, queue, x.calls[i], cs[i])
    <3>1. CASE i \in named
      <4>1. x.calls[i] = Ended /\ ~There(cs[i])
        BY <2>3, <3>1
      <4> QED BY <4>1, StepFacts DEF Ended, Live, ListedAs
    <3>2. CASE i \notin named
      BY <2>3, <3>2 DEF ListedAs
    <3> QED BY <3>1, <3>2
  <2>7. queue \in Queues
    BY Expand DEF ListsInv, Managers, Queues
  <2>8. Grown(queue, queue)
    BY <2>7, GrownSame
  <2>9. \A t \in Slots \ {s}, i \in Indexes : Open(t, i)' => Open(t, i)
    BY <1>1 DEF Open
  <2> HIDE DEF x
  <2> QED BY <1>1, <2>2, <2>5, <2>6, <2>7, <2>8, <2>9, ListPosted
<1>3. CASE ~up
  <2>1. queue' = queue
    BY <1>3 DEF ModemBecomes
  <2> QED BY <1>1, <1>3, <2>1, ModemSilent
<1>4. up \in BOOLEAN
  BY DEF ListsInv, EnvOK
<1> QED BY <1>2, <1>3, <1>4

\* A call of the modem changes, ends or stays.
LEMMA CallMoves ==
    ASSUME ListsInv, Following, NEW s \in Slots, NEW i \in Indexes, Seen \subseteq Seen', NEW e,
           Live(e) => /\ Live(modem[s][i]) /\ StepOK(modem[s][i], e) /\ e.num = modem[s][i].num
                      /\ Rings(modem[s][i]) /\ ~Rings(e) =>
                             Rings(calls[s][i]) /\ calls[s][i].num = modem[s][i].num
    PROVE  MovesOn(s, i, e)
<1>1. Live(modem[s][i]) => modem[s][i].num \in Seen
  <2>1. UsedOK(View(queue, s, i), calls[s][i], modem[s][i], Seen)
    BY DEF Following, PlaceOK, Fits
  <2>2. 0 \in Positions(View(queue, s, i)) /\ At(View(queue, s, i), modem[s][i], 0) = modem[s][i]
    BY DEF Positions, At
  <2> QED BY <2>1, <2>2 DEF UsedOK
<1>2. ~Live(e) => StepOK(NoCall, e)
  BY StepFacts
<1> QED BY <1>1, <1>2 DEF MovesOn, Moves

\* A call of the modem stays,
LEMMA CallStays ==
    ASSUME ListsInv, Following, NEW s \in Slots, NEW i \in Indexes, Seen \subseteq Seen'
    PROVE  MovesOn(s, i, modem[s][i])
<1>1. StepOK(modem[s][i], modem[s][i])
  BY StepFacts
<1> QED BY <1>1, CallMoves

\* or ends.
LEMMA CallEnds ==
    ASSUME ListsInv, Following, NEW s \in Slots, NEW i \in Indexes, Seen \subseteq Seen'
    PROVE  MovesOn(s, i, NoCall)
<1>1. ~Live(NoCall)
  BY DEF Live, NoCall
<1> QED BY <1>1, CallMoves

Dials(c) == c.st \in {"DIALING", "ALERTING"}

\* What the modem's own steps have in common; only one of them takes up a dial.
ModemMoves(s) ==
    \E cs \in [Indexes -> ModemCalls] :
        /\ ModemBecomes(s, cs) /\ \A i \in Indexes : MovesOn(s, i, cs[i])
        /\ Dialling' /\ Seen \subseteq Seen'
        /\ \A i \in Indexes : ~Live(modem[s][i]) /\ Dials(cs[i]) =>
               dialReq[s] # 0 /\ cs[i].num = dialReq[s]
        /\ \/ dialReq' = dialReq
           \/ /\ up /\ clearing = {} /\ dialReq' = [dialReq EXCEPT ![s] = 0]
              /\ \E i \in Indexes : ~Live(modem[s][i]) /\ Dials(cs[i])

\* The dials are as they were.
LEMMA SameDials ==
    ASSUME ListsInv, Following, UNCHANGED dialReq, used'.calls = used.calls
    PROVE  Dialling' /\ Seen \subseteq Seen'
  BY DEF Dialling, Seen, Following, DialsOK

\* ModemHandsOver changes types only.
LEMMA HandsOverMoves ==
    ASSUME ListsInv, Following, NEW s \in Slots, ModemHandsOver(s) PROVE ModemMoves(s)
<1> DEFINE cs == [i \in Indexes |-> IF There(modem[s][i]) THEN [modem[s][i] EXCEPT !.type = "CS"] ELSE NoCall]
<1>1. modem[s] \in [Indexes -> ModemCalls]
  BY DEF ListsInv, EnvOK
<1>2. \A i \in Indexes : There(modem[s][i]) => [modem[s][i] EXCEPT !.type = "CS"] \in ModemCalls
  BY <1>1 DEF ModemCalls, There, NoCall, Types
<1>3. cs \in [Indexes -> ModemCalls]
  BY <1>2 DEF ModemCalls
<1>4. ModemBecomes(s, cs) /\ Dialling' /\ Seen \subseteq Seen' /\ dialReq' = dialReq
  <2>1. used' = [used EXCEPT !.changes = @ + 1] /\ UNCHANGED dialReq
    BY DEF ModemHandsOver
  <2>2. used'.calls = used.calls
    BY <2>1 DEF ListsInv, EnvOK
  <2> QED BY <2>1, <2>2, SameDials DEF ModemHandsOver
<1>5. ASSUME NEW i \in Indexes PROVE MovesOn(s, i, cs[i])
  <2>1. CASE There(modem[s][i])
    <3> DEFINE d == modem[s][i]
    <3>1. d \in [st: States, type: Types, num: Nums] /\ Live(d)
      BY <1>1, <2>1 DEF ModemCalls, There, Live, NoCall, States
    <3>2. cs[i].st = d.st /\ cs[i].num = d.num
      BY <2>1, <3>1
    <3>3. StepOK(d, cs[i]) /\ (Rings(cs[i]) <=> Rings(d))
      BY <3>1, <3>2, StepFacts DEF StepOK, Rings, Live
    <3> HIDE DEF cs
    <3> QED BY <1>4, <3>1, <3>2, <3>3, CallMoves
  <2>2. CASE ~There(modem[s][i])
    BY <1>4, <2>2, CallEnds
  <2> QED BY <2>1, <2>2
<1>6. \A i \in Indexes : ~Live(modem[s][i]) => ~Dials(cs[i])
  <2>1. \A d \in ModemCalls : There(d) => Live(d)
    BY DEF ModemCalls, There, Live, NoCall, States
  <2>2. ~Dials(NoCall)
    BY DEF Dials, NoCall
  <2> QED BY <1>1, <2>1, <2>2
<1> HIDE DEF cs
<1> QED BY <1>3, <1>4, <1>5, <1>6 DEF ModemMoves

\* ModemChanges: a call moves on, or ends.
LEMMA ChangesMoves ==
    ASSUME ListsInv, Following, NEW s \in Slots, ModemChanges(s) PROVE ModemMoves(s)
<1>1. modem[s] \in [Indexes -> ModemCalls]
  BY DEF ListsInv, EnvOK
<1>2. Dialling' /\ Seen \subseteq Seen' /\ dialReq' = dialReq
  <2>1. used' = [used EXCEPT !.changes = @ + 1] /\ UNCHANGED dialReq
    BY DEF ModemChanges
  <2>2. used'.calls = used.calls
    BY <2>1 DEF ListsInv, EnvOK
  <2> QED BY <2>1, <2>2, SameDials
<1> DEFINE moved(i, st) == [j \in Indexes |->
                    IF j = i THEN [modem[s][i] EXCEPT !.st = st]
                    ELSE IF st = "ACTIVE" /\ modem[s][j].st = "ACTIVE"
                    THEN [modem[s][j] EXCEPT !.st = "HOLDING"]
                    ELSE modem[s][j]]
<1>3. PICK i \in Indexes :
         /\ There(modem[s][i])
         /\ \/ \E st \in NextStates(s, i) : ModemBecomes(s, moved(i, st))
            \/ ModemBecomes(s, [modem[s] EXCEPT ![i] = NoCall])
  BY DEF ModemChanges
<1>4. \A j \in Indexes : There(modem[s][j]) =>
         modem[s][j] \in [st: States, type: Types, num: Nums] /\ Live(modem[s][j])
  BY <1>1 DEF ModemCalls, There, Live, NoCall, States
<1>5. CASE \E st \in NextStates(s, i) : ModemBecomes(s, moved(i, st))
  <2>1. PICK st \in NextStates(s, i) : ModemBecomes(s, moved(i, st))
    BY <1>5
  <2>2. st \in States
    BY DEF NextStates, States
  <2>3. \A j \in Indexes, x \in States : There(modem[s][j]) => [modem[s][j] EXCEPT !.st = x] \in ModemCalls
    BY <1>1 DEF ModemCalls, There, NoCall
  <2>4. \A j \in Indexes : modem[s][j].st = "ACTIVE" => There(modem[s][j])
    BY DEF There
  <2>5. "HOLDING" \in States
    BY DEF States
  <2>6. moved(i, st) \in [Indexes -> ModemCalls]
    BY <1>1, <1>3, <2>2, <2>3, <2>4, <2>5
  <2>7. MovesOn(s, i, moved(i, st)[i])
    <3> DEFINE d == modem[s][i]
               e == moved(i, st)[i]
    <3>1. Live(d) /\ e.st = st /\ e.num = d.num
      BY <1>3, <1>4
    <3>2. StepOK(d, e) /\ (Rings(d) /\ ~Rings(e) => Rings(calls[s][i]) /\ calls[s][i].num = d.num)
      <4> HIDE DEF moved, e
      <4> QED BY <3>1 DEF StepOK, Rings, RingingStates, Live, NextStates
    <3> HIDE DEF moved, e
    <3> QED BY <1>2, <3>1, <3>2, CallMoves DEF e
  <2>8. ASSUME NEW j \in Indexes, j # i PROVE MovesOn(s, j, moved(i, st)[j])
    <3>1. CASE st = "ACTIVE" /\ modem[s][j].st = "ACTIVE"
      <4> DEFINE d == modem[s][j]
                 e == moved(i, st)[j]
      <4>1. Live(d) /\ e.st = "HOLDING" /\ e.num = d.num /\ d.st = "ACTIVE"
        BY <1>4, <2>4, <2>8, <3>1
      <4>2. StepOK(d, e) /\ ~Rings(d)
        <5> HIDE DEF moved, e
        <5> QED BY <4>1 DEF StepOK, Rings, RingingStates, Live
      <4> HIDE DEF moved, e
      <4> QED BY <1>2, <4>1, <4>2, CallMoves DEF e
    <3>2. CASE ~(st = "ACTIVE" /\ modem[s][j].st = "ACTIVE")
      <4>1. moved(i, st)[j] = modem[s][j]
        BY <2>8, <3>2
      <4> HIDE DEF moved
      <4> QED BY <1>2, <4>1, CallStays
    <3> QED BY <3>1, <3>2
  <2>9. \A j \in Indexes : ~Live(modem[s][j]) => ~Dials(moved(i, st)[j])
    <3> SUFFICES ASSUME NEW j \in Indexes, ~Live(modem[s][j]) PROVE ~Dials(moved(i, st)[j])
      OBVIOUS
    <3>1. j # i /\ modem[s][j].st # "ACTIVE" /\ ~Dials(modem[s][j])
      BY <1>3, <1>4 DEF Live, Dials
    <3> QED BY <3>1
  <2> HIDE DEF moved
  <2>10. \A j \in Indexes : MovesOn(s, j, moved(i, st)[j])
    BY <2>7, <2>8
  <2> QED BY <1>2, <2>1, <2>6, <2>9, <2>10 DEF ModemMoves
<1>6. CASE ModemBecomes(s, [modem[s] EXCEPT ![i] = NoCall])
  <2> DEFINE cs == [modem[s] EXCEPT ![i] = NoCall]
  <2>1. cs \in [Indexes -> ModemCalls]
    BY <1>1 DEF ModemCalls
  <2>2. \A j \in Indexes : MovesOn(s, j, cs[j])
    BY <1>1, <1>2, CallStays, CallEnds
  <2>3. \A j \in Indexes : ~Live(modem[s][j]) => ~Dials(cs[j])
    <3>1. ~Dials(NoCall) /\ \A c : Dials(c) => Live(c)
      BY DEF Dials, NoCall, Live
    <3> QED BY <1>1, <3>1
  <2>4. ModemBecomes(s, cs)
    BY <1>6
  <2> HIDE DEF cs
  <2> QED BY <1>2, <2>1, <2>2, <2>3, <2>4 DEF ModemMoves
<1> QED BY <1>3, <1>5, <1>6

\* ModemRings: a call begins by ringing.
LEMMA RingsMoves ==
    ASSUME ListsInv, Following, Races = {}, NEW s \in Slots, ModemRings(s) PROVE ModemMoves(s)
<1> DEFINE st == IF \A j \in Indexes : ~There(modem[s][j]) THEN "INCOMING" ELSE "WAITING"
           c == [st |-> st, type |-> "IMS", num |-> used.calls + 1]
<1>1. PICK i \in Indexes : FreeIndex(s, i) /\ ModemBecomes(s, [modem[s] EXCEPT ![i] = c])
  BY DEF ModemRings
<1>2. /\ used.calls + 1 \in Nums /\ used.calls \in Nat
      /\ used' = [used EXCEPT !.calls = @ + 1] /\ dialReq' = dialReq
      /\ up /\ clearing = {}
  BY ListsAssumption DEF ModemRings, ListsInv, EnvOK, Nums
<1>3. used'.calls = used.calls + 1
  BY <1>2 DEF ListsInv, EnvOK
<1>4. c \in ModemCalls /\ Rings(c) /\ c.num = used.calls + 1
  BY <1>2 DEF ModemCalls, States, Types, Rings, RingingStates
<1> DEFINE cs == [modem[s] EXCEPT ![i] = c]
<1>5. modem[s] \in [Indexes -> ModemCalls]
  BY DEF ListsInv, EnvOK
<1> HIDE DEF c
<1>6. cs \in [Indexes -> ModemCalls]
  BY <1>4, <1>5
<1>7. \A t \in Slots : dialReq[t] \in Nat /\ dialReq[t] <= used.calls
  BY DEF Following, DialsOK, ListsInv, EnvOK, Nums
<1>8. Dialling'
  <2>1. \A a, b \in Slots : dialReq[a] # 0 /\ dialReq[b] # 0 => a = b
    BY DEF Following, DialsOK
  <2> QED BY <1>2, <1>3, <1>7, <2>1 DEF Dialling
<1>9. Seen \subseteq Seen' /\ c.num \notin Seen /\ c.num \in Seen'
  BY <1>2, <1>3, <1>4, <1>7 DEF Seen, Nums
<1>10. MovesOn(s, i, c)
  <2>1. ~Live(modem[s][i])
    BY <1>1, StepFacts DEF FreeIndex
  <2>2. StepOK(NoCall, c)
    BY <1>4 DEF StepOK, Rings, RingingStates, Live, NoCall
  <2>3. Open(s, i)
    BY <1>2 DEF Open
  <2> QED BY <1>9, <2>1, <2>2, <2>3 DEF MovesOn, Moves
<1>11. \A j \in Indexes : MovesOn(s, j, cs[j])
  BY <1>5, <1>9, <1>10, CallStays
<1>12. \A j \in Indexes : ~Live(modem[s][j]) => ~Dials(cs[j])
  <2>1. ~Dials(c) /\ \A d : Dials(d) => Live(d)
    BY <1>4 DEF Dials, Live, Rings, RingingStates
  <2> QED BY <1>5, <2>1
<1>13. ModemBecomes(s, cs)
  BY <1>1
<1> HIDE DEF cs
<1> QED BY <1>2, <1>6, <1>8, <1>9, <1>11, <1>12, <1>13 DEF ModemMoves

\* Nothing is queued and everybody is heard: callDetailsInfo_ has what the modem has.
LEMMA AllListed ==
    ASSUME ListsInv, Following, queue = <<>>, NEW s \in Slots, NEW i \in Indexes, Open(s, i)
    PROVE  There(details[s][i]) <=> There(modem[s][i])
<1>1. DOMAIN View(queue, s, i) = {}
  BY DEF View
<1>2. FinalOK(details[s][i], modem[s][i], Open(s, i))
  BY <1>1 DEF Following, PlaceOK, Fits, Ordered, LastOK
<1>3. Live(details[s][i]) <=> Live(modem[s][i])
  BY <1>2 DEF FinalOK
<1>4. modem[s][i] \in ModemCalls /\ details[s][i] \in [st: States, type: Types] \cup {NoCall}
  BY Expand DEF ListsInv, EnvOK, Managers, Details
<1>5. There(modem[s][i]) <=> Live(modem[s][i])
  BY <1>4 DEF ModemCalls, There, Live, NoCall, States
<1>6. There(details[s][i]) <=> Live(details[s][i])
  BY <1>4 DEF There, Live, NoCall, States
<1> QED BY <1>3, <1>5, <1>6

\* The dial the modem has just taken up is ALERTING when it is first listed.
LEMMA DialAlerts ==
    ASSUME ListsInv, Following, up, clearing = {}, queue = <<>>, NEW s \in Slots,
           There(calls[s][InitIndex]), NEW i \in Indexes, ~There(modem[s][i]),
           NEW c, There(c), c.st = "ALERTING",
           ModemBecomes(s, [modem[s] EXCEPT ![i] = c])
    PROVE  FirstAlert(s, i)'
<1> DEFINE cs == [modem[s] EXCEPT ![i] = c]
<1>1. modem[s] \in [Indexes -> ModemCalls]
  BY DEF ListsInv, EnvOK
<1>2. cs[i] = c /\ DOMAIN cs = Indexes /\ \A j \in Indexes \ {i} : cs[j] = modem[s][j]
  BY <1>1
<1>3. /\ UNCHANGED <<calls, details>>
      /\ \E l \in ListsOf(s, cs) : queue' = OnUpdateCallsReportInfo(queue, [slot |-> s, calls |-> l])
  BY DEF ModemBecomes
<1> HIDE DEF cs
<1>4. PICK l \in ListsOf(s, cs) : queue' = OnUpdateCallsReportInfo(queue, [slot |-> s, calls |-> l])
  BY <1>3
<1>5. \A j \in Indexes : l[j] = cs[j]
  <2>1. {j \in Indexes : There(modem[s][j]) /\ ~There(cs[j])} = {}
    BY <1>2
  <2>2. PICK named \in SUBSET {j \in Indexes : There(modem[s][j]) /\ ~There(cs[j])} :
           l = [j \in Indexes |-> IF j \in named THEN Ended ELSE cs[j]]
    BY DEF ListsOf
  <2> QED BY <2>1, <2>2
<1>6. queue' = <<[slot |-> s, calls |-> l]>>
  BY <1>2, <1>4, <1>5 DEF OnUpdateCallsReportInfo
<1>7. Head(queue').calls = l
  BY <1>6
<1>8. \A j \in Indexes : There(details[s][j]) <=> There(modem[s][j])
  BY AllListed DEF Open
<1>9. \A j \in Indexes : There(modem[s][j]) => Live(modem[s][j])
  <2>1. \A d \in ModemCalls : There(d) => Live(d)
    BY DEF ModemCalls, There, Live, NoCall, States
  <2> QED BY <1>1, <2>1
<1> QED BY <1>2, <1>3, <1>5, <1>7, <1>8, <1>9 DEF FirstAlert

\* ModemAcceptsDial: the dial is listed as DIALING, or ALERTING with the dial in the table.
LEMMA AcceptsDialMoves ==
    ASSUME ListsInv, Following, Races = {}, NEW s \in Slots, ModemAcceptsDial(s)
    PROVE  ModemMoves(s)
<1> DEFINE call(st) == [st |-> st, type |-> "IMS", num |-> dialReq[s]]
<1>1. PICK i \in Indexes, st \in {"DIALING", "ALERTING"} :
         /\ FreeIndex(s, i) /\ ModemBecomes(s, [modem[s] EXCEPT ![i] = call(st)])
         /\ st = "ALERTING" => There(calls[s][InitIndex]) /\ queue = <<>>
  BY DEF ModemAcceptsDial
<1>2. /\ up /\ clearing = {} /\ dialReq[s] # 0 /\ UNCHANGED used
      /\ dialReq' = [dialReq EXCEPT ![s] = 0]
  BY DEF ModemAcceptsDial
<1> DEFINE c == call(st)
           cs == [modem[s] EXCEPT ![i] = c]
<1>3. \A t \in Slots : dialReq[t] \in Nums \cup {0} /\ dialReq[t] <= used.calls
  BY DEF Following, DialsOK, ListsInv, EnvOK
<1>4. c \in ModemCalls /\ c.num = dialReq[s] /\ c.st = st /\ Live(c) /\ There(c)
  BY <1>2, <1>3 DEF ModemCalls, States, Types, Live, There
<1>5. modem[s] \in [Indexes -> ModemCalls] /\ dialReq \in [Slots -> Nums \cup {0}]
  BY DEF ListsInv, EnvOK
<1> HIDE DEF c
<1>6. cs \in [Indexes -> ModemCalls]
  BY <1>4, <1>5
<1>7. \A a, b \in Slots : dialReq[a] # 0 /\ dialReq[b] # 0 => a = b
  BY DEF Following, DialsOK
<1>8. \A t \in Slots : dialReq'[t] = 0
  BY <1>2, <1>5, <1>7
<1>9. Dialling'
  <2>1. used.calls \in Nat
    BY DEF ListsInv, EnvOK
  <2> QED BY <1>2, <1>8, <2>1 DEF Dialling
<1>10. Seen \subseteq Seen' /\ c.num \notin Seen /\ c.num \in Seen'
  <2>1. \A n \in Nums : n # 0
    BY DEF Nums
  <2>2. c.num \in Nums
    BY <1>2, <1>3, <1>4
  <2> QED BY <1>2, <1>3, <1>4, <1>8, <2>1, <2>2 DEF Seen
<1>11. MovesOn(s, i, c)
  <2>1. ~Live(modem[s][i]) /\ ~There(modem[s][i])
    BY <1>1, StepFacts DEF FreeIndex
  <2>2. StepOK(NoCall, c) \/ (queue = <<>> /\ FirstAlert(s, i)')
    <3>1. CASE st = "DIALING"
      BY <1>4, <3>1 DEF StepOK, Rings, RingingStates, Live, NoCall
    <3>2. CASE st = "ALERTING"
      BY <1>1, <1>2, <1>4, <2>1, <3>2, DialAlerts DEF c
    <3> QED BY <3>1, <3>2
  <2>3. Open(s, i)
    BY <1>2 DEF Open
  <2> QED BY <1>10, <2>1, <2>2, <2>3 DEF MovesOn, Moves
<1>12. \A j \in Indexes : MovesOn(s, j, cs[j])
  BY <1>5, <1>10, <1>11, CallStays
<1>13. ModemBecomes(s, cs)
  BY <1>1 DEF c
<1>14. /\ \A j \in Indexes : ~Live(modem[s][j]) /\ Dials(cs[j]) =>
              dialReq[s] # 0 /\ cs[j].num = dialReq[s]
       /\ ~Live(modem[s][i]) /\ Dials(cs[i])
  <2>1. Dials(c) /\ \A d : Dials(d) => Live(d)
    BY <1>4 DEF Dials, Live
  <2>2. ~Live(modem[s][i])
    BY <1>1, StepFacts DEF FreeIndex
  <2> QED BY <1>2, <1>4, <1>5, <2>1, <2>2
<1> HIDE DEF cs
<1> QED BY <1>2, <1>6, <1>9, <1>10, <1>12, <1>13, <1>14 DEF ModemMoves

\* The mirror follows each of them.
LEMMA FollowModem ==
    ASSUME ListsInv, ListsInv', Following, Races = {}, NEW s \in Slots, ModemMoves(s)
    PROVE  Mirrored
  BY ModemMirrored DEF ModemMoves
-----------------------------------------------------------------------------
(* cellular_call is back *)

\* OnAddSystemAbility: what is not about to be cleared is not in the table.
LEMMA FollowAdd ==
    ASSUME ListsInv, Following, Races = {}, OnAddSystemAbility PROVE Mirrored
<1>1. /\ UNCHANGED <<calls, queue, details, screened, work, busy, modem, dialReq, used>>
      /\ queue = <<>> /\ ~busy /\ ~up /\ up'
      /\ clearing' = {p \in Slots \X (0..MaxIdx) : There(calls[p[1]][p[2]])}
  BY DEF OnAddSystemAbility, manager
<1>2. screened = {}
  BY <1>1 DEF Following, DialsOK
<1>3. ASSUME NEW s \in Slots, NEW i \in Indexes PROVE PlaceOK(s, i)'
  <2> DEFINE v == View(queue, s, i)
             o == details[s][i]
             c == calls[s][i]
             d == modem[s][i]
  <2>1. /\ Seen' = Seen /\ (Excused(s, i)' <=> Excused(s, i)) /\ (Hidden(s, i)' <=> Hidden(s, i))
        /\ (Here(s)' <=> Here(s)) /\ Lastly(s, i)' = Lastly(s, i) /\ PlaceOK(s, i)
    BY <1>1 DEF Seen, Excused, FirstAlert, Done, Hidden, Here, Lastly, Following
  <2>2. Open(s, i)' /\ Live(o) => Live(d)
    <3> SUFFICES ASSUME Open(s, i)', Live(o) PROVE FALSE
      OBVIOUS
    <3>1. <<s, i>> \in Slots \X (0..MaxIdx)
      BY PlaceTypes
    <3>2. ~There(c)
      BY <1>1, <3>1 DEF Open
    <3>3. Lastly(s, i) = o /\ ~Hidden(s, i)
      BY <1>1, <1>2 DEF Lastly, Done, Here, Hidden
    <3>4. Look(c) = Look(o)
      BY <2>1, <3>3 DEF PlaceOK, Agrees
    <3> QED BY <3>2, <3>4 DEF Look, Live, There, NoCall
  <2>3. DOMAIN v = {}
    BY <1>1 DEF View
  <2>4. Fits(v, o, d, c, Open(s, i), Excused(s, i), Seen, Hidden(s, i), Here(s))
        /\ Agrees(Lastly(s, i), c, Hidden(s, i))
    BY <2>1 DEF PlaceOK
  <2>5. PairOK(v) /\ FirstOK(v, o, Excused(s, i)') /\ RingOK(v, c, d) /\ NumOK(v, c, d)
    <3>1. FirstOK(v, o, Excused(s, i)')
      BY <2>3 DEF FirstOK
    <3> QED BY <2>4, <3>1 DEF Fits, Ordered
  <2>6. LastOK(v, o, d, Open(s, i)')
    <3>1. FinalOK(o, d, Open(s, i))
      BY <2>3, <2>4 DEF Fits, Ordered, LastOK
    <3>2. FinalOK(o, d, Open(s, i)')
      BY <2>2, <3>1 DEF FinalOK
    <3> QED BY <2>3, <3>2 DEF LastOK
  <2>7. UsedOK(v, c, d, Seen') /\ ScreenOK(v, o, c, d, Hidden(s, i)', Here(s)')
        /\ Agrees(Lastly(s, i)', c, Hidden(s, i)')
    BY <2>1, <2>4 DEF Fits, ScreenOK, Agrees
  <2>8. Fits(v, o, d, c, Open(s, i)', Excused(s, i)', Seen', Hidden(s, i)', Here(s)')
    BY <2>5, <2>6, <2>7 DEF Fits, Ordered
  <2> QED BY <1>1, <2>7, <2>8 DEF PlaceOK
<1>4. WorkOK'
  BY <1>1 DEF Following, WorkOK
<1>5. DialsOK'
  BY <1>1 DEF Following, DialsOK
<1>6. Stays
  BY <1>1 DEF Stays
<1> QED BY <1>3, <1>4, <1>5, <1>6 DEF Mirrored, Following, Obeys

\* What ClearAllCalls makes of the calls c and d, the modem's and the listed one.
Cleared(s, i, c, d) ==
    \/ c = NoCall /\ d = Ended
    \/ c = modem[s][i] /\ d = modem[s][i] /\ <<s, i>> \notin clearing

\* ClearAllCalls lists the calls of one slot, the cleared ones as DISCONNECTED.
LEMMA ClearIs ==
    ASSUME ListsInv, ClearReport = "list", ClearAllCalls
    PROVE  \E s \in Slots, cs \in [Indexes -> ModemCalls], q \in Queues, l \in Lists :
               /\ modem' = [modem EXCEPT ![s] = cs] /\ l.slot = s
               /\ Grown(queue, q) /\ (Singles(queue) => Singles(q))
               /\ \A i \in Indexes : Cleared(s, i, cs[i], l.calls[i])
               /\ queue' = OnUpdateCallsReportInfo(q, l)
               /\ clearing' = {p \in clearing : p[1] # s}
               /\ Ending(queue, q)
               /\ <<s, InitIndex>> \in clearing =>
                      /\ Len(q) = Len(queue) + 1 /\ ~IsList(q[Len(q)])
                      /\ q[Len(q)].st = "DISCONNECTED" /\ q[Len(q)].slot = s
<1> DEFINE ended(s, i) == <<s, i>> \in clearing
           left(s) == [i \in Indexes |-> IF ended(s, i) THEN NoCall ELSE modem[s][i]]
           single(s, i) == Report(s, i, "DISCONNECTED", "IMS", 0)
           s == CHOOSE s \in Slots : \E p \in clearing : p[1] = s
           inits == IF ended(s, InitIndex) THEN <<single(s, InitIndex)>> ELSE <<>>
           l == [slot |-> s, calls |-> [i \in Indexes |-> IF ended(s, i) THEN Ended ELSE modem[s][i]]]
           q == queue \o inits
           cs == left(s)
<1>1. /\ modem' = [modem EXCEPT ![s] = cs] /\ queue' = OnUpdateCallsReportInfo(q, l)
      /\ clearing # {} /\ clearing' = {p \in clearing : p[1] # s}
  BY DEF ClearAllCalls
<1>2. s \in Slots
  <2>1. \E t \in Slots : \E p \in clearing : p[1] = t
    BY <1>1 DEF ListsInv, EnvOK
  <2> QED BY <2>1
<1>3. queue \in Queues
  BY Expand DEF ListsInv, Managers, Queues
<1>4. /\ single(s, InitIndex) \in SoundReports /\ single(s, InitIndex).idx = InitIndex
      /\ single(s, InitIndex).st = "DISCONNECTED" /\ single(s, InitIndex).slot = s
  BY <1>2, PlaceTypes DEF Report, SoundReports, Reports, Types
<1>5. /\ q \in Queues /\ Grown(queue, q) /\ (Singles(queue) => Singles(q))
      /\ Ending(queue, q)
      /\ <<s, InitIndex>> \in clearing =>
             /\ Len(q) = Len(queue) + 1 /\ ~IsList(q[Len(q)])
             /\ q[Len(q)].st = "DISCONNECTED" /\ q[Len(q)].slot = s
  <2> HIDE DEF single
  <2>1. CASE ended(s, InitIndex)
    <3>1. q = Append(queue, single(s, InitIndex))
      BY <1>3, <2>1 DEF Queues
    <3>2. Append(queue, single(s, InitIndex)) \in Queues
      BY <1>3, <1>4 DEF Queues
    <3>3. Len(q) = Len(queue) + 1 /\ q[Len(q)] = single(s, InitIndex) /\ Len(queue) \in Nat
      BY <1>3, <3>1 DEF Queues
    <3>4. ~IsList(single(s, InitIndex))
      BY <1>4, QueueTypes
    <3>5. \A k \in 1..Len(q) : k \in 1..Len(queue) \/ k = Len(q)
      BY <3>3
    <3>6. Ending(queue, q)
      BY <1>4, <3>3, <3>5 DEF Ending
    <3> HIDE DEF q, s
    <3> QED BY <1>3, <1>4, <3>1, <3>2, <3>3, <3>4, <3>6, GrownOne
  <2>2. CASE ~ended(s, InitIndex)
    <3>1. q = queue
      BY <1>3, <2>2 DEF Queues
    <3> QED BY <1>3, <2>2, <3>1, GrownSame DEF Ending
  <2> QED BY <2>1, <2>2
<1>6. \A i \in Indexes : modem[s][i] \in ModemCalls
  BY <1>2 DEF ListsInv, EnvOK
<1>7. l \in Lists /\ l.slot = s
  BY <1>2, <1>6 DEF Lists
<1>8. cs \in [Indexes -> ModemCalls]
  BY <1>6 DEF ModemCalls
<1>9. \A i \in Indexes : Cleared(s, i, cs[i], l.calls[i])
  BY DEF Cleared
<1> HIDE DEF s, cs, q, l
<1> QED BY <1>1, <1>2, <1>5, <1>7, <1>8, <1>9

\* ClearAllCalls.
LEMMA FollowClear ==
    ASSUME ListsInv, Following, ClearReport = "list", ClearAllCalls PROVE Mirrored
<1>1. ListsInv'
  BY StepClear DEF Sound
<1>2. /\ UNCHANGED <<calls, details, screened, work, busy, dialReq, up, used>> /\ up
      /\ up' = up
  BY DEF ClearAllCalls
<1>3. PICK s \in Slots, cs \in [Indexes -> ModemCalls], q \in Queues, l \in Lists :
               /\ modem' = [modem EXCEPT ![s] = cs] /\ l.slot = s
               /\ Grown(queue, q) /\ (Singles(queue) => Singles(q))
               /\ \A i \in Indexes : Cleared(s, i, cs[i], l.calls[i])
               /\ queue' = OnUpdateCallsReportInfo(q, l)
               /\ clearing' = {p \in clearing : p[1] # s}
  BY ClearIs
<1>4. \A t \in Slots \ {s}, i \in Indexes : Open(t, i)' => Open(t, i)
  BY <1>2, <1>3 DEF Open
<1>5. Dialling' /\ Seen \subseteq Seen'
  BY <1>2, SameDials
<1>6. CASE \E i \in Indexes : There(l.calls[i])
  <2>1. queue' = Append(q, l)
    BY <1>3, <1>6 DEF OnUpdateCallsReportInfo
  <2>2. ASSUME NEW i \in Indexes PROVE ListedAs(s, i, q, l.calls[i], cs[i])
    <3>1. MovesOn(s, i, cs[i])
      BY <1>3, <1>5, CallStays, CallEnds DEF Cleared
    <3>2. ~Live(NoCall) /\ ~Live(Ended)
      BY DEF Live, NoCall, Ended
    <3>3. ~Live(modem[s][i]) => StepOK(NoCall, cs[i])
      BY <1>3, <3>2, StepFacts DEF Cleared
    <3> QED BY <1>3, <3>1, <3>2, <3>3 DEF ListedAs, Cleared
  <2> QED BY <1>1, <1>2, <1>3, <1>4, <1>5, <2>1, <2>2, ListPosted
<1>7. CASE \A i \in Indexes : ~There(l.calls[i])
  <2>1. queue' = q
    BY <1>3, <1>7 DEF OnUpdateCallsReportInfo
  <2>2. \A i \in Indexes : cs[i] = modem[s][i] /\ <<s, i>> \notin clearing
    BY <1>3, <1>7 DEF Cleared, There, Ended
  <2>3. modem' = modem
    <3>1. modem \in [Slots -> [Indexes -> ModemCalls]]
      BY DEF ListsInv, EnvOK
    <3>2. cs = modem[s]
      <4>1. modem[s] = [i \in Indexes |-> modem[s][i]]
        BY <3>1
      <4>2. cs = [i \in Indexes |-> cs[i]]
        OBVIOUS
      <4>3. [i \in Indexes |-> cs[i]] = [i \in Indexes |-> modem[s][i]]
        BY <2>2
      <4> QED BY <4>1, <4>2, <4>3
    <3> QED BY <1>3, <3>1, <3>2
  <2>4. \A t \in Slots, i \in Indexes : Open(t, i)' => Open(t, i)
    BY <1>2, <1>4, <2>2 DEF Open
  <2>5. DialsOK'
    BY <1>2, <1>3, <1>5, <2>1 DEF DialsOK, Dialling, Following
  <2>6. Keeps(Manager, Manager')
    BY <1>2, Expand DEF Keeps, SameCall
  <2> QED BY <1>1, <1>2, <1>3, <1>5, <2>1, <2>3, <2>4, <2>5, <2>6, StillMirrored
<1> QED BY <1>6, <1>7
-----------------------------------------------------------------------------
(* The refinement *)

\* At the start there is nothing to follow.
LEMMA FollowInit ==
    ASSUME Init PROVE Following /\ Mirror!MirrorInit
<1>1. /\ calls = [s \in Slots |-> [i \in 0..MaxIdx |-> NoCall]]
      /\ details = [s \in Slots |-> [i \in Indexes |-> NoCall]]
      /\ modem = [s \in Slots |-> [i \in Indexes |-> NoCall]]
      /\ dialReq = [s \in Slots |-> 0] /\ used.calls = 0
      /\ queue = <<>> /\ work = <<>> /\ ~busy /\ screened = {}
  BY DEF Init
<1>2. ~There(NoCall) /\ ~Live(NoCall) /\ ~Rings(NoCall) /\ Look(NoCall) = NoCall
  BY DEF There, Live, Rings, RingingStates, Look, NoCall
<1>3. ASSUME NEW s \in Slots, NEW i \in Indexes PROVE PlaceOK(s, i)
  <2>1. calls[s][i] = NoCall /\ details[s][i] = NoCall /\ modem[s][i] = NoCall
    BY <1>1, PlaceTypes
  <2>2. DOMAIN View(queue, s, i) = {}
    BY <1>1 DEF View
  <2>3. Lastly(s, i) = NoCall /\ ~Hidden(s, i)
    BY <1>1, <2>1 DEF Lastly, Done, Here, Hidden
  <2>4. StepOK(NoCall, NoCall)
    BY StepFacts
  <2> DEFINE v == View(queue, s, i)
  <2> HIDE DEF v
  <2>5. DOMAIN v = {} /\ Positions(v) = {0} /\ At(v, NoCall, 0) = NoCall
    BY <2>2 DEF v, Positions, At
  <2>6. Ordered(v, NoCall, NoCall, NoCall, Open(s, i), Excused(s, i))
    BY <1>2, <2>4, <2>5 DEF Ordered, PairOK, FirstOK, LastOK, FinalOK, RingOK, NumOK
  <2>7. UsedOK(v, NoCall, NoCall, Seen) /\ ScreenOK(v, NoCall, NoCall, NoCall, Hidden(s, i), Here(s))
    BY <1>2, <2>3, <2>5 DEF UsedOK, ScreenOK
  <2>8. Agrees(Lastly(s, i), calls[s][i], Hidden(s, i))
    BY <2>1, <2>3 DEF Agrees
  <2> QED BY <2>1, <2>6, <2>7, <2>8 DEF PlaceOK, Fits, v
<1>4. WorkOK
  BY <1>1 DEF WorkOK
<1>5. DialsOK
  BY <1>1 DEF DialsOK, Singles
<1>6. Mirror!MirrorInit
  <2>1. Mirror!mirrorVars = <<LooksOf(calls), Inbox(queue), Refused(screened)>>
    BY MirrorIs
  <2>2. LooksOf(calls) = [s \in Slots |-> [i \in Indexes |-> NoCall]]
    BY <1>1, <1>2, PlaceTypes DEF LooksOf
  <2>3. Inbox(queue) = <<>> /\ Refused(screened) = {}
    <3>1. ListsIn(queue) = {} /\ Len(queue) = 0
      BY <1>1 DEF ListsIn
    <3>2. Ascending(ListsIn(queue), Len(queue)) = <<>>
      BY <3>1, AscendingStep
    <3>3. Inbox(queue) = [k \in DOMAIN <<>> |-> Entry(queue[<<>>[k]])]
      BY <3>2 DEF Inbox
    <3>4. Inbox(queue) = <<>>
      BY <3>3
    <3> QED BY <1>1, <3>4 DEF Refused
  <2> QED BY <2>2, <2>3 DEF Mirror!MirrorInit, LooksOf, Inbox, Refused, Entry, ListsIn
<1> QED BY <1>3, <1>4, <1>5, <1>6 DEF Following

\* Every step of the specification is one of the mirror's or none.
LEMMA FollowStep ==
    ASSUME ListsInv, Following, Races = {}, ClearReport = "list", [Next]_vars
    PROVE  Mirrored
<1>1. ListsInv'
  BY ListsStep DEF Sound
<1>2. CASE UNCHANGED vars
  <2>1. UNCHANGED <<calls, details, screened, work, busy, queue, modem, dialReq, up, clearing, used>>
    BY <1>2 DEF vars, manager, env
  <2>2. Grown(queue, queue')
    BY <2>1, GrownSame, Expand DEF ListsInv, Managers, Queues
  <2>3. Keeps(Manager, Manager')
    BY <2>1, Expand DEF Keeps, SameCall
  <2>4. Seen \subseteq Seen' /\ DialsOK' /\ \A s \in Slots, i \in Indexes : Open(s, i)' => Open(s, i)
    BY <2>1 DEF Seen, DialsOK, Following, Open
  <2> QED BY <1>1, <2>1, <2>2, <2>3, <2>4, StillMirrored
<1>3. CASE ReportQueue
  BY <1>3, FollowCallsReport, FollowListedCall, FollowFinish, FollowSingle DEF ReportQueue
<1>4. CASE Detection
  BY <1>4, FollowDetection
<1>5. CASE Modem
  BY <1>1, <1>5, FollowUserDials, FollowRefusesDial, FollowModem, AcceptsDialMoves, RingsMoves,
     ChangesMoves, HandsOverMoves DEF Modem
<1>6. CASE Service
  BY <1>6, FollowRemove, FollowAdd, FollowClear DEF Service
<1> QED BY <1>2, <1>3, <1>4, <1>5, <1>6 DEF Next

\* The table agrees with callDetailsInfo_ or the list at work, and the lists to come fit,
\* in every state.
THEOREM ListsFit ==
    ASSUME Races = {}, ClearReport = "list" PROVE Spec => []Following
<1>1. Init => Following
  BY FollowInit
<1>2. ListsInv /\ Following /\ [Next]_vars => Following'
  BY FollowStep DEF Mirrored
<1> QED BY <1>1, <1>2, ListsInvariant, PTL DEF Spec

\* CallStatusManager implements CallMirror: between two lists the table changes one call
\* at a time, only ever to what the oldest unfinished list says, and a list is finished
\* when the table agrees with it, however many slots, calls and queued lists there are.
THEOREM ListsFollowed ==
    ASSUME Races = {}, ClearReport = "list" PROVE Spec => FollowsTheLists
<1>1. Init => Mirror!MirrorInit
  BY FollowInit
<1>2. ListsInv /\ ListsInv' /\ Following /\ [Next]_vars => [Mirror!MirrorNext]_(Mirror!mirrorVars)
  BY FollowStep, ObeysMirror DEF Mirrored
<1> QED BY <1>1, <1>2, ListsInvariant, ListsFit, PTL DEF Spec, FollowsTheLists, Mirror!MirrorSpec
=============================================================================
