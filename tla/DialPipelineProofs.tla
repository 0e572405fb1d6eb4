-------------------------- MODULE DialPipelineProofs --------------------------
(***************************************************************************)
(* Proofs about DialPipeline, for every set of slots and requests and every *)
(* bound: the type invariant, GateHasOwner and PendingMoIsUnplaced, and, as *)
(* far as the races admitted allow, PendingHangupIsLive and DialedOnce.     *)
(*                                                                         *)
(* The handlers of the report queue are operators on the manager's state,  *)
(* so what one handler keeps is a relation Good(m, n) between the states   *)
(* before and after it.  The relation is transitive; each handler is shown *)
(* to satisfy it from the handlers it calls.  Its part Fine(m, n) is kept  *)
(* by the steps of the clients, the timers and the modems as well.         *)
(***************************************************************************)
EXTENDS DialPipeline, SequenceTheorems, TLAPS

Tables == UNION {[ids -> CallRec] : ids \in SUBSET (Nat \ {NoId})}

Managers == [calls: Tables, nextId: Nat, dialing: BOOLEAN, removing: BOOLEAN,
             pendingMo: Nat, pendingHangup: Nat, hangupTask: HangupTasks,
             needWaitHold: BOOLEAN, firstAdded: BOOLEAN, queue: Seq(Reports),
             req: [Slots -> Seq(ModemRequests)], sent: [Requests -> Nat]]

CallReports == {rep \in Reports : rep.kind = "call"}

\* Some report of the queue will reopen the gate.
Awaited(q) == \E k \in 1..Len(q) : WillReopen(q[k])

\* What ids refer to: the unplaced call is tabled without an index, the call
\* whose hang-up waits is another one, and no id is ahead of the counter.
Marked(m) ==
    /\ m.pendingMo # NoId => /\ m.pendingMo \in DOMAIN m.calls
                             /\ m.calls[m.pendingMo].idx = InitIndex
    /\ \A i \in DOMAIN m.calls : i <= m.nextId
    /\ m.pendingHangup <= m.nextId
    /\ m.pendingHangup # NoId => m.pendingHangup # m.pendingMo

\* What a handler, started in m, may do: it never closes the gate, drops no
\* report, marks only calls it creates, and keeps Marked.
Keeps(m, n) ==
    /\ n.dialing => m.dialing
    /\ Awaited(m.queue) => Awaited(n.queue)
    /\ m.nextId <= n.nextId
    /\ n.pendingMo \in {m.pendingMo, NoId} \/ n.pendingMo > m.nextId
    /\ "list" \notin AsWritten /\ Marked(m) => Marked(n)

\* The call whose hang-up waits is in the table.
Known(m) == m.pendingHangup # NoId => m.pendingHangup \in DOMAIN m.calls

\* It never sets the latch, it sends nothing but the waiting dial, and only as it
\* clears the latch, and it takes no call out of the table whose hang-up waits.
SentOn(m, n) == \/ n.sent = m.sent
                \/ /\ dialCallInfo \in Requests
                   /\ n.sent = [m.sent EXCEPT ![dialCallInfo] = @ + 1]
Serves(m, n) ==
    /\ n.needWaitHold => m.needWaitHold
    /\ n.sent = m.sent \/ (m.needWaitHold /\ ~n.needWaitHold /\ SentOn(m, n))
    /\ Known(m) => Known(n)

Fine(m, n) == n \in Managers /\ Keeps(m, n)
Good(m, n) == Fine(m, n) /\ Serves(m, n)
-----------------------------------------------------------------------------
(* The call table *)

\* A search returns a call it looked at, or none.
LEMMA FirstIn == ASSUME NEW ids PROVE First(ids) \in ids \cup {NoId}
  BY DEF First

\* Last picks a member of the set, or NoId when there is none.
LEMMA LastIn == ASSUME NEW ids PROVE Last(ids) \in ids \cup {NoId}
  BY DEF Last

\* The searches of the call table, by their results.
LEMMA SearchIn ==
  ASSUME NEW t, NEW x, NEW y
  PROVE  /\ GetOneCallObject(t, x) \in DOMAIN t \cup {NoId}
         /\ GetOneCallObjectByIndex(t, x) \in DOMAIN t \cup {NoId}
         /\ GetOneCallObjectByIndexAndSlotId(t, x, y) \in DOMAIN t \cup {NoId}
  BY FirstIn, LastIn DEF GetOneCallObject, GetOneCallObjectByIndex,
     GetOneCallObjectByIndexAndSlotId, InRun, AtIndex, AtPlace

\* The call to fail after a dial that did not start is in the table.
LEMMA GetDialingCallIn == ASSUME NEW t PROVE GetDialingCall(t) \in DOMAIN t \cup {NoId}
  BY SearchIn DEF GetDialingCall

\* The two ways of saying that t is a call table.
LEMMA TablesAre == ASSUME NEW t PROVE t \in Tables <=> IsTable(t)
  <1>1. ASSUME t \in Tables PROVE IsTable(t)
    <2>1. PICK ids \in SUBSET (Nat \ {NoId}) : t \in [ids -> CallRec]
      BY <1>1 DEF Tables
    <2>2. DOMAIN t = ids
      BY <2>1
    <2> QED BY <2>1, <2>2 DEF IsTable
  <1>2. ASSUME IsTable(t) PROVE t \in Tables
    BY <1>2 DEF Tables, IsTable
  <1> QED BY <1>1, <1>2

\* A state change keeps a call a call, and its index.
LEMMA SetTelCallStateType ==
  ASSUME NEW call \in CallRec, NEW next \in TelStates
  PROVE  /\ SetTelCallState(call, next) \in CallRec
         /\ SetTelCallState(call, next).idx = call.idx
         /\ SetTelCallState(call, next).slot = call.slot
  <1>1. RunningOf(next) \in RunStates
    BY DEF RunningOf, TelStates, RunStates
  <1> QED BY <1>1 DEF SetTelCallState, CallRec

\* UpdateCallState changes one call's two states and nothing else.
LEMMA UpdateCallStateType ==
  ASSUME NEW t \in Tables, NEW id, NEW next \in TelStates
  PROVE  /\ UpdateCallState(t, id, next) \in Tables
         /\ DOMAIN UpdateCallState(t, id, next) = DOMAIN t
         /\ \A i \in DOMAIN t : UpdateCallState(t, id, next)[i].idx = t[i].idx
  <1> DEFINE u == UpdateCallState(t, id, next)
  <1>1. IsTable(t)
    BY TablesAre
  <1>2. DOMAIN u = DOMAIN t
    BY DEF UpdateCallState
  <1>3. \A i \in DOMAIN t : u[i] = IF i = id THEN SetTelCallState(t[i], next) ELSE t[i]
    BY DEF UpdateCallState
  <1>4. \A i \in DOMAIN t : t[i] \in CallRec
    BY <1>1 DEF IsTable
  <1>5. \A i \in DOMAIN t : u[i] \in CallRec /\ u[i].idx = t[i].idx
    BY <1>3, <1>4, SetTelCallStateType
  <1>6. u \in [DOMAIN t -> CallRec]
    BY <1>2, <1>5 DEF UpdateCallState
  <1>7. IsTable(u)
    BY <1>1, <1>2, <1>6 DEF IsTable
  <1> QED BY <1>2, <1>5, <1>7, TablesAre

\* Removing a call leaves the others as they are.
LEMMA DeleteType ==
  ASSUME NEW t \in Tables, NEW id
  PROVE  /\ DeleteOneCallObject(t, id) \in Tables
         /\ DOMAIN DeleteOneCallObject(t, id) = DOMAIN t \ {id}
         /\ \A i \in DOMAIN t \ {id} : DeleteOneCallObject(t, id)[i] = t[i]
  <1>1. IsTable(t)
    BY TablesAre
  <1>2. IsTable(DeleteOneCallObject(t, id))
    BY <1>1 DEF IsTable, DeleteOneCallObject
  <1> QED BY <1>2, TablesAre DEF DeleteOneCallObject

\* Replacing a call of the table by another one.
LEMMA ReplaceType ==
  ASSUME NEW t \in Tables, NEW id, NEW call \in CallRec
  PROVE  [t EXCEPT ![id] = call] \in Tables
  <1>1. IsTable(t)
    BY TablesAre
  <1>2. IsTable([t EXCEPT ![id] = call])
    BY <1>1 DEF IsTable
  <1> QED BY <1>2, TablesAre

\* AddOneCallObject adds the call under its id, or nothing.
LEMMA AddType ==
  ASSUME NEW t \in Tables, NEW id \in Nat \ {NoId}, NEW call \in CallRec
  PROVE  /\ AddOneCallObject(t, id, call) \in Tables
         /\ \/ DOMAIN AddOneCallObject(t, id, call) = DOMAIN t
            \/ DOMAIN AddOneCallObject(t, id, call) = DOMAIN t \cup {id}
         /\ \A i \in DOMAIN t : AddOneCallObject(t, id, call)[i] = t[i]
  <1>1. IsTable(t)
    BY TablesAre
  <1>2. CASE "list" \in AsWritten \/ id \in DOMAIN t
    BY <1>2 DEF AddOneCallObject
  <1>3. CASE ~("list" \in AsWritten \/ id \in DOMAIN t)
    <2>1. AddOneCallObject(t, id, call)
            = [i \in DOMAIN t \cup {id} |-> IF i = id THEN call ELSE t[i]]
      BY <1>3 DEF AddOneCallObject
    <2>2. IsTable(AddOneCallObject(t, id, call))
      BY <1>1, <2>1 DEF IsTable
    <2> QED BY <1>3, <2>1, <2>2, TablesAre
  <1> QED BY <1>2, <1>3
-----------------------------------------------------------------------------
(* The relation Good *)

\* A handler that does nothing is good.
LEMMA GoodSame == ASSUME NEW m \in Managers PROVE Good(m, m)
  BY DEF Good, Fine, Keeps, Serves, Managers

\* Fine steps may follow one another.
LEMMA FineTrans ==
  ASSUME NEW a \in Managers, NEW b, NEW c, Fine(a, b), Fine(b, c)
  PROVE  Fine(a, c)
  <1>1. /\ b \in Managers /\ c \in Managers
        /\ a.nextId \in Nat /\ b.nextId \in Nat /\ c.nextId \in Nat
        /\ a.pendingMo \in Nat /\ b.pendingMo \in Nat /\ c.pendingMo \in Nat
    BY DEF Fine, Managers
  <1>2. Keeps(a, b) /\ Keeps(b, c)
    BY DEF Fine
  <1>3. c.pendingMo \in {a.pendingMo, NoId} \/ c.pendingMo > a.nextId
    BY <1>1, <1>2 DEF Keeps
  <1> QED BY <1>1, <1>2, <1>3 DEF Fine, Keeps

\* Good handlers may be called one after the other: only one of them finds the latch set.
LEMMA GoodTrans ==
  ASSUME NEW a \in Managers, NEW b, NEW c, Good(a, b), Good(b, c)
  PROVE  Good(a, c)
  <1>1. Fine(a, c)
    BY FineTrans DEF Good
  <1>2. Serves(a, c)
    BY DEF Good, Serves, SentOn
  <1> QED BY <1>1, <1>2 DEF Good

\* A report put into the queue takes none out of it.
LEMMA AwaitedAppend ==
  ASSUME NEW q \in Seq(Reports), NEW rep \in Reports
  PROVE  /\ Append(q, rep) \in Seq(Reports)
         /\ Awaited(q) => Awaited(Append(q, rep))
         /\ WillReopen(rep) => Awaited(Append(q, rep))
  <1>1. /\ Append(q, rep) \in Seq(Reports)
        /\ Len(Append(q, rep)) = Len(q) + 1 /\ Len(q) \in Nat
        /\ \A k \in 1..Len(q) : Append(q, rep)[k] = q[k]
        /\ Append(q, rep)[Len(q) + 1] = rep
    BY AppendProperties, LenProperties
  <1>2. ASSUME Awaited(q) PROVE Awaited(Append(q, rep))
    <2>1. PICK k \in 1..Len(q) : WillReopen(q[k])
      BY <1>2 DEF Awaited
    <2>2. k \in 1..Len(Append(q, rep)) /\ Append(q, rep)[k] = q[k]
      BY <1>1
    <2> QED BY <2>1, <2>2 DEF Awaited
  <1>3. ASSUME WillReopen(rep) PROVE Awaited(Append(q, rep))
    <2>1. Len(q) + 1 \in 1..Len(Append(q, rep))
      BY <1>1
    <2> QED BY <1>1, <1>3, <2>1 DEF Awaited
  <1> QED BY <1>1, <1>2, <1>3

\* A report about a call of the table is a report.
LEMMA CallReportType ==
  ASSUME NEW tel \in TelStates, NEW idx \in 0..MaxIdx, NEW slot \in Slots, NEW num \in Requests
  PROVE  /\ CallReport(tel, idx, slot, num) \in Reports
         /\ CallReport(tel, idx, slot, num) \in CallReports
  BY DEF CallReport, CallReports, Reports

\* The calls of a manager's table.
LEMMA CallOf ==
  ASSUME NEW m \in Managers, NEW id \in DOMAIN m.calls
  PROVE  m.calls[id] \in CallRec /\ id \in Nat \ {NoId}
  <1>1. m.calls \in Tables
    BY DEF Managers
  <1> QED BY <1>1, TablesAre DEF IsTable

\* Asking a modem to act on a call changes nothing but the modem's requests.
LEMMA GoodAsk ==
  ASSUME NEW m \in Managers, NEW op \in ModemOps, NEW id \in DOMAIN m.calls
  PROVE  /\ Good(m, Ask(m, op, id))
         /\ Ask(m, op, id) = [m EXCEPT !.req = Ask(m, op, id).req]
  <1> DEFINE c == m.calls[id]
             r == [op |-> op, idx |-> c.idx, num |-> c.num]
             n == Ask(m, op, id)
             q == [m.req EXCEPT ![c.slot] = Append(m.req[c.slot], r)]
  <1>1. c \in CallRec
    BY CallOf
  <1>2. r \in ModemRequests /\ c.slot \in Slots
    BY <1>1 DEF ModemRequests, CallRec
  <1>3. m.req \in [Slots -> Seq(ModemRequests)]
    BY DEF Managers
  <1>4. Append(m.req[c.slot], r) \in Seq(ModemRequests)
    BY <1>2, <1>3, AppendProperties
  <1>5. q \in [Slots -> Seq(ModemRequests)]
    BY <1>3, <1>4
  <1>6. n = [m EXCEPT !.req = q]
    BY DEF Ask
  <1> HIDE DEF n, q
  <1>7. n \in Managers
    BY <1>5, <1>6 DEF Managers
  <1>8. Keeps(m, n) /\ Serves(m, n)
    BY <1>6 DEF Keeps, Known, Marked, Serves, Managers
  <1>9. n.req = q
    BY <1>6 DEF Managers
  <1> QED BY <1>6, <1>7, <1>8, <1>9 DEF Good, Fine, n

\* Sending a dial changes the requests and the history only.
LEMMA GoodSendDial ==
  ASSUME NEW m \in Managers, NEW r \in Requests \cup {NoRequest}
  PROVE  /\ Fine(m, SendDial(m, r)) /\ SendDial(m, r).pendingMo = m.pendingMo
         /\ SendDial(m, r).calls = m.calls /\ SendDial(m, r).needWaitHold = m.needWaitHold
         /\ SendDial(m, r).pendingHangup = m.pendingHangup
         /\ SendDial(m, r).sent = IF r = NoRequest THEN m.sent
                                  ELSE [m.sent EXCEPT ![r] = @ + 1]
  <1>1. CASE r = NoRequest
    BY <1>1, GoodSame DEF SendDial, Good
  <1>2. CASE r # NoRequest
    <2> DEFINE rq == [op |-> "dial", idx |-> InitIndex, num |-> r]
               q == [m.req EXCEPT ![SlotOf[r]] = Append(m.req[SlotOf[r]], rq)]
               h == [m.sent EXCEPT ![r] = m.sent[r] + 1]
               n == SendDial(m, r)
    <2>1. r \in Requests /\ SlotOf[r] \in Slots
      BY <1>2, PipelineAssumption
    <2>2. rq \in ModemRequests
      BY <2>1, TableAssumption DEF ModemRequests, ModemOps, InitIndex
    <2>3. m.req \in [Slots -> Seq(ModemRequests)] /\ m.sent \in [Requests -> Nat]
      BY DEF Managers
    <2>4. Append(m.req[SlotOf[r]], rq) \in Seq(ModemRequests)
      BY <2>1, <2>2, <2>3, AppendProperties
    <2>5. q \in [Slots -> Seq(ModemRequests)] /\ h \in [Requests -> Nat]
      BY <2>1, <2>3, <2>4
    <2>6. n = [[m EXCEPT !.req = q] EXCEPT !.sent = h]
      BY <1>2 DEF SendDial, Managers
    <2> HIDE DEF n, q, h
    <2>7. n \in Managers
      BY <2>5, <2>6 DEF Managers
    <2>8. /\ Keeps(m, n) /\ n.pendingMo = m.pendingMo /\ n.calls = m.calls
          /\ n.needWaitHold = m.needWaitHold /\ n.sent = h
          /\ n.pendingHangup = m.pendingHangup
      BY <2>6 DEF Keeps, Marked, Managers
    <2> QED BY <1>2, <2>7, <2>8 DEF Fine, n, h
  <1> QED BY <1>1, <1>2

\* Reporting a call gone appends one report.
LEMMA GoodDealFailDial ==
  ASSUME NEW m \in Managers, NEW id \in DOMAIN m.calls
  PROVE  /\ Good(m, DealFailDial(m, id)) /\ DealFailDial(m, id).pendingMo = m.pendingMo
         /\ DealFailDial(m, id).calls = m.calls /\ DealFailDial(m, id).sent = m.sent
         /\ DealFailDial(m, id).needWaitHold = m.needWaitHold
         /\ DealFailDial(m, id).pendingHangup = m.pendingHangup
  <1> DEFINE c == m.calls[id]
             rep == CallReport("DISCONNECTED", c.idx, c.slot, c.num)
             n == DealFailDial(m, id)
  <1>1. c \in CallRec
    BY CallOf
  <1>2. rep \in Reports
    BY <1>1, CallReportType DEF CallRec, TelStates
  <1>3. m.queue \in Seq(Reports)
    BY DEF Managers
  <1>4. Append(m.queue, rep) \in Seq(Reports)
        /\ (Awaited(m.queue) => Awaited(Append(m.queue, rep)))
    BY <1>2, <1>3, AwaitedAppend
  <1>5. n = [m EXCEPT !.queue = Append(m.queue, rep)]
    BY DEF DealFailDial
  <1> HIDE DEF n, rep
  <1>6. n \in Managers
    BY <1>4, <1>5 DEF Managers
  <1>7. /\ Keeps(m, n) /\ n.pendingMo = m.pendingMo /\ n.calls = m.calls
        /\ n.sent = m.sent /\ n.needWaitHold = m.needWaitHold
        /\ n.pendingHangup = m.pendingHangup
    BY <1>4, <1>5 DEF Keeps, Marked, Managers
  <1> QED BY <1>6, <1>7 DEF Good, Fine, Serves, Known, n

\* A change of state keeps every call where it is.
LEMMA GoodSetState ==
  ASSUME NEW m \in Managers, NEW id, NEW tel \in TelStates
  PROVE  /\ Good(m, SetState(m, id, tel))
         /\ SetState(m, id, tel).pendingMo = m.pendingMo
         /\ SetState(m, id, tel).pendingHangup = m.pendingHangup
         /\ SetState(m, id, tel).needWaitHold = m.needWaitHold
         /\ DOMAIN SetState(m, id, tel).calls = DOMAIN m.calls
  <1> DEFINE t == UpdateCallState(m.calls, id, tel)
             n == SetState(m, id, tel)
  <1>1. m.calls \in Tables
    BY DEF Managers
  <1>2. /\ t \in Tables /\ DOMAIN t = DOMAIN m.calls
        /\ \A i \in DOMAIN m.calls : t[i].idx = m.calls[i].idx
    BY <1>1, UpdateCallStateType
  <1>3. n = [m EXCEPT !.calls = t]
    BY DEF SetState
  <1> HIDE DEF n, t
  <1>4. n \in Managers /\ n.calls = t /\ n.pendingMo = m.pendingMo
        /\ n.pendingHangup = m.pendingHangup
    BY <1>2, <1>3 DEF Managers
  <1>5. Keeps(m, n) /\ Serves(m, n) /\ n.needWaitHold = m.needWaitHold
    BY <1>2, <1>3 DEF Keeps, Known, Marked, Serves, Managers
  <1> QED BY <1>2, <1>4, <1>5 DEF Good, Fine, n

\* Opening the gate, and giving up a postponed hang-up, are good.
LEMMA GoodReopenGate ==
  ASSUME NEW m \in Managers
  PROVE  Good(m, ReopenGate(m)) /\ ~ReopenGate(m).dialing
  <1> DEFINE n == ReopenGate(m)
  <1>1. n = [[m EXCEPT !.dialing = FALSE] EXCEPT !.removing = TRUE]
    BY DEF ReopenGate, Managers
  <1> HIDE DEF n
  <1>2. n \in Managers /\ n.dialing = FALSE
    BY <1>1 DEF Managers
  <1>3. Keeps(m, n) /\ Serves(m, n)
    BY <1>1, <1>2 DEF Keeps, Known, Marked, Serves, Managers
  <1> QED BY <1>2, <1>3 DEF Good, Fine, n

\* Dropping a postponed hang-up and its task is a good step.
LEMMA GoodDropPendingHangup ==
  ASSUME NEW m \in Managers
  PROVE  /\ Good(m, DropPendingHangup(m))
         /\ DropPendingHangup(m).pendingMo = m.pendingMo
         /\ DropPendingHangup(m).pendingHangup = NoId
         /\ DropPendingHangup(m).calls = m.calls
         /\ DropPendingHangup(m).nextId = m.nextId
         /\ DropPendingHangup(m).dialing = m.dialing
         /\ DropPendingHangup(m).queue = m.queue
         /\ DropPendingHangup(m).sent = m.sent
         /\ DropPendingHangup(m).needWaitHold = m.needWaitHold
  <1> DEFINE n == DropPendingHangup(m)
  <1>1. NoTask \in HangupTasks /\ NoId \in Nat
    BY DEF NoTask, HangupTasks, NoId
  <1>2. n = [[m EXCEPT !.pendingHangup = NoId] EXCEPT !.hangupTask = NoTask]
    BY DEF DropPendingHangup, Managers
  <1> HIDE DEF n
  <1>3. /\ n \in Managers /\ n.pendingMo = m.pendingMo /\ n.calls = m.calls
        /\ n.pendingHangup = NoId /\ n.dialing = m.dialing /\ n.queue = m.queue
        /\ n.nextId = m.nextId /\ m.nextId \in Nat
        /\ n.sent = m.sent /\ n.needWaitHold = m.needWaitHold
    BY <1>1, <1>2 DEF Managers
  <1>4. Keeps(m, n) /\ Serves(m, n)
    BY <1>3 DEF Keeps, Known, Marked, Serves, NoId
  <1> QED BY <1>3, <1>4 DEF Good, Fine, n

\* Clearing the latch needWaitHold_ is good.
LEMMA GoodClearLatch ==
  ASSUME NEW m \in Managers
  PROVE  LET n == [m EXCEPT !.needWaitHold = FALSE]
         IN /\ Good(m, n) /\ n \in Managers /\ n.calls = m.calls
            /\ n.pendingMo = m.pendingMo /\ n.pendingHangup = m.pendingHangup
            /\ n.sent = m.sent /\ ~n.needWaitHold
  <1> DEFINE n == [m EXCEPT !.needWaitHold = FALSE]
  <1>1. /\ n \in Managers /\ n.calls = m.calls /\ n.nextId = m.nextId
        /\ n.dialing = m.dialing /\ n.queue = m.queue
        /\ n.pendingMo = m.pendingMo /\ n.pendingHangup = m.pendingHangup
        /\ n.sent = m.sent /\ ~n.needWaitHold /\ m.nextId \in Nat
    BY DEF Managers
  <1> HIDE DEF n
  <1>2. Keeps(m, n) /\ Serves(m, n)
    BY <1>1 DEF Keeps, Known, Marked, Serves
  <1> QED BY <1>1, <1>2 DEF Good, Fine, n
-----------------------------------------------------------------------------
(* The handlers of the report queue *)

\* A table with the same calls at the same indices may replace the table.
LEMMA GoodCalls ==
  ASSUME NEW m \in Managers, NEW t \in Tables, DOMAIN t = DOMAIN m.calls,
         \A i \in DOMAIN t : t[i].idx = m.calls[i].idx
  PROVE  Good(m, [m EXCEPT !.calls = t])
  <1> DEFINE n == [m EXCEPT !.calls = t]
  <1>1. n \in Managers
    BY DEF Managers
  <1>2. Keeps(m, n) /\ Serves(m, n)
    BY DEF Keeps, Known, Marked, Serves, Managers
  <1> QED BY <1>1, <1>2 DEF Good, Fine

\* ClearPendingState takes the marks of one call away and may ask for its end.
LEMMA ClearPendingStateFields ==
  ASSUME NEW m \in Managers, NEW id \in DOMAIN m.calls
  PROVE  LET n == ClearPendingState(m, id)
         IN /\ n \in Managers /\ n.calls = m.calls /\ n.nextId = m.nextId
            /\ n.dialing = m.dialing /\ n.queue = m.queue
            /\ n.sent = m.sent /\ n.needWaitHold = m.needWaitHold
            /\ n.pendingMo = IF m.pendingMo = id THEN NoId ELSE m.pendingMo
            /\ n.pendingHangup = IF m.pendingHangup = id THEN NoId ELSE m.pendingHangup
  <1> DEFINE mo == IF m.pendingMo = id THEN [m EXCEPT !.pendingMo = NoId] ELSE m
             ask == Ask(mo, "hangup", id)
             drop(x) == DropPendingHangup(x)
  <1>1. /\ mo \in Managers /\ mo.calls = m.calls /\ mo.nextId = m.nextId
        /\ mo.dialing = m.dialing /\ mo.queue = m.queue
        /\ mo.pendingMo = IF m.pendingMo = id THEN NoId ELSE m.pendingMo
        /\ mo.pendingHangup = m.pendingHangup
        /\ mo.sent = m.sent /\ mo.needWaitHold = m.needWaitHold
    BY DEF Managers, NoId
  <1> HIDE DEF mo
  <1>2. /\ ask \in Managers /\ ask = [mo EXCEPT !.req = ask.req]
    BY <1>1, GoodAsk DEF Good, Fine, ModemOps
  <1>3. /\ ask.calls = mo.calls /\ ask.nextId = mo.nextId /\ ask.dialing = mo.dialing
        /\ ask.queue = mo.queue /\ ask.pendingMo = mo.pendingMo
        /\ ask.pendingHangup = mo.pendingHangup
        /\ ask.sent = mo.sent /\ ask.needWaitHold = mo.needWaitHold
    BY <1>1, <1>2 DEF Managers
  <1> HIDE DEF ask
  <1>4. ASSUME NEW x \in Managers
        PROVE  /\ drop(x) \in Managers /\ drop(x).calls = x.calls /\ drop(x).nextId = x.nextId
               /\ drop(x).dialing = x.dialing /\ drop(x).queue = x.queue
               /\ drop(x).pendingMo = x.pendingMo /\ drop(x).pendingHangup = NoId
               /\ drop(x).sent = x.sent /\ drop(x).needWaitHold = x.needWaitHold
    BY GoodDropPendingHangup DEF Good, Fine
  <1>5. ClearPendingState(m, id) = IF mo.pendingHangup # id THEN mo
                                   ELSE IF m.calls[id].run = "ENDED" THEN drop(mo) ELSE drop(ask)
    BY <1>1 DEF ClearPendingState, mo, ask
  <1> HIDE DEF drop
  <1> QED BY <1>1, <1>2, <1>3, <1>4, <1>5

\* So is clearing what is pending for a call of the table that is now placed.
LEMMA GoodClearPendingState ==
  ASSUME NEW m \in Managers, NEW id \in DOMAIN m.calls
  PROVE  /\ Good(m, ClearPendingState(m, id))
         /\ ClearPendingState(m, id).calls = m.calls
         /\ ClearPendingState(m, id).pendingMo # id
         /\ ClearPendingState(m, id).pendingHangup # id
  <1> DEFINE n == ClearPendingState(m, id)
  <1>1. /\ n \in Managers /\ n.calls = m.calls /\ n.nextId = m.nextId
        /\ n.dialing = m.dialing /\ n.queue = m.queue
        /\ n.sent = m.sent /\ n.needWaitHold = m.needWaitHold
        /\ n.pendingMo = IF m.pendingMo = id THEN NoId ELSE m.pendingMo
        /\ n.pendingHangup = IF m.pendingHangup = id THEN NoId ELSE m.pendingHangup
    BY ClearPendingStateFields
  <1>2. id # NoId /\ m.nextId \in Nat
    BY CallOf DEF Managers
  <1> HIDE DEF n
  <1>3. Keeps(m, n) /\ Serves(m, n)
    BY <1>1, <1>2 DEF Keeps, Known, Marked, Serves, NoId
  <1> QED BY <1>1, <1>2, <1>3 DEF Good, Fine, n

\* The call given its index loses its mark in the same step.
LEMMA GoodUpdateDialingCallInfo ==
  ASSUME NEW m \in Managers, NEW rep \in CallReports
  PROVE  Good(m, UpdateDialingCallInfo(m, rep))
  <1> DEFINE call == GetOneCallObjectByIndex(m.calls, InitIndex)
             placed == [SetTelCallState(m.calls[call], rep.tel) EXCEPT
                          !.idx = rep.idx, !.slot = rep.slot]
             t == [m.calls EXCEPT ![call] = placed]
             m1 == [m EXCEPT !.calls = t]
             n == ClearPendingState(m1, call)
  <1>1. CASE \/ GetOneCallObjectByIndexAndSlotId(m.calls, rep.idx, rep.slot) # NoId
             \/ call = NoId
    BY <1>1, GoodSame DEF UpdateDialingCallInfo
  <1>2. CASE ~(\/ GetOneCallObjectByIndexAndSlotId(m.calls, rep.idx, rep.slot) # NoId
               \/ call = NoId)
    <2>1. call \in DOMAIN m.calls
      BY <1>2, SearchIn
    <2>2. UpdateDialingCallInfo(m, rep) = n
      BY <1>2 DEF UpdateDialingCallInfo
    <2>3. rep.tel \in TelStates /\ rep.idx \in 0..MaxIdx /\ rep.slot \in Slots
      BY DEF CallReports, Reports
    <2>4. SetTelCallState(m.calls[call], rep.tel) \in CallRec
      BY <2>1, <2>3, CallOf, SetTelCallStateType
    <2> HIDE DEF call
    <2>5. placed \in CallRec
      BY <2>3, <2>4 DEF CallRec
    <2> HIDE DEF placed
    <2>6. m.calls \in Tables
      BY DEF Managers
    <2>7. t \in Tables /\ DOMAIN t = DOMAIN m.calls
      BY <2>5, <2>6, ReplaceType
    <2>8. \A i \in DOMAIN m.calls \ {call} : t[i] = m.calls[i]
      OBVIOUS
    <2> HIDE DEF t
    <2>9. /\ m1 \in Managers /\ m1.calls = t /\ m1.nextId = m.nextId
          /\ m1.dialing = m.dialing /\ m1.queue = m.queue
          /\ m1.pendingMo = m.pendingMo /\ m1.pendingHangup = m.pendingHangup
          /\ m1.sent = m.sent /\ m1.needWaitHold = m.needWaitHold
      BY <2>7 DEF Managers
    <2> HIDE DEF m1
    <2>10. /\ n \in Managers /\ n.calls = m1.calls /\ n.nextId = m1.nextId
           /\ n.dialing = m1.dialing /\ n.queue = m1.queue
           /\ n.sent = m1.sent /\ n.needWaitHold = m1.needWaitHold
           /\ n.pendingMo = IF m1.pendingMo = call THEN NoId ELSE m1.pendingMo
           /\ n.pendingHangup = IF m1.pendingHangup = call THEN NoId ELSE m1.pendingHangup
      BY <2>1, <2>7, <2>9, ClearPendingStateFields
    <2>11. m.nextId \in Nat
      BY DEF Managers
    <2> HIDE DEF n
    <2>12. Keeps(m, n) /\ Serves(m, n)
      BY <2>7, <2>8, <2>9, <2>10, <2>11 DEF Keeps, Known, Marked, Serves, NoId
    <2> QED BY <2>2, <2>10, <2>12 DEF Good, Fine
  <1> QED BY <1>1, <1>2

\* A created call takes a fresh id; its report opens the gate.
LEMMA GoodCreateDialing ==
  ASSUME NEW m \in Managers, NEW rep \in CallReports, NEW src \in Requests \cup {NoRequest}
  PROVE  Good(m, CreateDialing(m, rep, src)) /\ ~CreateDialing(m, rep, src).dialing
  <1> DEFINE id == m.nextId + 1
             call == [tel |-> rep.tel, run |-> "CREATE", idx |-> rep.idx, slot |-> rep.slot,
                      canUnHold |-> TRUE, canSwitch |-> TRUE, num |-> rep.num, src |-> src]
             added == AddOneCallObject(m.calls, id, call)
             begun == [added[id] EXCEPT !.run = "CONNECTING"]
             put == [added EXCEPT ![id] = begun]
             added2 == IF id \in DOMAIN added THEN UpdateCallState(put, id, "DIALING") ELSE added
             first == m.firstAdded \/ FirstDialAdded(added)
             mo == IF rep.idx = InitIndex THEN id ELSE m.pendingMo
             m1 == [m EXCEPT !.nextId = id, !.calls = added2, !.firstAdded = first,
                             !.pendingMo = mo]
  <1>1. /\ m.nextId \in Nat /\ id \in Nat \ {NoId} /\ m.pendingMo \in Nat
        /\ m.calls \in Tables /\ m.firstAdded \in BOOLEAN /\ m.pendingHangup \in Nat
        /\ id = m.nextId + 1
    BY DEF Managers, NoId
  <1> HIDE DEF id
  <1>2. call \in CallRec
    BY DEF CallRec, CallReports, Reports, RunStates
  <1>3. call.idx = rep.idx
    OBVIOUS
  <1> HIDE DEF call
  <1>4. /\ added \in Tables
        /\ DOMAIN added = DOMAIN m.calls \/ DOMAIN added = DOMAIN m.calls \cup {id}
        /\ \A i \in DOMAIN m.calls : added[i] = m.calls[i]
    BY <1>1, <1>2, AddType
  <1>4a. ASSUME "list" \notin AsWritten, id \notin DOMAIN m.calls
         PROVE  DOMAIN added = DOMAIN m.calls \cup {id} /\ added[id] = call
    <2>1. AddOneCallObject(m.calls, id, call)
            = [i \in DOMAIN m.calls \cup {id} |-> IF i = id THEN call ELSE m.calls[i]]
      BY <1>4a DEF AddOneCallObject
    <2> QED BY <2>1
  <1> HIDE DEF added
  <1>5. ASSUME id \in DOMAIN added
        PROVE  /\ added2 \in Tables /\ DOMAIN added2 = DOMAIN added
               /\ \A i \in DOMAIN added : added2[i].idx = added[i].idx
    <2>1. added[id] \in CallRec
      BY <1>4, <1>5, TablesAre DEF IsTable
    <2>2. begun \in CallRec /\ begun.idx = added[id].idx
      BY <2>1 DEF CallRec, RunStates
    <2> HIDE DEF begun
    <2>3. put \in Tables /\ DOMAIN put = DOMAIN added
      BY <1>4, <2>2, ReplaceType
    <2>4. \A i \in DOMAIN added : put[i].idx = added[i].idx
      BY <2>2
    <2> HIDE DEF put
    <2>5. /\ UpdateCallState(put, id, "DIALING") \in Tables
          /\ DOMAIN UpdateCallState(put, id, "DIALING") = DOMAIN put
          /\ \A i \in DOMAIN put : UpdateCallState(put, id, "DIALING")[i].idx = put[i].idx
      BY <2>3, UpdateCallStateType DEF TelStates
    <2> QED BY <1>5, <2>3, <2>4, <2>5
  <1>6. /\ added2 \in Tables /\ DOMAIN added2 = DOMAIN added
        /\ \A i \in DOMAIN added : added2[i].idx = added[i].idx
    BY <1>4, <1>5
  <1> HIDE DEF added2
  <1>7. CreateDialing(m, rep, src) = ReopenGate(m1)
    BY DEF CreateDialing, added2, put, begun, added, call, id, first, mo
  <1>8. m1 = [[[[m EXCEPT !.nextId = id] EXCEPT !.calls = added2] EXCEPT !.firstAdded = first]
              EXCEPT !.pendingMo = mo]
    BY DEF Managers
  <1>9. first \in BOOLEAN
    BY DEF FirstDialAdded
  <1>10. mo \in Nat
    BY <1>1
  <1> HIDE DEF first, m1, mo
  <1>11. m1 \in Managers
    BY <1>1, <1>6, <1>8, <1>9, <1>10 DEF Managers
  <1>12. /\ m1.nextId = id /\ m1.calls = added2 /\ m1.pendingMo = mo
         /\ m1.dialing = m.dialing /\ m1.queue = m.queue
         /\ m1.pendingHangup = m.pendingHangup
         /\ m1.sent = m.sent /\ m1.needWaitHold = m.needWaitHold
    BY <1>8 DEF Managers
  <1>13. ASSUME "list" \notin AsWritten, Marked(m) PROVE Marked(m1)
    <2>1. /\ \A i \in DOMAIN m.calls : i \in Nat /\ i <= m.nextId
          /\ m.pendingHangup <= m.nextId
      BY <1>1, <1>13, CallOf DEF Marked
    <2>2. id \notin DOMAIN m.calls
      BY <1>1, <2>1
    <2>3. /\ DOMAIN added2 = DOMAIN m.calls \cup {id} /\ added2[id].idx = rep.idx
          /\ \A i \in DOMAIN m.calls : added2[i].idx = m.calls[i].idx
      BY <1>4, <1>4a, <1>3, <1>6, <1>13, <2>2
    <2>4. mo # NoId => mo \in DOMAIN added2 /\ added2[mo].idx = InitIndex
      BY <1>13, <2>3 DEF Marked, mo
    <2>5. \A i \in DOMAIN added2 : i <= id
      BY <1>1, <2>1, <2>3
    <2>6. m.pendingHangup <= id
      BY <1>1, <2>1
    <2>7. m.pendingHangup # NoId => m.pendingHangup # mo
      BY <1>1, <1>13, <2>1 DEF Marked, mo
    <2> QED BY <1>12, <2>4, <2>5, <2>6, <2>7 DEF Marked
  <1>14. Keeps(m, m1)
    <2>1. m.nextId <= id
      BY <1>1
    <2>2. mo \in {m.pendingMo, NoId} \/ mo > m.nextId
      BY <1>1 DEF mo
    <2> QED BY <1>12, <1>13, <2>1, <2>2 DEF Keeps
  <1>15. Good(m, m1) /\ Good(m1, ReopenGate(m1)) /\ ~ReopenGate(m1).dialing
    <2>1. Known(m) => Known(m1)
      BY <1>4, <1>6, <1>12 DEF Known
    <2> QED BY <1>11, <1>12, <1>14, <2>1, GoodReopenGate DEF Good, Fine, Serves
  <1> QED BY <1>7, <1>15, GoodTrans

\* The DIALING report is handled well, whether it updates a call or creates one.
LEMMA GoodDialingHandle ==
  ASSUME NEW m \in Managers, NEW rep \in CallReports, NEW src \in Requests \cup {NoRequest}
  PROVE  /\ Good(m, DialingHandle(m, rep, src))
         /\ rep.idx = InitIndex => ~DialingHandle(m, rep, src).dialing
  BY GoodCreateDialing, GoodUpdateDialingCallInfo DEF DialingHandle, UpdateDialingHandle, InitIndex

\* HandleDsdaInfo flips one switch of one call.
LEMMA GoodHandleDsdaInfo ==
  ASSUME NEW m \in Managers, NEW slot
  PROVE  Good(m, HandleDsdaInfo(m, slot))
  <1> DEFINE hold == GetOneCallObject(m.calls, "HOLD")
             c == [m.calls[hold] EXCEPT !.canUnHold = FALSE]
             t == [m.calls EXCEPT ![hold] = c]
  <1>1. CASE hold = NoId
    BY <1>1, GoodSame DEF HandleDsdaInfo
  <1>2. CASE hold # NoId
    <2>1. hold \in DOMAIN m.calls /\ m.calls \in Tables
      BY <1>2, SearchIn DEF Managers
    <2>2. m.calls[hold] \in CallRec
      BY <2>1, CallOf
    <2>3. HandleDsdaInfo(m, slot) \in {m, [m EXCEPT !.calls = t]}
      BY DEF HandleDsdaInfo
    <2> HIDE DEF hold
    <2>4. c \in CallRec /\ c.idx = m.calls[hold].idx
      BY <2>2 DEF CallRec
    <2> HIDE DEF c
    <2>5. /\ t \in Tables /\ DOMAIN t = DOMAIN m.calls
          /\ \A i \in DOMAIN t : t[i].idx = m.calls[i].idx
      BY <2>1, <2>4, ReplaceType
    <2> HIDE DEF t
    <2>6. Good(m, [m EXCEPT !.calls = t])
      BY <2>5, GoodCalls
    <2> QED BY <2>3, <2>6, GoodSame
  <1> QED BY <1>1, <1>2

\* The call a report is about is in the table.
LEMMA PlacedIn == ASSUME NEW m, NEW rep PROVE Placed(m, rep) \in DOMAIN m.calls \cup {NoId}
  BY SearchIn DEF Placed

\* The DIALING report that stands in for a missing one is handled well.
LEMMA GoodRefresh ==
  ASSUME NEW m \in Managers, NEW rep \in CallReports, NEW src \in Requests \cup {NoRequest}
  PROVE  Good(m, RefreshDialingStateByOtherState(m, rep, src))
  <1> DEFINE rep2 == [rep EXCEPT !.tel = "DIALING"]
             d == DialingHandle(m, rep2, src)
  <1>1. rep2 \in CallReports
    BY DEF CallReports, Reports, TelStates
  <1> HIDE DEF rep2
  <1>2. Good(m, d)
    BY <1>1, GoodDialingHandle
  <1> HIDE DEF d
  <1>3. Good(d, HandleDsdaInfo(d, rep.slot))
    BY <1>2, GoodHandleDsdaInfo DEF Good, Fine
  <1>4. Good(m, HandleDsdaInfo(d, rep.slot))
    BY <1>2, <1>3, GoodTrans
  <1> QED BY <1>4, GoodSame DEF RefreshDialingStateByOtherState, d, rep2

\* The ALERTING report is handled well.
LEMMA GoodAlertHandle ==
  ASSUME NEW m \in Managers, NEW rep \in CallReports, NEW src \in Requests \cup {NoRequest}
  PROVE  Good(m, AlertHandle(m, rep, src))
  <1> DEFINE m1 == RefreshDialingStateByOtherState(m, rep, src)
             id == Placed(m1, rep)
             m2 == ClearPendingState(m1, id)
             m3 == SetState(m2, id, "ALERTING")
  <1>1. Good(m, m1) /\ m1 \in Managers
    BY GoodRefresh DEF Good, Fine
  <1>2. AlertHandle(m, rep, src) = IF id = NoId THEN m1
                                   ELSE IF m2.calls[id].tel = "DISCONNECTING" THEN m2 ELSE m3
    BY DEF AlertHandle
  <1> HIDE DEF m1
  <1>3. CASE id = NoId
    BY <1>1, <1>2, <1>3
  <1>4. CASE id # NoId
    <2>1. id \in DOMAIN m1.calls
      BY <1>4, PlacedIn
    <2> HIDE DEF id
    <2>2. Good(m1, m2)
      BY <1>1, <2>1, GoodClearPendingState
    <2> HIDE DEF m2
    <2>3. Good(m2, m3)
      BY <2>2, GoodSetState DEF Good, Fine, TelStates
    <2> HIDE DEF m3
    <2>4. Good(m, m2) /\ Good(m, m3)
      BY <1>1, <2>2, <2>3, GoodTrans
    <2> QED BY <1>2, <1>4, <2>4
  <1> QED BY <1>3, <1>4

\* The ACTIVE report is handled well.
LEMMA GoodActiveHandle ==
  ASSUME NEW m \in Managers, NEW rep \in CallReports, NEW src \in Requests \cup {NoRequest}
  PROVE  Good(m, ActiveHandle(m, rep, src))
  <1> DEFINE m1 == RefreshDialingStateByOtherState(m, rep, src)
             id == Placed(m1, rep)
             mc == ClearPendingState(m1, id)
             m2 == SetState(mc, id, "ACTIVE")
             hold == GetOneCallObject(m2.calls, "HOLD")
             c == [m2.calls[hold] EXCEPT !.canSwitch = TRUE]
             t == [m2.calls EXCEPT ![hold] = c]
  <1>1. Good(m, m1) /\ m1 \in Managers
    BY GoodRefresh DEF Good, Fine
  <1>2. ActiveHandle(m, rep, src) = IF id = NoId THEN m1 ELSE IF hold = NoId THEN m2
                                    ELSE [m2 EXCEPT !.calls = t]
    BY DEF ActiveHandle
  <1> HIDE DEF m1
  <1>3. CASE id = NoId
    BY <1>1, <1>2, <1>3
  <1>4. CASE id # NoId
    <2>1. id \in DOMAIN m1.calls
      BY <1>4, PlacedIn
    <2> HIDE DEF id
    <2>2. Good(m1, mc)
      BY <1>1, <2>1, GoodClearPendingState
    <2> HIDE DEF mc
    <2>3. Good(mc, m2) /\ m2 \in Managers
      BY <2>2, GoodSetState DEF Good, Fine, TelStates
    <2> HIDE DEF m2
    <2>4. Good(m, m2)
      BY <1>1, <2>2, <2>3, GoodTrans
    <2>5. ASSUME hold # NoId PROVE Good(m2, [m2 EXCEPT !.calls = t])
      <3>1. hold \in DOMAIN m2.calls /\ m2.calls \in Tables
        BY <2>3, <2>5, SearchIn DEF Managers
      <3>2. m2.calls[hold] \in CallRec
        BY <2>3, <3>1, CallOf
      <3> HIDE DEF hold
      <3>3. c \in CallRec /\ c.idx = m2.calls[hold].idx
        BY <3>2 DEF CallRec
      <3> HIDE DEF c
      <3>4. /\ t \in Tables /\ DOMAIN t = DOMAIN m2.calls
            /\ \A i \in DOMAIN t : t[i].idx = m2.calls[i].idx
        BY <3>1, <3>3, ReplaceType
      <3> HIDE DEF t
      <3> QED BY <2>3, <3>4, GoodCalls
    <2> HIDE DEF hold, t
    <2>6. hold # NoId => Good(m, [m2 EXCEPT !.calls = t])
      BY <2>4, <2>5, GoodTrans
    <2> QED BY <1>2, <1>4, <2>4, <2>6
  <1> QED BY <1>3, <1>4

\* The DISCONNECTING report is handled well.
LEMMA GoodDisconnectingHandle ==
  ASSUME NEW m \in Managers, NEW rep \in CallReports
  PROVE  Good(m, DisconnectingHandle(m, rep))
  BY GoodSame, GoodSetState DEF DisconnectingHandle, TelStates

\* Either the waiting dial is sent or failed, or the call whose hang-up was
\* postponed leaves the table: never the call still marked as unplaced.
LEMMA GoodHandleDialWhenHolding ==
  ASSUME NEW m \in Managers, NEW id \in DOMAIN m.calls, NEW ok,
         dialCallInfo \in Requests \cup {NoRequest}
  PROVE  /\ Fine(m, HandleDialWhenHolding(m, id, ok))
         /\ HandleDialWhenHolding(m, id, ok).needWaitHold = m.needWaitHold
         /\ SentOn(m, HandleDialWhenHolding(m, id, ok))
         /\ HandleDialWhenHolding(m, id, ok).pendingHangup \in {m.pendingHangup, NoId}
         /\ Known(m) => Known(HandleDialWhenHolding(m, id, ok))
         /\ HandleDialWhenHolding(m, id, ok).pendingMo = m.pendingMo
         /\ DOMAIN m.calls \ {m.pendingHangup}
              \subseteq DOMAIN HandleDialWhenHolding(m, id, ok).calls
  <1>1. CASE m.pendingHangup = NoId
    <2>1. HandleDialWhenHolding(m, id, ok)
            \in {SendDial(m, dialCallInfo), DealFailDial(m, id), m}
      BY <1>1 DEF HandleDialWhenHolding
    <2> QED BY <2>1, GoodSendDial, GoodDealFailDial, GoodSame DEF Good, Serves, SentOn, Known
  <1>2. CASE m.pendingHangup # NoId
    <2> DEFINE un == Ask(m, "unhold", id)
               t == DeleteOneCallObject(un.calls, m.pendingHangup)
               del == [un EXCEPT !.calls = t]
               n == DropPendingHangup(del)
    <2>1. HandleDialWhenHolding(m, id, ok) = n
      BY <1>2 DEF HandleDialWhenHolding
    <2>2. un \in Managers /\ un = [m EXCEPT !.req = un.req]
      BY GoodAsk DEF Good, Fine, ModemOps
    <2>3. /\ un.calls = m.calls /\ un.nextId = m.nextId /\ un.dialing = m.dialing
          /\ un.queue = m.queue /\ un.pendingMo = m.pendingMo
          /\ un.pendingHangup = m.pendingHangup
          /\ un.sent = m.sent /\ un.needWaitHold = m.needWaitHold
      BY <2>2 DEF Managers
    <2>4. un.calls \in Tables /\ m.nextId \in Nat
      BY <2>2 DEF Managers
    <2> HIDE DEF un
    <2>5a. /\ t \in Tables /\ DOMAIN t = DOMAIN un.calls \ {m.pendingHangup}
           /\ \A i \in DOMAIN un.calls \ {m.pendingHangup} : t[i] = un.calls[i]
      BY <2>4, DeleteType
    <2> HIDE DEF t
    <2>5. /\ t \in Tables /\ DOMAIN t = DOMAIN m.calls \ {m.pendingHangup}
          /\ \A i \in DOMAIN m.calls \ {m.pendingHangup} : t[i] = m.calls[i]
      BY <2>3, <2>5a
    <2>6. /\ del \in Managers /\ del.calls = t /\ del.nextId = m.nextId
          /\ del.dialing = m.dialing /\ del.queue = m.queue /\ del.pendingMo = m.pendingMo
          /\ del.sent = m.sent /\ del.needWaitHold = m.needWaitHold
      BY <2>2, <2>3, <2>5 DEF Managers
    <2> HIDE DEF del
    <2>7. /\ n \in Managers /\ n.calls = t /\ n.nextId = m.nextId /\ n.pendingHangup = NoId
          /\ n.dialing = m.dialing /\ n.queue = m.queue /\ n.pendingMo = m.pendingMo
          /\ n.sent = m.sent /\ n.needWaitHold = m.needWaitHold
      BY <2>6, GoodDropPendingHangup DEF Good, Fine
    <2> HIDE DEF n
    <2>8. Marked(m) => Marked(n)
      BY <1>2, <2>4, <2>5, <2>7 DEF Marked, NoId
    <2>9. Keeps(m, n)
      BY <2>4, <2>7, <2>8 DEF Keeps
    <2>10. Fine(m, n) /\ SentOn(m, n) /\ n.pendingMo = m.pendingMo /\ Known(n)
      BY <2>7, <2>9 DEF Fine, SentOn, Known
    <2>11. DOMAIN m.calls \ {m.pendingHangup} \subseteq DOMAIN n.calls
      BY <2>5, <2>7
    <2> QED BY <2>1, <2>7, <2>10, <2>11
  <1> QED BY <1>1, <1>2

\* Clearing the latch and then serving the dial that waits for it is good.
LEMMA GoodRelease ==
  ASSUME NEW m \in Managers, m.needWaitHold, NEW id \in DOMAIN m.calls, NEW ok,
         dialCallInfo \in Requests \cup {NoRequest}
  PROVE  LET n == HandleDialWhenHolding([m EXCEPT !.needWaitHold = FALSE], id, ok)
         IN /\ Good(m, n) /\ n.pendingMo = m.pendingMo
            /\ n.pendingHangup \in {m.pendingHangup, NoId}
            /\ DOMAIN m.calls \ {m.pendingHangup} \subseteq DOMAIN n.calls
  <1> DEFINE off == [m EXCEPT !.needWaitHold = FALSE]
             n == HandleDialWhenHolding(off, id, ok)
  <1>1. /\ Good(m, off) /\ off \in Managers /\ off.calls = m.calls /\ off.sent = m.sent
        /\ off.pendingMo = m.pendingMo /\ off.pendingHangup = m.pendingHangup
        /\ ~off.needWaitHold
    BY GoodClearLatch
  <1> HIDE DEF off
  <1>2. /\ Fine(off, n) /\ ~n.needWaitHold /\ SentOn(off, n)
        /\ n.pendingMo = off.pendingMo /\ n.pendingHangup \in {off.pendingHangup, NoId}
        /\ Known(off) => Known(n)
        /\ DOMAIN off.calls \ {off.pendingHangup} \subseteq DOMAIN n.calls
    BY <1>1, GoodHandleDialWhenHolding
  <1> HIDE DEF n
  <1>3. Fine(m, n)
    BY <1>1, <1>2, FineTrans DEF Good
  <1>4. Serves(m, n)
    BY <1>1, <1>2 DEF Serves, SentOn, Good
  <1> QED BY <1>1, <1>2, <1>3, <1>4 DEF Good, off, n

\* AutoUnHoldForDsda asks for one call, or flips a switch of the held ones.
LEMMA GoodAutoUnHoldForDsda ==
  ASSUME NEW m \in Managers, NEW canSwitch, NEW prior, NEW noActive, NEW slot
  PROVE  Good(m, AutoUnHoldForDsda(m, canSwitch, prior, noActive, slot))
  <1> DEFINE held == First({i \in InTel(m.calls, "HOLDING") :
                              m.calls[i].slot # slot /\ m.calls[i].canUnHold})
             t == [i \in DOMAIN m.calls |->
                    IF m.calls[i].tel = "HOLDING" THEN [m.calls[i] EXCEPT !.canUnHold = TRUE]
                    ELSE m.calls[i]]
  <1>1. \/ AutoUnHoldForDsda(m, canSwitch, prior, noActive, slot) \in
             {m, [m EXCEPT !.calls = t]}
        \/ /\ held # NoId
           /\ AutoUnHoldForDsda(m, canSwitch, prior, noActive, slot) = Ask(m, "unhold", held)
    BY DEF AutoUnHoldForDsda
  <1>2. \A i \in DOMAIN m.calls : m.calls[i] \in CallRec /\ i \in Nat \ {NoId}
    BY CallOf
  <1>3. \A i \in DOMAIN m.calls : t[i] \in CallRec /\ t[i].idx = m.calls[i].idx
    BY <1>2 DEF CallRec
  <1>4. DOMAIN t = DOMAIN m.calls /\ t \in [DOMAIN t -> CallRec]
    BY <1>3
  <1>5. held \in DOMAIN m.calls \cup {NoId}
    BY FirstIn DEF InTel
  <1> HIDE DEF held
  <1>6. IsTable(t)
    BY <1>2, <1>4 DEF IsTable
  <1> HIDE DEF t
  <1>7. Good(m, [m EXCEPT !.calls = t])
    BY <1>3, <1>4, <1>6, TablesAre, GoodCalls
  <1>8. held # NoId => Good(m, Ask(m, "unhold", held))
    BY <1>5, GoodAsk DEF ModemOps
  <1> QED BY <1>1, <1>7, <1>8, GoodSame

\* The HOLDING report is handled well.
LEMMA GoodHoldingHandle ==
  ASSUME NEW m \in Managers, NEW rep \in CallReports, NEW ok,
         dialCallInfo \in Requests \cup {NoRequest}
  PROVE  Good(m, HoldingHandle(m, rep, ok))
  <1> DEFINE id == Placed(m, rep)
             m1 == SetState(m, id, "HOLDING")
             off == [m1 EXCEPT !.needWaitHold = FALSE]
             sent2 == HandleDialWhenHolding(off, id, ok)
             auto == AutoUnHoldForDsda(m1, m1.calls[id].canSwitch, m.calls[id].tel,
                                       GetCallNum(m1.calls, "ACTIVE") = 0, m1.calls[id].slot)
  <1>1. \/ HoldingHandle(m, rep, ok) \in {m, m1, auto}
        \/ m1.needWaitHold /\ HoldingHandle(m, rep, ok) = sent2
    <2>1. CASE id = NoId
      BY <2>1 DEF HoldingHandle
    <2>2. CASE id # NoId /\ ~DsdaMode
      BY <2>2 DEF HoldingHandle
    <2>3. CASE id # NoId /\ DsdaMode /\ ~LatchReleased(m1)
      BY <2>3 DEF HoldingHandle
    <2>4. CASE id # NoId /\ DsdaMode /\ LatchReleased(m1)
      BY <2>4 DEF HoldingHandle, LatchReleased
    <2> QED BY <2>1, <2>2, <2>3, <2>4
  <1>2. CASE id = NoId
    BY <1>2, GoodSame DEF HoldingHandle
  <1>3. CASE id # NoId
    <2>1. id \in DOMAIN m.calls
      BY <1>3, PlacedIn
    <2> HIDE DEF id
    <2>2. Good(m, m1) /\ m1 \in Managers /\ DOMAIN m1.calls = DOMAIN m.calls
      BY GoodSetState DEF Good, Fine, TelStates
    <2> HIDE DEF m1
    <2>3. m1.needWaitHold => Good(m1, sent2)
      BY <2>1, <2>2, GoodRelease
    <2>4. Good(m1, auto)
      BY <2>2, GoodAutoUnHoldForDsda
    <2> HIDE DEF sent2, auto
    <2>5. (m1.needWaitHold => Good(m, sent2)) /\ Good(m, auto)
      BY <2>2, <2>3, <2>4, GoodTrans
    <2> QED BY <1>1, <2>2, <2>5, GoodSame
  <1> QED BY <1>2, <1>3

\* The ended call leaves the table; it must have lost its mark before.
LEMMA GoodHandleHoldCallOrAutoAnswerCall ==
  ASSUME NEW m \in Managers, NEW id \in DOMAIN m.calls, NEW previous, NEW prior,
         m.pendingMo # id, m.pendingHangup # id
  PROVE  Good(m, HandleHoldCallOrAutoAnswerCall(m, id, previous, prior))
  <1> DEFINE hold == GetOneCallObject(m.calls, "HOLD")
             resumed == IF /\ previous \notin {"HOLD", "ACTIVE"} /\ prior = "DISCONNECTING"
                           /\ hold # NoId /\ IsCanUnHold(m.calls)
                           /\ m.calls[hold].canUnHold /\ m.calls[hold].slot = m.calls[id].slot
                        THEN Ask(m, "unhold", hold) ELSE m
             t == DeleteOneCallObject(resumed.calls, id)
             gone == [resumed EXCEPT !.calls = t]
             auto == AutoUnHoldForDsda(gone, m.calls[id].canSwitch, prior,
                                       GetCallNum(m.calls, "ACTIVE") = 0, m.calls[id].slot)
  <1>1. HandleHoldCallOrAutoAnswerCall(m, id, previous, prior)
          = IF DsdaMode THEN auto ELSE gone
    BY DEF HandleHoldCallOrAutoAnswerCall
  <1>2. hold \in DOMAIN m.calls \cup {NoId}
    BY SearchIn
  <1>3. resumed = m \/ (hold # NoId /\ resumed = Ask(m, "unhold", hold))
    OBVIOUS
  <1> HIDE DEF hold, resumed
  <1>4. /\ resumed \in Managers /\ resumed.calls = m.calls /\ resumed.nextId = m.nextId
        /\ resumed.dialing = m.dialing /\ resumed.queue = m.queue
        /\ resumed.pendingMo = m.pendingMo /\ resumed.pendingHangup = m.pendingHangup
        /\ resumed.sent = m.sent /\ resumed.needWaitHold = m.needWaitHold
    <2>1. CASE resumed = m
      BY <2>1
    <2>2. CASE hold # NoId /\ resumed = Ask(m, "unhold", hold)
      <3>1. resumed \in Managers /\ resumed = [m EXCEPT !.req = resumed.req]
        BY <1>2, <2>2, GoodAsk DEF Good, Fine, ModemOps
      <3> QED BY <3>1 DEF Managers
    <2> QED BY <1>3, <2>1, <2>2
  <1>5. m.calls \in Tables /\ m.nextId \in Nat
    BY DEF Managers
  <1>6. /\ t \in Tables /\ DOMAIN t = DOMAIN m.calls \ {id}
        /\ \A i \in DOMAIN m.calls \ {id} : t[i] = m.calls[i]
    <2>1. /\ t \in Tables /\ DOMAIN t = DOMAIN resumed.calls \ {id}
          /\ \A i \in DOMAIN resumed.calls \ {id} : t[i] = resumed.calls[i]
      BY <1>4, <1>5, DeleteType, ZenonT(40)
    <2> HIDE DEF t
    <2> QED BY <1>4, <2>1
  <1> HIDE DEF t
  <1>7. /\ gone \in Managers /\ gone.calls = t /\ gone.nextId = m.nextId
        /\ gone.dialing = m.dialing /\ gone.queue = m.queue
        /\ gone.pendingMo = m.pendingMo /\ gone.pendingHangup = m.pendingHangup
        /\ gone.sent = m.sent /\ gone.needWaitHold = m.needWaitHold
    BY <1>4, <1>6 DEF Managers
  <1> HIDE DEF gone
  <1>8. Keeps(m, gone) /\ Serves(m, gone)
    BY <1>5, <1>6, <1>7 DEF Keeps, Known, Marked, Serves
  <1>9. Good(m, gone)
    BY <1>7, <1>8 DEF Good, Fine
  <1>10. Good(gone, auto)
    BY <1>7, GoodAutoUnHoldForDsda
  <1> HIDE DEF auto
  <1>11. Good(m, auto)
    BY <1>9, <1>10, GoodTrans
  <1> QED BY <1>1, <1>9, <1>11

\* A postponed hang-up is never that of the call that ends, so the call that
\* ends is in the table throughout.
LEMMA GoodDisconnectedHandle ==
  ASSUME NEW m \in Managers, NEW rep \in CallReports, NEW src \in Requests \cup {NoRequest},
         NEW ok, dialCallInfo \in Requests \cup {NoRequest}
  PROVE  Good(m, DisconnectedHandle(m, rep, src, ok))
  <1> DEFINE m1 == RefreshDialingStateByOtherState(m, rep, src)
             id == Placed(m1, rep)
             m2 == ClearPendingState(m1, id)
             m3 == SetState(m2, id, "DISCONNECTED")
             off == [m3 EXCEPT !.needWaitHold = FALSE]
             m4 == IF LatchReleased(m3) THEN HandleDialWhenHolding(off, id, ok) ELSE m3
             m5 == HandleHoldCallOrAutoAnswerCall(m4, id, m2.calls[id].run, m2.calls[id].tel)
  <1>1. DisconnectedHandle(m, rep, src, ok) = IF id = NoId THEN m1 ELSE m5
    BY DEF DisconnectedHandle
  <1>2. Good(m, m1) /\ m1 \in Managers
    BY GoodRefresh DEF Good, Fine
  <1> HIDE DEF m1
  <1>3. CASE id = NoId
    BY <1>1, <1>2, <1>3
  <1>4. CASE id # NoId
    <2>1. id \in DOMAIN m1.calls
      BY <1>4, PlacedIn
    <2> HIDE DEF id
    <2>2. /\ Good(m1, m2) /\ m2 \in Managers /\ m2.calls = m1.calls
          /\ m2.pendingMo # id /\ m2.pendingHangup # id
      BY <1>2, <2>1, GoodClearPendingState DEF Good, Fine
    <2> HIDE DEF m2
    <2>3. /\ Good(m2, m3) /\ m3 \in Managers /\ DOMAIN m3.calls = DOMAIN m1.calls
          /\ m3.pendingMo # id /\ m3.pendingHangup # id
      BY <2>2, GoodSetState DEF Good, Fine, TelStates
    <2> HIDE DEF m3
    <2>4. m3.needWaitHold =>
            LET n == HandleDialWhenHolding(off, id, ok)
            IN /\ Good(m3, n) /\ n.pendingMo # id /\ n.pendingHangup # id
               /\ id \in DOMAIN n.calls
      BY <2>1, <2>3, GoodRelease, CallOf
    <2>5. /\ Good(m3, m4) /\ m4.pendingMo # id /\ m4.pendingHangup # id
          /\ id \in DOMAIN m4.calls
      BY <2>1, <2>3, <2>4, GoodSame DEF LatchReleased
    <2> HIDE DEF m4
    <2>6. Good(m4, m5)
      BY <2>5, GoodHandleHoldCallOrAutoAnswerCall DEF Good, Fine
    <2> HIDE DEF m5
    <2>7. Good(m1, m5)
      BY <1>2, <2>2, <2>3, <2>5, <2>6, GoodTrans DEF Good, Fine
    <2> QED BY <1>1, <1>2, <1>4, <2>7, GoodTrans
  <1> QED BY <1>3, <1>4

\* A call report is handled well, and the one that is to open the gate does.
LEMMA GoodHandleCallReportInfo ==
  ASSUME NEW m \in Managers, NEW rep \in CallReports, NEW src \in Requests \cup {NoRequest},
         NEW ok, dialCallInfo \in Requests \cup {NoRequest}
  PROVE  /\ Good(m, HandleCallReportInfo(m, rep, src, ok))
         /\ WillReopen(rep) => ~HandleCallReportInfo(m, rep, src, ok).dialing
  <1> DEFINE handled == CASE rep.tel = "DIALING"       -> DialingHandle(m, rep, src)
                          [] rep.tel = "ALERTING"      -> AlertHandle(m, rep, src)
                          [] rep.tel = "ACTIVE"        -> ActiveHandle(m, rep, src)
                          [] rep.tel = "HOLDING"       -> HoldingHandle(m, rep, ok)
                          [] rep.tel = "DISCONNECTING" -> DisconnectingHandle(m, rep)
                          [] rep.tel = "DISCONNECTED"  -> DisconnectedHandle(m, rep, src, ok)
                          [] OTHER                     -> m
  <1>1. HandleCallReportInfo(m, rep, src, ok) = HandleDsdaInfo(handled, rep.slot)
    BY DEF HandleCallReportInfo
  <1>2. rep.tel \in TelStates
    BY DEF CallReports, Reports
  <1>3. Good(m, handled)
    BY <1>2, GoodDialingHandle, GoodAlertHandle, GoodActiveHandle, GoodHoldingHandle,
       GoodDisconnectingHandle, GoodDisconnectedHandle, GoodSame DEF TelStates
  <1>4. WillReopen(rep) => ~handled.dialing
    BY GoodDialingHandle DEF WillReopen
  <1> HIDE DEF handled
  <1>5. Good(handled, HandleDsdaInfo(handled, rep.slot))
    BY <1>3, GoodHandleDsdaInfo DEF Good, Fine
  <1>6. Good(m, HandleDsdaInfo(handled, rep.slot))
    BY <1>3, <1>5, GoodTrans
  <1>7. ~handled.dialing => ~HandleDsdaInfo(handled, rep.slot).dialing
    BY <1>5 DEF Good, Fine, Keeps
  <1> QED BY <1>1, <1>4, <1>6, <1>7

\* A failure event is handled well: it takes no call out of the table.
LEMMA GoodHandleEventResultReportInfo ==
  ASSUME NEW m \in Managers, NEW op
  PROVE  Good(m, HandleEventResultReportInfo(m, op))
  <1> DEFINE call == GetOneCallObject(m.calls, "DIALING")
             m1 == IF call = NoId THEN m ELSE DealFailDial(m, call)
             m2 == [m1 EXCEPT !.needWaitHold = FALSE]
  <1>1. HandleEventResultReportInfo(m, op) \in {m1, m2}
    BY DEF HandleEventResultReportInfo
  <1>2. call \in DOMAIN m.calls \cup {NoId}
    BY SearchIn
  <1> HIDE DEF call
  <1>3. Good(m, m1) /\ m1 \in Managers
    BY <1>2, GoodSame, GoodDealFailDial DEF Good, Fine
  <1> HIDE DEF m1
  <1>4. Good(m1, m2)
    BY <1>3, GoodClearLatch
  <1> HIDE DEF m2
  <1> QED BY <1>1, <1>3, <1>4, GoodTrans
-----------------------------------------------------------------------------
(* The inductive invariant *)

\* The types of the variables outside the manager's state.
Around ==
    /\ dialTimer \in BOOLEAN
    /\ dialSrc \in Requests \cup {NoRequest} /\ dialCallInfo \in Requests \cup {NoRequest}
    /\ pc \in [Requests -> DialPcs] /\ info \in [Requests -> Requests \cup {NoRequest}]
    /\ user \in Users
    /\ modem \in [Slots -> [1..MaxIdx -> ModemCalls]]

\* A thread that has filled the hand-over slot finds a request in it, and a
\* thread that has taken its request has one.
TypeInv ==
    /\ Manager \in Managers /\ Around
    /\ \A r \in Requests : pc[r] # "idle" => dialSrc \in Requests
    /\ \A r \in Requests : pc[r] \notin {"idle", "packaged"} => info[r] \in Requests

\* Marked, and between its two steps the hang-up client's call stays unmarked.
MarkInv ==
    "list" \notin AsWritten =>
        /\ Marked(Manager)
        /\ user.id <= nextId
        /\ user.pc = "unmarked" /\ pendingMo # NoId => pendingMo # user.id

IInv == TypeInv /\ GateHasOwner /\ MarkInv

\* The fields of Manager are the variables of the same names.
LEMMA ManagerFields ==
  /\ Manager.calls = calls /\ Manager.nextId = nextId /\ Manager.dialing = dialing
  /\ Manager.pendingMo = pendingMo /\ Manager.pendingHangup = pendingHangup
  /\ Manager.hangupTask = hangupTask /\ Manager.queue = queue /\ Manager.req = req
  /\ Manager.sent = sent /\ Manager.needWaitHold = needWaitHold
  BY DEF Manager

\* The step to a given manager's state.
LEMMA BecomeIs ==
  ASSUME NEW n \in Managers, Become(n)
  PROVE  Manager' = n
  BY DEF Become, Manager, Managers

\* A step that leaves the manager's variables alone becomes the same manager.
LEMMA Stays == ASSUME UNCHANGED manager PROVE Become(Manager)
  BY DEF Become, Manager, manager

\* The invariant implies the module's type invariant.
LEMMA TypeInvIsTypeOK == ASSUME TypeInv PROVE TypeOK
  <1>1. Manager \in Managers /\ Around
    BY DEF TypeInv
  <1>2. IsTable(calls)
    BY <1>1, ManagerFields, TablesAre DEF Managers
  <1> QED BY <1>1, <1>2 DEF TypeOK, Around, Manager, Managers

\* The initial states satisfy the inductive invariant.
LEMMA InitIInv == Init => IInv
  <1> SUFFICES ASSUME Init PROVE IInv
    OBVIOUS
  <1>1. EmptyTable \in Tables
    BY TablesAre DEF EmptyTable, IsTable
  <1>1a. /\ queue \in Seq(Reports) /\ req \in [Slots -> Seq(ModemRequests)]
         /\ sent \in [Requests -> Nat]
    BY EmptySeq DEF Init
  <1>1b. hangupTask \in HangupTasks /\ calls \in Tables
    BY <1>1 DEF Init, NoTask, HangupTasks, NoId
  <1>2. Manager \in Managers
    BY <1>1a, <1>1b DEF Init, Manager, Managers, NoId
  <1>3. user \in Users /\ modem \in [Slots -> [1..MaxIdx -> ModemCalls]]
    BY PipelineAssumption DEF Init, Users, UserPcs, ModemCalls, NoId
  <1>4. TypeInv
    BY <1>2, <1>3 DEF TypeInv, Around, Init, DialPcs
  <1>5. GateHasOwner
    BY DEF Init, GateHasOwner
  <1>6. MarkInv
    BY DEF Init, MarkInv, Marked, Manager, EmptyTable, NoId
  <1> QED BY <1>4, <1>5, <1>6 DEF IInv

\* What a step to the manager's state n has to show for each part.
LEMMA TypeNext ==
  ASSUME NEW n \in Managers, Become(n), Around',
         \A r \in Requests : pc'[r] # "idle" => dialSrc' \in Requests,
         \A r \in Requests : pc'[r] \notin {"idle", "packaged"} => info'[r] \in Requests
  PROVE  TypeInv'
  BY BecomeIs DEF TypeInv

\* A good step keeps GateHasOwner when each owner stays one, or leaves with the
\* gate open or its report queued.
LEMMA GateNext ==
  ASSUME TypeInv, GateHasOwner, NEW n, Fine(Manager, n), Become(n),
         \A r \in Requests :
            OwesGate(r) /\ n.dialing => OwesGate(r)' \/ Awaited(n.queue)
  PROVE  GateHasOwner'
  <1> SUFFICES ASSUME dialing'
               PROVE  (\E r \in Requests : OwesGate(r)') \/ Awaited(n.queue)
    BY DEF GateHasOwner, Become, Awaited
  <1>1. n.dialing /\ dialing
    BY ManagerFields DEF Become, Fine, Keeps
  <1>2. Awaited(queue) => Awaited(n.queue)
    BY ManagerFields DEF Fine, Keeps
  <1>3. (\E r \in Requests : OwesGate(r)) \/ Awaited(queue)
    BY <1>1 DEF GateHasOwner, Awaited
  <1> QED BY <1>1, <1>2, <1>3

\* A step to n keeps MarkInv when the hang-up client still holds a known id.
LEMMA MarkNext ==
  ASSUME TypeInv, MarkInv, NEW n \in Managers, Become(n), user' \in Users,
         NEW m, Keeps(m, n), "list" \notin AsWritten /\ Marked(Manager) => Marked(m),
         m.nextId = nextId, m.pendingMo = pendingMo,
         user'.id \in DOMAIN calls \cup {user.id},
         user' = user \/ (user'.pc = "unmarked" => n.pendingMo = NoId)
  PROVE  MarkInv'
  <1> SUFFICES ASSUME "list" \notin AsWritten
               PROVE  /\ Marked(Manager')
                      /\ user'.id <= n.nextId
                      /\ user'.pc = "unmarked" /\ n.pendingMo # NoId => n.pendingMo # user'.id
    BY DEF MarkInv, Become
  <1>1. Manager' = n /\ Manager \in Managers /\ Marked(Manager)
    BY BecomeIs DEF TypeInv, MarkInv
  <1>2. Marked(n)
    BY <1>1 DEF Keeps
  <1>3. /\ n.nextId \in Nat /\ n.pendingMo \in Nat /\ nextId \in Nat /\ user'.id \in Nat
        /\ pendingMo \in Nat
    BY <1>1, ManagerFields DEF Managers, Users
  <1>4. nextId <= n.nextId /\ (n.pendingMo \in {pendingMo, NoId} \/ n.pendingMo > nextId)
    BY DEF Keeps
  <1>5. user'.id <= nextId
    BY <1>1, ManagerFields DEF Marked, MarkInv
  <1>6. user'.pc = "unmarked" /\ n.pendingMo # NoId => n.pendingMo # user'.id
    BY <1>3, <1>4, <1>5 DEF MarkInv
  <1> QED BY <1>1, <1>2, <1>3, <1>4, <1>5, <1>6

\* A step of the queue, a timer or a modem: no client moves.
LEMMA QuietStep ==
  ASSUME IInv, NEW n, Fine(Manager, n), Become(n),
         dialTimer' \in BOOLEAN, modem' \in [Slots -> [1..MaxIdx -> ModemCalls]],
         UNCHANGED <<dialSrc, dialCallInfo, pc, info, user>>
  PROVE  IInv'
  <1>1. TypeInv'
    BY TypeNext DEF IInv, TypeInv, Around, Fine
  <1>2. GateHasOwner'
    BY GateNext DEF IInv, OwesGate
  <1>3. MarkInv'
    BY MarkNext, ManagerFields DEF IInv, Fine, TypeInv, Around
  <1> QED BY <1>1, <1>2, <1>3 DEF IInv

\* A step of dialling thread r: only it moves, and it does not drop the gate.
LEMMA ThreadStep ==
  ASSUME IInv, NEW n, Fine(Manager, n), Become(n), NEW r \in Requests,
         NEW to \in DialPcs, Goto(r, to), pc[r] \notin {"idle", "packaged"},
         OwesGate(r) /\ n.dialing => OwesGate(r)' \/ Awaited(n.queue),
         dialTimer' \in BOOLEAN, dialCallInfo' \in Requests \cup {NoRequest},
         UNCHANGED <<dialSrc, info, user, modem>>
  PROVE  IInv'
  <1>0. pc \in [Requests -> DialPcs] /\ pc' = [pc EXCEPT ![r] = to]
    BY DEF IInv, TypeInv, Around, Goto
  <1>1. \A q \in Requests : pc'[q] = IF q = r THEN to ELSE pc[q]
    BY <1>0
  <1>2. TypeInv'
    <2>1. Around'
      BY <1>0 DEF IInv, TypeInv, Around
    <2>2. \A q \in Requests : pc'[q] # "idle" => dialSrc' \in Requests
      BY <1>1 DEF IInv, TypeInv
    <2>3. \A q \in Requests : pc'[q] \notin {"idle", "packaged"} => info'[q] \in Requests
      BY <1>1 DEF IInv, TypeInv
    <2> QED BY <2>1, <2>2, <2>3, TypeNext DEF Fine
  <1>3. GateHasOwner'
    <2>1. \A q \in Requests : OwesGate(q) /\ n.dialing => OwesGate(q)' \/ Awaited(n.queue)
      BY <1>1 DEF OwesGate
    <2> QED BY <2>1, GateNext DEF IInv
  <1>4. MarkInv'
    BY MarkNext, ManagerFields DEF IInv, Fine, TypeInv, Around
  <1> QED BY <1>2, <1>3, <1>4 DEF IInv

\* A step of the hang-up client.
LEMMA UserStep ==
  ASSUME IInv, NEW n, Fine(Manager, n), Become(n), user' \in Users,
         user'.id \in DOMAIN calls \cup {user.id},
         user'.pc = "unmarked" => n.pendingMo = NoId,
         UNCHANGED <<dialTimer, dialSrc, dialCallInfo, pc, info, modem>>
  PROVE  IInv'
  <1>1. TypeInv'
    BY TypeNext DEF IInv, TypeInv, Around, Fine
  <1>2. GateHasOwner'
    BY GateNext DEF IInv, OwesGate
  <1>3. MarkInv'
    BY MarkNext, ManagerFields DEF IInv, Fine, TypeInv, Around
  <1> QED BY <1>1, <1>2, <1>3 DEF IInv

\* A write to none of the fields Keeps looks at, or one that opens the gate.
SameMarks(m, n) ==
    /\ n \in Managers
    /\ n.calls = m.calls /\ n.nextId = m.nextId /\ n.queue = m.queue
    /\ n.pendingMo = m.pendingMo /\ n.pendingHangup = m.pendingHangup
    /\ n.dialing => m.dialing

\* A write that leaves the marks and the queue alone is a good step.
LEMMA FineSameMarks ==
  ASSUME NEW m \in Managers, NEW n, SameMarks(m, n)
  PROVE  Fine(m, n)
  <1>1. m.nextId \in Nat
    BY DEF Managers
  <1> QED BY <1>1 DEF SameMarks, Fine, Keeps, Marked

\* The single-field writes of the threads.
LEMMA FineWrites ==
  ASSUME NEW m \in Managers
  PROVE  /\ Fine(m, [m EXCEPT !.dialing = FALSE])
         /\ Fine(m, [m EXCEPT !.removing = FALSE])
         /\ Fine(m, [m EXCEPT !.needWaitHold = TRUE])
         /\ Fine(m, [m EXCEPT !.pendingMo = NoId])
         /\ \A t \in HangupTasks : Fine(m, [m EXCEPT !.hangupTask = t])
  <1>1. Fine(m, [m EXCEPT !.dialing = FALSE])
    <2> DEFINE n == [m EXCEPT !.dialing = FALSE]
    <2>1. SameMarks(m, n)
      BY DEF SameMarks, Managers
    <2> QED BY <2>1, FineSameMarks
  <1>2. Fine(m, [m EXCEPT !.removing = FALSE])
    <2> DEFINE n == [m EXCEPT !.removing = FALSE]
    <2>1. SameMarks(m, n)
      BY DEF SameMarks, Managers
    <2> QED BY <2>1, FineSameMarks
  <1>3. Fine(m, [m EXCEPT !.needWaitHold = TRUE])
    <2> DEFINE n == [m EXCEPT !.needWaitHold = TRUE]
    <2>1. SameMarks(m, n)
      BY DEF SameMarks, Managers
    <2> QED BY <2>1, FineSameMarks
  <1>4. Fine(m, [m EXCEPT !.pendingMo = NoId])
    BY SMTT(30) DEF Fine, Keeps, Marked, Managers, NoId
  <1>5. \A t \in HangupTasks : Fine(m, [m EXCEPT !.hangupTask = t])
    BY DEF Fine, Keeps, Marked, Managers
  <1> QED BY <1>1, <1>2, <1>3, <1>4, <1>5

\* An id of the table, or none: what the searches of the threads return.
LEMMA CallToHoldIn == ASSUME NEW r PROVE CallToHold(r) \in DOMAIN calls \cup {NoId}
  BY SearchIn DEF CallToHold
-----------------------------------------------------------------------------
(* The dialling threads keep the invariant *)

\* Filling the hand-over slot keeps the invariant.
LEMMA PackageStep ==
  ASSUME IInv, NEW r \in Requests, PackageDialInformation(r)
  PROVE  IInv'
  <1>1. Become(Manager) /\ Manager \in Managers /\ Fine(Manager, Manager)
    BY Stays, GoodSame DEF Good, PackageDialInformation, IInv, TypeInv
  <1>2. pc \in [Requests -> DialPcs] /\ pc' = [pc EXCEPT ![r] = "packaged"] /\ pc[r] = "idle"
    BY DEF IInv, TypeInv, Around, PackageDialInformation, Goto, At
  <1>3. \A q \in Requests : pc'[q] = IF q = r THEN "packaged" ELSE pc[q]
    BY <1>2
  <1>4. Around'
    BY <1>2 DEF IInv, TypeInv, Around, PackageDialInformation, DialPcs
  <1>5. \A q \in Requests : pc'[q] \notin {"idle", "packaged"} => info'[q] \in Requests
    BY <1>3 DEF IInv, TypeInv, PackageDialInformation
  <1>6. TypeInv'
    BY <1>1, <1>4, <1>5, TypeNext DEF PackageDialInformation
  <1>7. GateHasOwner'
    <2>1. \A q \in Requests : OwesGate(q) => OwesGate(q)'
      BY <1>2, <1>3 DEF OwesGate
    <2> QED BY <1>1, <2>1, GateNext DEF IInv
  <1>8. MarkInv'
    BY <1>1, MarkNext, ManagerFields
    DEF IInv, Fine, TypeInv, Around, PackageDialInformation
  <1> QED BY <1>6, <1>7, <1>8 DEF IInv

\* So does taking the parameters out of it.
LEMMA DialRequestStep ==
  ASSUME IInv, NEW r \in Requests, DialRequest(r)
  PROVE  IInv'
  <1>1. Become(Manager) /\ Manager \in Managers /\ Fine(Manager, Manager)
    BY Stays, GoodSame DEF Good, DialRequest, IInv, TypeInv
  <1>2. /\ pc \in [Requests -> DialPcs] /\ pc' = [pc EXCEPT ![r] = "requested"]
        /\ pc[r] = "packaged" /\ dialSrc \in Requests
        /\ info \in [Requests -> Requests \cup {NoRequest}]
        /\ info' = [info EXCEPT ![r] = dialSrc] /\ dialSrc' = dialSrc
    BY DEF IInv, TypeInv, Around, DialRequest, Goto, At
  <1>3. \A q \in Requests : /\ pc'[q] = IF q = r THEN "requested" ELSE pc[q]
                            /\ info'[q] = IF q = r THEN dialSrc ELSE info[q]
    BY <1>2
  <1>4. Around'
    BY <1>2 DEF IInv, TypeInv, Around, DialRequest, DialPcs
  <1>5. \A q \in Requests : pc'[q] \notin {"idle", "packaged"} => info'[q] \in Requests
    BY <1>2, <1>3 DEF IInv, TypeInv
  <1>6. TypeInv'
    BY <1>1, <1>2, <1>4, <1>5, TypeNext
  <1>7. GateHasOwner'
    <2>1. \A q \in Requests : OwesGate(q) => OwesGate(q)'
      BY <1>2, <1>3 DEF OwesGate
    <2> QED BY <1>1, <2>1, GateNext DEF IInv
  <1>8. MarkInv'
    BY <1>1, MarkNext, ManagerFields DEF IInv, Fine, TypeInv, Around, DialRequest
  <1> QED BY <1>6, <1>7, <1>8 DEF IInv

\* Closing the gate makes the thread its owner.
LEMMA CloseGateStep ==
  ASSUME IInv, NEW r \in Requests, CloseGate(r)
  PROVE  IInv'
  <1> DEFINE n == [Manager EXCEPT !.dialing = TRUE]
  <1>1. Become(n)
    BY DEF CloseGate
  <1>2. /\ n \in Managers /\ Keeps(n, n) /\ (Marked(Manager) => Marked(n))
        /\ n.nextId = nextId /\ n.pendingMo = pendingMo
    <2>1. Manager \in Managers
      BY DEF IInv, TypeInv
    <2>2. n \in Managers /\ n.nextId = Manager.nextId /\ n.pendingMo = Manager.pendingMo
      BY <2>1 DEF Managers
    <2>3. Marked(Manager) => Marked(n)
      BY <2>1 DEF Marked, Managers
    <2> HIDE DEF n
    <2> QED BY <2>2, <2>3, GoodSame, ManagerFields DEF Good, Fine
  <1> HIDE DEF n
  <1>3. pc \in [Requests -> DialPcs] /\ pc' = [pc EXCEPT ![r] = "closing"] /\ pc[r] = "gated"
    BY DEF IInv, TypeInv, Around, CloseGate, Goto, At
  <1>4. \A q \in Requests : pc'[q] = IF q = r THEN "closing" ELSE pc[q]
    BY <1>3
  <1>5. Around'
    BY <1>3 DEF IInv, TypeInv, Around, CloseGate, DialPcs
  <1>6. /\ \A q \in Requests : pc'[q] # "idle" => dialSrc' \in Requests
        /\ \A q \in Requests : pc'[q] \notin {"idle", "packaged"} => info'[q] \in Requests
    BY <1>3, <1>4 DEF IInv, TypeInv, CloseGate
  <1>7. TypeInv'
    BY <1>1, <1>2, <1>5, <1>6, TypeNext
  <1>8. GateHasOwner'
    <2>1. OwesGate(r)'
      BY <1>4 DEF OwesGate
    <2> QED BY <2>1 DEF GateHasOwner
  <1>9. MarkInv'
    BY <1>1, <1>2, MarkNext DEF IInv, TypeInv, Around, CloseGate
  <1> QED BY <1>7, <1>8, <1>9 DEF IInv

\* What every step of a dialling thread can rely on.
LEMMA Standing ==
  ASSUME IInv
  PROVE  /\ Manager \in Managers /\ Fine(Manager, Manager)
         /\ dialTimer \in BOOLEAN /\ dialCallInfo \in Requests \cup {NoRequest}
         /\ dialSrc \in Requests \cup {NoRequest}
         /\ pc \in [Requests -> DialPcs] /\ user \in Users
         /\ modem \in [Slots -> [1..MaxIdx -> ModemCalls]]
         /\ DOMAIN Manager.calls = DOMAIN calls
  BY GoodSame, ManagerFields DEF Good, IInv, TypeInv, Around

\* A thread that writes nothing of the manager's state.
LEMMA IdleStep ==
  ASSUME IInv, NEW r \in Requests, NEW to \in DialPcs, Goto(r, to), UNCHANGED manager,
         pc[r] \notin {"idle", "packaged"},
         OwesGate(r) => to \in {"entered", "blocked", "reporting", "refused"},
         dialTimer' \in BOOLEAN, dialCallInfo' \in Requests \cup {NoRequest},
         UNCHANGED <<dialSrc, info, user, modem>>
  PROVE  IInv'
  <1>1. Become(Manager)
    BY Stays
  <1>2. pc'[r] = to
    BY Standing DEF Goto
  <1>3. OwesGate(r) => OwesGate(r)'
    BY <1>2 DEF OwesGate
  <1> QED BY <1>1, <1>3, Standing, ThreadStep

\* The check of the gate and its closing keep the invariant: the closing thread owns the gate.
LEMMA GateCheckStep ==
  ASSUME IInv, NEW r \in Requests,
         IsDialingCallProcessing(r) \/ SetDialingCallProcessing(r)
  PROVE  IInv'
  <1>1. CASE IsDialingCallProcessing(r)
    <2>1. PICK to \in {"done", "gated"} : Goto(r, to)
      BY <1>1 DEF IsDialingCallProcessing
    <2>2. to \in DialPcs
      BY DEF DialPcs
    <2>3. /\ UNCHANGED manager /\ pc[r] \notin {"idle", "packaged"} /\ ~OwesGate(r)
          /\ UNCHANGED <<dialTimer, dialCallInfo, dialSrc, info, user, modem>>
      BY <1>1 DEF IsDialingCallProcessing, At, OwesGate
    <2> QED BY <2>1, <2>2, <2>3, Standing, IdleStep
  <1>2. CASE SetDialingCallProcessing(r)
    <2>1. /\ Goto(r, "entered") /\ "entered" \in DialPcs
          /\ UNCHANGED manager /\ pc[r] \notin {"idle", "packaged"}
          /\ UNCHANGED <<dialCallInfo, dialSrc, info, user, modem>>
      BY <1>2 DEF SetDialingCallProcessing, At, DialPcs
    <2>2. dialTimer' \in BOOLEAN
      BY <1>2, Standing DEF SetDialingCallProcessing, Managers, Manager
    <2> QED BY <2>1, <2>2, Standing, IdleStep
  <1> QED BY <1>1, <1>2

\* The checks, and the request to hold, keep the invariant.
LEMMA HandleDialingInfoStep ==
  ASSUME IInv, NEW r \in Requests, NEW ok, HandleDialingInfo(r, ok)
  PROVE  IInv'
  <1>1. /\ pc[r] = "entered"
        /\ UNCHANGED <<dialTimer, dialCallInfo, dialSrc, info, user, modem>>
    BY DEF HandleDialingInfo, At
  <1>2. CASE /\ Goto(r, "held") /\ CallToHold(r) # NoId
             /\ Become(Ask(Manager, "hold", CallToHold(r)))
    <2>1. Fine(Manager, Ask(Manager, "hold", CallToHold(r)))
      BY <1>2, CallToHoldIn, Standing, GoodAsk DEF Good, ModemOps
    <2>2. "held" \in DialPcs /\ pc'[r] = "held"
      BY <1>2, Standing DEF DialPcs, Goto
    <2>3. OwesGate(r)'
      BY <2>2 DEF OwesGate
    <2> QED BY <1>1, <1>2, <2>1, <2>2, <2>3, Standing, ThreadStep
  <1>3. CASE UNCHANGED manager /\ \E to \in {"blocked", "reporting", "refused"} : Goto(r, to)
    <2>1. PICK to \in {"blocked", "reporting", "refused"} : Goto(r, to)
      BY <1>3
    <2>2. to \in DialPcs
      BY DEF DialPcs
    <2> QED BY <1>1, <1>3, <2>1, <2>2, Standing, IdleStep
  <1>4. \/ /\ Goto(r, "held") /\ CallToHold(r) # NoId
           /\ Become(Ask(Manager, "hold", CallToHold(r)))
        \/ UNCHANGED manager /\ \E to \in {"blocked", "reporting", "refused"} : Goto(r, to)
    BY DEF HandleDialingInfo
  <1> QED BY <1>2, <1>3, <1>4

\* A refused dial reopens the gate before it stops being its owner.
LEMMA RefusedStep ==
  ASSUME IInv, NEW r \in Requests,
         RestoreDialingFlag(r) \/ RemoveEventHandlerTask(r) \/ ClearNeedWaitHold(r)
  PROVE  IInv'
  <1>1. CASE RestoreDialingFlag(r)
    <2> DEFINE n == [Manager EXCEPT !.dialing = FALSE]
    <2>1. /\ Become(n) /\ Goto(r, "reopened") /\ pc[r] = "refused"
          /\ UNCHANGED <<dialTimer, dialCallInfo, dialSrc, info, user, modem>>
      BY <1>1 DEF RestoreDialingFlag, At
    <2>2. Fine(Manager, n) /\ ~n.dialing
      BY Standing, FineWrites DEF Managers
    <2> HIDE DEF n
    <2>3. "reopened" \in DialPcs
      BY DEF DialPcs
    <2> QED BY <2>1, <2>2, <2>3, Standing, ThreadStep
  <1>2. CASE RemoveEventHandlerTask(r)
    <2>1. /\ UNCHANGED manager /\ Goto(r, "removed") /\ pc[r] = "reopened"
          /\ dialTimer' = FALSE /\ UNCHANGED <<dialCallInfo, dialSrc, info, user, modem>>
      BY <1>2 DEF RemoveEventHandlerTask, At
    <2>2. "removed" \in DialPcs /\ ~OwesGate(r)
      BY <2>1 DEF DialPcs, OwesGate
    <2> QED BY <2>1, <2>2, Standing, IdleStep
  <1>3. CASE ClearNeedWaitHold(r)
    <2> DEFINE n == [Manager EXCEPT !.needWaitHold = FALSE]
    <2>1. /\ Become(n) /\ Goto(r, "done") /\ pc[r] = "removed"
          /\ UNCHANGED <<dialTimer, dialCallInfo, dialSrc, info, user, modem>>
      BY <1>3 DEF ClearNeedWaitHold, At
    <2>2. Fine(Manager, n)
      BY Standing, GoodClearLatch DEF Good
    <2> HIDE DEF n
    <2>3. "done" \in DialPcs /\ ~OwesGate(r)
      BY <2>1 DEF DialPcs, OwesGate
    <2> QED BY <2>1, <2>2, <2>3, Standing, ThreadStep
  <1> QED BY <1>1, <1>2, <1>3

\* So do the statements that set and clear the flag, the task and the latch.
LEMMA LatchSteps ==
  ASSUME IInv, NEW r \in Requests, SetNeedWaitHold(r) \/ StoreDialCallInfo(r)
  PROVE  IInv'
  <1>1. CASE SetNeedWaitHold(r)
    <2> DEFINE n == [Manager EXCEPT !.needWaitHold = TRUE]
    <2>1. /\ Become(n) /\ Goto(r, "reporting") /\ pc[r] = "held"
          /\ UNCHANGED <<dialTimer, dialCallInfo, dialSrc, info, user, modem>>
      BY <1>1 DEF SetNeedWaitHold, At
    <2>2. Fine(Manager, n)
      BY Standing, FineWrites
    <2> HIDE DEF n
    <2>3. "reporting" \in DialPcs /\ pc'[r] = "reporting"
      BY <2>1, Standing DEF DialPcs, Goto
    <2>4. OwesGate(r)'
      BY <2>3 DEF OwesGate
    <2> QED BY <2>1, <2>2, <2>3, <2>4, Standing, ThreadStep
  <1>2. CASE StoreDialCallInfo(r)
    <2>1. /\ UNCHANGED manager /\ Goto(r, "done") /\ pc[r] = "deferring"
          /\ dialCallInfo' = info[r] /\ UNCHANGED <<dialTimer, dialSrc, info, user, modem>>
      BY <1>2 DEF StoreDialCallInfo, At
    <2>2. "done" \in DialPcs /\ ~OwesGate(r) /\ info[r] \in Requests
      BY <2>1 DEF DialPcs, OwesGate, IInv, TypeInv
    <2> QED BY <2>1, <2>2, Standing, IdleStep
  <1> QED BY <1>1, <1>2

\* The thread hands the gate over to the report it queues.
LEMMA ReportStep ==
  ASSUME IInv, NEW r \in Requests, UpdateCallReportInfo(r)
  PROVE  IInv'
  <1> DEFINE rep == CallReport("DIALING", InitIndex, SlotOf[info[r]], info[r])
             q == Append(queue, rep)
             n == [Manager EXCEPT !.firstAdded = FALSE, !.queue = q]
  <1>1. /\ Become(n) /\ Goto(r, "starting") /\ pc[r] = "reporting"
        /\ UNCHANGED <<dialTimer, dialCallInfo, dialSrc, info, user, modem>>
    BY ManagerFields DEF UpdateCallReportInfo, At
  <1>2. info[r] \in Requests /\ SlotOf[info[r]] \in Slots
    BY <1>1, PipelineAssumption DEF IInv, TypeInv
  <1>3. rep \in Reports /\ WillReopen(rep)
    BY <1>2, CallReportType, TableAssumption DEF CallReport, WillReopen, InitIndex, TelStates
  <1> HIDE DEF rep
  <1>4. q \in Seq(Reports) /\ Awaited(q)
    BY <1>3, Standing, AwaitedAppend, ManagerFields DEF Managers
  <1>5. /\ n.queue = q /\ n \in Managers /\ n.calls = Manager.calls
        /\ n.nextId = Manager.nextId /\ n.pendingMo = Manager.pendingMo
        /\ n.pendingHangup = Manager.pendingHangup /\ n.dialing = Manager.dialing
        /\ Manager.nextId \in Nat
    BY <1>4, Standing DEF Managers
  <1> HIDE DEF n, q
  <1>6. Fine(Manager, n)
    BY <1>4, <1>5 DEF Fine, Keeps, Marked
  <1>7. "starting" \in DialPcs
    BY DEF DialPcs
  <1> QED BY <1>1, <1>4, <1>5, <1>6, <1>7, Standing, ThreadStep

\* Sending the dial, or leaving it to wait, keeps the invariant.
LEMMA StartStep ==
  ASSUME IInv, NEW r \in Requests, NEW ok, HandleStartDial(r, ok)
  PROVE  IInv'
  <1>1. /\ pc[r] = "starting" /\ ~OwesGate(r)
        /\ UNCHANGED <<dialTimer, dialCallInfo, dialSrc, info, user, modem>>
    BY DEF HandleStartDial, At, OwesGate
  <1>2. CASE UNCHANGED manager /\ \E to \in {"deferring", "failing"} : Goto(r, to)
    <2>1. PICK to \in {"deferring", "failing"} : Goto(r, to)
      BY <1>2
    <2>2. to \in DialPcs
      BY DEF DialPcs
    <2> QED BY <1>1, <1>2, <2>1, <2>2, Standing, IdleStep
  <1>3. CASE Goto(r, "done") /\ Become(SendDial(Manager, info[r]))
    <2>1. info[r] \in Requests
      BY <1>1 DEF IInv, TypeInv
    <2>2. Fine(Manager, SendDial(Manager, info[r])) /\ "done" \in DialPcs
      BY <2>1, Standing, GoodSendDial DEF DialPcs
    <2> QED BY <1>1, <1>3, <2>2, Standing, ThreadStep
  <1>4. \/ UNCHANGED manager /\ \E to \in {"deferring", "failing"} : Goto(r, to)
        \/ Goto(r, "done") /\ Become(SendDial(Manager, info[r]))
    BY DEF HandleStartDial
  <1> QED BY <1>2, <1>3, <1>4

\* Reporting a dial that failed at once keeps the invariant.
LEMMA FailStep ==
  ASSUME IInv, NEW r \in Requests, HandleDialFail(r)
  PROVE  IInv'
  <1> DEFINE id == GetDialingCall(calls)
  <1>1. /\ pc[r] = "failing" /\ ~OwesGate(r) /\ Goto(r, "done") /\ "done" \in DialPcs
        /\ UNCHANGED <<dialTimer, dialCallInfo, dialSrc, info, user, modem>>
    BY DEF HandleDialFail, At, OwesGate, DialPcs
  <1>2. CASE id = NoId
    BY <1>1, <1>2, Standing, IdleStep DEF HandleDialFail
  <1>3. CASE id # NoId
    <2>1. Become(DealFailDial(Manager, id))
      BY <1>3 DEF HandleDialFail
    <2>2. id \in DOMAIN Manager.calls
      BY <1>3, GetDialingCallIn, Standing
    <2> HIDE DEF id
    <2>3. Fine(Manager, DealFailDial(Manager, id))
      BY <2>2, Standing, GoodDealFailDial DEF Good
    <2> QED BY <1>1, <2>1, <2>3, Standing, ThreadStep
  <1> QED BY <1>2, <1>3
-----------------------------------------------------------------------------
(* The hang-up client, the queue and the timers keep the invariant *)

\* The start of a hang-up keeps the invariant.
LEMMA HangUpCallStep ==
  ASSUME IInv, NEW id \in DOMAIN calls, HangUpCall(id)
  PROVE  IInv'
  <1>1. /\ user' = [pc |-> "checked", id |-> id, left |-> user.left - 1] /\ user.left > 0
        /\ UNCHANGED manager
        /\ UNCHANGED <<dialTimer, dialSrc, dialCallInfo, pc, info, modem>>
    BY DEF HangUpCall
  <1>2. id \in Nat
    BY Standing, CallOf
  <1>3. user' \in Users
    BY <1>1, <1>2, Standing, PipelineAssumption DEF Users, UserPcs
  <1>4. Become(Manager)
    BY <1>1, Stays
  <1> QED BY <1>1, <1>3, <1>4, Standing, UserStep

\* Postponing a hang-up, step by step, keeps the invariant.
LEMMA PostponeSteps ==
  ASSUME IInv, HasPendingMo \/ SetPendingMo \/ SetPendingHangup
  PROVE  IInv'
  <1>1. CASE HasPendingMo
    <2>1. PICK to \in {"postponing", "submitted"} : user' = [user EXCEPT !.pc = to]
      BY <1>1 DEF HasPendingMo
    <2>2. user' \in Users /\ user'.id = user.id /\ user'.pc # "unmarked"
      BY <2>1, Standing DEF Users, UserPcs
    <2>3. UNCHANGED manager /\ UNCHANGED <<dialTimer, dialSrc, dialCallInfo, pc, info, modem>>
      BY <1>1 DEF HasPendingMo
    <2> QED BY <2>2, <2>3, Stays, Standing, UserStep
  <1>2. CASE SetPendingMo
    <2> DEFINE n == [Manager EXCEPT !.pendingMo = NoId]
    <2>1. Become(n) /\ UNCHANGED <<dialTimer, dialSrc, dialCallInfo, pc, info, modem>>
      BY <1>2 DEF SetPendingMo
    <2>2. user' \in Users /\ user'.id = user.id
      BY <1>2, Standing DEF SetPendingMo, Users, UserPcs
    <2>3. Fine(Manager, n) /\ n.pendingMo = NoId
      BY Standing, FineWrites DEF Managers
    <2> HIDE DEF n
    <2> QED BY <2>1, <2>2, <2>3, UserStep
  <1>3. CASE SetPendingHangup
    <2> DEFINE n == [Manager EXCEPT !.pendingHangup = user.id]
    <2>1. /\ Become(n) /\ UNCHANGED <<dialTimer, dialSrc, dialCallInfo, pc, info, modem>>
          /\ user.pc = "unmarked"
      BY <1>3 DEF SetPendingHangup
    <2>2. user' \in Users /\ user'.id = user.id /\ user'.pc # "unmarked" /\ user.id \in Nat
      BY <1>3, Standing DEF SetPendingHangup, Users, UserPcs
    <2>3. /\ n \in Managers /\ n.calls = Manager.calls /\ n.nextId = Manager.nextId
          /\ n.queue = Manager.queue /\ n.pendingMo = Manager.pendingMo
          /\ n.pendingHangup = user.id /\ n.dialing = Manager.dialing
          /\ Manager.nextId \in Nat
      BY <2>2, Standing DEF Managers
    <2> HIDE DEF n
    <2>4. "list" \notin AsWritten =>
              user.id <= Manager.nextId /\ (Manager.pendingMo # NoId => Manager.pendingMo # user.id)
      BY <2>1, ManagerFields DEF IInv, MarkInv
    <2>5. "list" \notin AsWritten /\ Marked(Manager) => Marked(n)
      BY <2>3, <2>4 DEF Marked
    <2>6. Fine(Manager, n)
      BY <2>3, <2>5 DEF Fine, Keeps
    <2> QED BY <2>1, <2>2, <2>6, UserStep
  <1> QED BY <1>1, <1>2, <1>3

\* Posting the protect task keeps the invariant.
LEMMA ProtectStep ==
  ASSUME IInv, PostPendingHangupProtectTask
  PROVE  IInv'
  <1> DEFINE task == [st |-> "armed", id |-> user.id]
             n == IF hangupTask.st # "none" THEN Manager
                  ELSE [Manager EXCEPT !.hangupTask = task]
  <1>1. Become(n) /\ UNCHANGED <<dialTimer, dialSrc, dialCallInfo, pc, info, modem>>
    BY DEF PostPendingHangupProtectTask
  <1>2. user' \in Users /\ user'.id = user.id /\ user'.pc # "unmarked"
    BY Standing DEF PostPendingHangupProtectTask, Users, UserPcs
  <1>3. task \in HangupTasks
    BY Standing DEF HangupTasks, Users
  <1> HIDE DEF task
  <1>4. Fine(Manager, n)
    BY <1>3, Standing, FineWrites
  <1> HIDE DEF n
  <1> QED BY <1>1, <1>2, <1>4, UserStep

\* The hang-up of a numbered call keeps the invariant.
LEMMA HangUpRequestStep ==
  ASSUME IInv, HangUpRequest
  PROVE  IInv'
  <1>1. user' \in Users /\ user'.id = user.id /\ user'.pc # "unmarked"
    BY Standing DEF HangUpRequest, Users, UserPcs
  <1>2. UNCHANGED <<dialTimer, dialSrc, dialCallInfo, pc, info, modem>>
    BY DEF HangUpRequest
  <1>3. CASE user.id \notin DOMAIN calls
    BY <1>1, <1>2, <1>3, Stays, Standing, UserStep DEF HangUpRequest
  <1>4. CASE user.id \in DOMAIN calls
    <2>1. PICK op \in {"hangup", "hangupActive"} : Become(Ask(Manager, op, user.id))
      BY <1>4 DEF HangUpRequest
    <2>2. Fine(Manager, Ask(Manager, op, user.id))
      BY <1>4, Standing, GoodAsk DEF Good, ModemOps
    <2> QED BY <1>1, <1>2, <2>1, <2>2, UserStep
  <1> QED BY <1>3, <1>4

\* Taking a report from the queue takes one owner of the gate at most.
LEMMA AwaitedTail ==
  ASSUME NEW q \in Seq(Reports), q # <<>>
  PROVE  /\ Head(q) \in Reports /\ Tail(q) \in Seq(Reports)
         /\ Awaited(q) => WillReopen(Head(q)) \/ Awaited(Tail(q))
  <1>1. /\ Head(q) \in Reports /\ Head(q) = q[1] /\ Tail(q) \in Seq(Reports)
        /\ Len(q) \in Nat /\ Len(Tail(q)) = Len(q) - 1
        /\ \A i \in 1..Len(Tail(q)) : Tail(q)[i] = q[i + 1]
    BY HeadTailProperties, LenProperties
  <1>2. ASSUME NEW k \in 1..Len(q), WillReopen(q[k]), ~WillReopen(Head(q))
        PROVE  Awaited(Tail(q))
    <2>1. k # 1
      BY <1>1, <1>2
    <2>2. k - 1 \in 1..Len(Tail(q)) /\ Tail(q)[k - 1] = q[k]
      BY <1>1, <2>1
    <2> QED BY <1>2, <2>2 DEF Awaited
  <1> QED BY <1>1, <1>2 DEF Awaited

\* Handling a report keeps the invariant: the gate's last owner leaves the queue
\* only by reopening it.
LEMMA ReportQueueStep ==
  ASSUME IInv, NEW ok, ProcessReport(ok)
  PROVE  IInv'
  <1> DEFINE rep == Head(queue)
             q == Tail(queue)
             m == [Manager EXCEPT !.queue = q]
             n == IF rep.kind = "event" THEN HandleEventResultReportInfo(m, rep.op)
                  ELSE HandleCallReportInfo(m, rep, dialSrc, ok)
  <1>1. /\ queue # <<>> /\ Become(n)
        /\ UNCHANGED <<dialTimer, dialSrc, dialCallInfo, pc, info, user, modem>>
    BY ManagerFields DEF ProcessReport, ReportDue
  <1>2. queue \in Seq(Reports)
    BY Standing, ManagerFields DEF Managers
  <1>3. /\ rep \in Reports /\ q \in Seq(Reports)
        /\ Awaited(queue) => WillReopen(rep) \/ Awaited(q)
    BY <1>1, <1>2, AwaitedTail
  <1>4. rep.kind # "event" => rep \in CallReports
    BY <1>3 DEF Reports, CallReports
  <1>5. rep.kind = "event" => ~WillReopen(rep)
    BY DEF WillReopen
  <1> HIDE DEF rep, q
  <1>6. /\ m \in Managers /\ m.queue = q /\ m.dialing = dialing /\ m.nextId = nextId
        /\ m.pendingMo = pendingMo /\ (Marked(Manager) => Marked(m))
    <2>1. /\ m \in Managers /\ m.queue = q /\ m.dialing = Manager.dialing
          /\ m.nextId = Manager.nextId /\ m.pendingMo = Manager.pendingMo
          /\ m.calls = Manager.calls /\ m.pendingHangup = Manager.pendingHangup
      BY <1>3, Standing DEF Managers
    <2> HIDE DEF m
    <2> QED BY <2>1, ManagerFields DEF Marked
  <1> HIDE DEF m
  <1>7. Fine(m, n) /\ (WillReopen(rep) => ~n.dialing)
    <2>1. CASE rep.kind = "event"
      BY <1>5, <1>6, <2>1, GoodHandleEventResultReportInfo DEF Good
    <2>2. CASE rep.kind # "event"
      BY <1>4, <1>6, <2>2, Standing, GoodHandleCallReportInfo DEF Good
    <2> QED BY <2>1, <2>2
  <1> HIDE DEF n
  <1>8. n \in Managers /\ Keeps(m, n)
    BY <1>7 DEF Fine
  <1>9. TypeInv'
    BY <1>1, <1>8, TypeNext DEF IInv, TypeInv, Around
  <1>10. GateHasOwner'
    <2> SUFFICES ASSUME dialing'
                 PROVE  (\E r \in Requests : OwesGate(r)') \/ Awaited(n.queue)
      BY <1>1 DEF GateHasOwner, Become, Awaited
    <2>1. n.dialing /\ dialing
      BY <1>1, <1>6, <1>8 DEF Become, Keeps
    <2>2. CASE \E r \in Requests : OwesGate(r)
      BY <1>1, <2>2 DEF OwesGate
    <2>3. CASE Awaited(queue)
      BY <1>3, <1>6, <1>7, <1>8, <2>1, <2>3 DEF Keeps
    <2> QED BY <2>1, <2>2, <2>3 DEF IInv, GateHasOwner, Awaited
  <1>11. MarkInv'
    BY <1>1, <1>6, <1>8, Standing, MarkNext DEF IInv
  <1> QED BY <1>9, <1>10, <1>11 DEF IInv

\* The timers and the removal of the task keep the invariant.
LEMMA TimerSteps ==
  ASSUME IInv, HandlerRemovesTask \/ DialTimerFires \/ PendingHangupTimeout
  PROVE  IInv'
  <1>1. CASE HandlerRemovesTask
    <2> DEFINE n == [Manager EXCEPT !.removing = FALSE]
    <2>1. Become(n) /\ dialTimer' = FALSE
          /\ UNCHANGED <<dialSrc, dialCallInfo, pc, info, user, modem>>
      BY <1>1 DEF HandlerRemovesTask
    <2>2. Fine(Manager, n)
      BY Standing, FineWrites
    <2> HIDE DEF n
    <2> QED BY <2>1, <2>2, Standing, QuietStep
  <1>2. CASE DialTimerFires
    <2> DEFINE n == [Manager EXCEPT !.dialing = FALSE]
    <2>1. Become(n) /\ dialTimer' = FALSE
          /\ UNCHANGED <<dialSrc, dialCallInfo, pc, info, user, modem>>
      BY <1>2 DEF DialTimerFires
    <2>2. Fine(Manager, n)
      BY Standing, FineWrites
    <2> HIDE DEF n
    <2> QED BY <2>1, <2>2, Standing, QuietStep
  <1>3. CASE PendingHangupTimeout
    <2> DEFINE id == hangupTask.id
               failed == IF id \in DOMAIN calls THEN DealFailDial(Manager, id) ELSE Manager
               task == [hangupTask EXCEPT !.st = "spent"]
               spent == [Manager EXCEPT !.hangupTask = task]
    <2>1. /\ Become(DropPendingHangup(failed)) \/ Become(spent)
          /\ UNCHANGED <<dialTimer, dialSrc, dialCallInfo, pc, info, user, modem>>
      BY <1>3, ManagerFields DEF PendingHangupTimeout
    <2>2. task \in HangupTasks
      BY Standing, ManagerFields DEF Managers, HangupTasks
    <2> HIDE DEF task, id
    <2>3. Fine(Manager, spent)
      BY <2>2, Standing, FineWrites
    <2>4. Fine(Manager, failed)
      BY Standing, GoodDealFailDial, GoodSame DEF Good
    <2> HIDE DEF failed, spent
    <2>5. Fine(failed, DropPendingHangup(failed))
      BY <2>4, GoodDropPendingHangup DEF Good, Fine
    <2>6. Fine(Manager, DropPendingHangup(failed))
      BY <2>4, <2>5, Standing, FineTrans
    <2> QED BY <2>1, <2>3, <2>6, Standing, QuietStep
  <1> QED BY <1>1, <1>2, <1>3
-----------------------------------------------------------------------------
(* The modems keep the invariant *)

\* Reports put behind the others take none of them away.
LEMMA AwaitedConcat ==
  ASSUME NEW q \in Seq(Reports), NEW p \in Seq(Reports)
  PROVE  /\ q \o p \in Seq(Reports)
         /\ Awaited(q) => Awaited(q \o p)
  <1>1. /\ q \o p \in Seq(Reports) /\ Len(q \o p) = Len(q) + Len(p)
        /\ Len(q) \in Nat /\ Len(p) \in Nat
        /\ \A k \in 1..Len(q) : (q \o p)[k] = q[k]
    BY ConcatProperties, LenProperties
  <1>2. ASSUME NEW k \in 1..Len(q), WillReopen(q[k]) PROVE Awaited(q \o p)
    <2>1. k \in 1..Len(q \o p) /\ (q \o p)[k] = q[k]
      BY <1>1
    <2> QED BY <1>2, <2>1 DEF Awaited
  <1> QED BY <1>1, <1>2 DEF Awaited

\* A modem's step changes its calls, its requests and the end of the queue.
LEMMA ModemStep ==
  ASSUME IInv, NEW s \in Slots, NEW c \in [1..MaxIdx -> ModemCalls],
         NEW rest \in [Slots -> Seq(ModemRequests)], NEW reports \in Seq(Reports),
         modem' = [modem EXCEPT ![s] = c], req' = rest, queue' = queue \o reports,
         UNCHANGED environment
  PROVE  IInv'
  <1> DEFINE q == queue \o reports
             n == [Manager EXCEPT !.queue = q, !.req = rest]
  <1>1. q \in Seq(Reports) /\ (Awaited(queue) => Awaited(q))
    BY Standing, ManagerFields, AwaitedConcat DEF Managers
  <1> HIDE DEF q
  <1>2. Become(n)
    BY DEF Become, Manager, environment, q
  <1>3. /\ n \in Managers /\ n.queue = q /\ n.calls = Manager.calls
        /\ n.nextId = Manager.nextId /\ n.pendingMo = Manager.pendingMo
        /\ n.pendingHangup = Manager.pendingHangup /\ n.dialing = Manager.dialing
        /\ Manager.nextId \in Nat
    BY <1>1, Standing DEF Managers
  <1> HIDE DEF n
  <1>4. Fine(Manager, n)
    BY <1>1, <1>3, ManagerFields DEF Fine, Keeps, Marked
  <1>5. modem' \in [Slots -> [1..MaxIdx -> ModemCalls]] /\ dialTimer' \in BOOLEAN
    BY Standing DEF environment
  <1>6. UNCHANGED <<dialSrc, dialCallInfo, pc, info, user>>
    BY DEF environment
  <1> QED BY <1>2, <1>4, <1>5, <1>6, QuietStep

\* A modem that serves a request and queues reports keeps the invariant.
LEMMA ServeStep ==
  ASSUME IInv, NEW s \in Slots, NEW ops, NEW c \in [1..MaxIdx -> ModemCalls],
         NEW reports \in Seq(Reports), Asked(s, ops), Serve(s, c, reports),
         UNCHANGED environment
  PROVE  IInv'
  <1> DEFINE rest == [req EXCEPT ![s] = Tail(req[s])]
  <1>1. req \in [Slots -> Seq(ModemRequests)] /\ req[s] # <<>>
    BY Standing, ManagerFields DEF Managers, Asked
  <1>2. Tail(req[s]) \in Seq(ModemRequests)
    BY <1>1, HeadTailProperties
  <1>3. rest \in [Slots -> Seq(ModemRequests)]
    BY <1>1, <1>2
  <1>4. /\ modem' = [modem EXCEPT ![s] = c] /\ req' = rest
        /\ queue' = queue \o reports
    BY DEF Serve
  <1> HIDE DEF rest
  <1> QED BY <1>3, <1>4, ModemStep

\* A call in some state of the modem has a number, and reports are reports.
LEMMA SeenType ==
  ASSUME IInv, NEW s \in Slots, NEW states, "NONE" \notin states,
         NEW i \in InModemState(s, states), NEW tel \in TelStates
  PROVE  /\ i \in 1..MaxIdx
         /\ modem[s][i] \in [st: ModemStates, num: Requests]
         /\ Seen(s, i, tel) \in Reports
         /\ <<Seen(s, i, tel)>> \in Seq(Reports)
  <1>1. i \in 1..MaxIdx /\ modem[s][i].st # "NONE" /\ modem[s][i] \in ModemCalls
    BY Standing DEF InModemState
  <1>2. modem[s][i] \in [st: ModemStates, num: Requests]
    BY <1>1 DEF ModemCalls, NoCall
  <1>3. i \in 0..MaxIdx /\ modem[s][i].num \in Requests
    BY <1>1, <1>2, TableAssumption
  <1>4. Seen(s, i, tel) \in Reports
    BY <1>3, CallReportType DEF Seen
  <1> QED BY <1>1, <1>2, <1>4

\* A request on its way.
LEMMA HeadReqType ==
  ASSUME IInv, NEW s \in Slots, NEW ops, Asked(s, ops)
  PROVE  Head(req[s]) \in ModemRequests
  BY Standing, ManagerFields, HeadTailProperties DEF Managers, Asked

\* A modem's answers to a dial are reports of known slots, indices and numbers.
LEMMA ModemDialStep ==
  ASSUME IInv, NEW s \in Slots, ModemDial(s)
  PROVE  IInv'
  <1> DEFINE free == InModemState(s, {"NONE"})
             num == Head(req[s]).num
             active == InModemState(s, {"ACTIVE"})
             c(i, st) == [j \in 1..MaxIdx |->
                            CASE j = i      -> [st |-> st, num |-> num]
                              [] j \in active -> [modem[s][j] EXCEPT !.st = "HOLDING"]
                              [] OTHER        -> modem[s][j]]
             held == IF active = {} THEN <<>>
                     ELSE <<Seen(s, CHOOSE j \in active : TRUE, "HOLDING")>>
             new(i, st) == <<CallReport(st, i, s, num)>>
  <1>1. PICK i \in free, st \in {"DIALING", "ALERTING"} : Serve(s, c(i, st), held \o new(i, st))
    BY DEF ModemDial
  <1>2. Asked(s, {"dial"}) /\ UNCHANGED environment
    BY DEF ModemDial
  <1>3. i \in 1..MaxIdx /\ num \in Requests
    BY <1>2, HeadReqType DEF InModemState, ModemRequests
  <1>4. \A j \in active : modem[s][j] \in [st: ModemStates, num: Requests]
    BY SeenType DEF TelStates
  <1>5. \A j \in 1..MaxIdx : modem[s][j] \in ModemCalls
    BY Standing
  <1>6. held \in Seq(Reports)
    <2>1. CASE active = {}
      BY <2>1, EmptySeq
    <2>2. CASE active # {}
      <3> DEFINE k == CHOOSE j \in active : TRUE
      <3>1. k \in active
        BY <2>2
      <3> HIDE DEF k
      <3>2. <<Seen(s, k, "HOLDING")>> \in Seq(Reports)
        BY <3>1, SeenType DEF TelStates
      <3> QED BY <2>2, <3>2 DEF k
    <2> QED BY <2>1, <2>2
  <1> HIDE DEF held, active, num, free
  <1>7. \A j \in 1..MaxIdx : c(i, st)[j] \in ModemCalls
    BY <1>3, <1>4, <1>5 DEF ModemCalls, ModemStates
  <1>8. c(i, st) \in [1..MaxIdx -> ModemCalls]
    BY <1>7
  <1>9. new(i, st) \in Seq(Reports)
    <2>1. CallReport(st, i, s, num) \in Reports
      BY <1>3, CallReportType, TableAssumption DEF TelStates
    <2> QED BY <2>1
  <1> HIDE DEF c, new
  <1>10. held \o new(i, st) \in Seq(Reports)
    BY <1>6, <1>9, AwaitedConcat
  <1> QED BY <1>1, <1>2, <1>8, <1>10, ServeStep

\* The answers to hold and unhold keep the invariant.
LEMMA ModemHoldSteps ==
  ASSUME IInv, NEW s \in Slots, ModemHold(s) \/ ModemUnHold(s)
  PROVE  IInv'
  <1>1. PICK from \in {"ACTIVE", "HOLDING"}, to \in {"ACTIVE", "HOLDING"},
             op \in {"hold", "unhold"} :
          LET i == Head(req[s]).idx
          IN /\ Asked(s, {op}) /\ i \in InModemState(s, {from}) /\ UNCHANGED environment
             /\ Serve(s, [modem[s] EXCEPT ![i].st = to], <<Seen(s, i, to)>>)
    BY DEF ModemHold, ModemUnHold
  <1> DEFINE i == Head(req[s]).idx
             call == [modem[s][i] EXCEPT !.st = to]
             c == [modem[s] EXCEPT ![i] = call]
  <1>2. /\ modem[s][i] \in [st: ModemStates, num: Requests]
        /\ <<Seen(s, i, to)>> \in Seq(Reports)
    BY <1>1, SeenType DEF TelStates
  <1>3. Serve(s, c, <<Seen(s, i, to)>>)
    BY <1>1
  <1> HIDE DEF i
  <1>4. call \in ModemCalls
    BY <1>2 DEF ModemCalls, ModemStates
  <1> HIDE DEF call
  <1>5. modem[s] \in [1..MaxIdx -> ModemCalls]
    BY Standing
  <1>6. c \in [1..MaxIdx -> ModemCalls]
    BY <1>4, <1>5
  <1> HIDE DEF c
  <1> QED BY <1>1, <1>2, <1>3, <1>6, ServeStep

\* The answers to a hang-up keep the invariant.
LEMMA ModemHangupStep ==
  ASSUME IInv, NEW s \in Slots, ModemHangup(s)
  PROVE  IInv'
  <1> DEFINE i == Head(req[s]).idx
             held == IF Head(req[s]).op = "hangup" THEN {}
                     ELSE InModemState(s, {"HOLDING"}) \ {i}
             next == CHOOSE j \in held : TRUE
             c == [j \in 1..MaxIdx |-> IF j = i THEN NoCall
                                       ELSE IF held # {} /\ j = next
                                       THEN [modem[s][j] EXCEPT !.st = "ACTIVE"]
                                       ELSE modem[s][j]]
             first(announced) == IF announced THEN <<Seen(s, i, "DISCONNECTING")>> ELSE <<>>
             mid == <<Seen(s, i, "DISCONNECTED")>>
             last == IF held = {} THEN <<>> ELSE <<Seen(s, next, "ACTIVE")>>
  <1>1. PICK announced \in BOOLEAN : Serve(s, c, first(announced) \o mid \o last)
    BY DEF ModemHangup
  <1>2. /\ Asked(s, {"hangup", "hangupActive"}) /\ i \in InModemState(s, ModemStates)
        /\ UNCHANGED environment
    BY DEF ModemHangup
  <1>3. held # {} => next \in InModemState(s, {"HOLDING"})
    OBVIOUS
  <1>4. \A j \in 1..MaxIdx : modem[s][j] \in ModemCalls
    BY Standing
  <1>5. mid \in Seq(Reports) /\ first(announced) \in Seq(Reports)
    BY <1>2, SeenType, EmptySeq DEF TelStates, ModemStates
  <1> HIDE DEF next
  <1>6. held # {} => /\ modem[s][next] \in [st: ModemStates, num: Requests]
                     /\ <<Seen(s, next, "ACTIVE")>> \in Seq(Reports)
    BY <1>3, SeenType DEF TelStates
  <1>7. last \in Seq(Reports)
    BY <1>6, EmptySeq
  <1> HIDE DEF held, first, mid, last, i
  <1>8. \A j \in 1..MaxIdx : c[j] \in ModemCalls
    BY <1>4, <1>6 DEF ModemCalls, ModemStates
  <1>9. c \in [1..MaxIdx -> ModemCalls]
    BY <1>8
  <1> HIDE DEF c
  <1>10. first(announced) \o mid \o last \in Seq(Reports)
    BY <1>5, <1>7, AwaitedConcat
  <1> QED BY <1>1, <1>2, <1>9, <1>10, ServeStep

\* A refusal keeps the invariant.
LEMMA ModemRefusesStep ==
  ASSUME IInv, NEW s \in Slots, ModemRefuses(s)
  PROVE  IInv'
  <1> DEFINE op == Head(req[s]).op
             rep == [kind |-> "event", op |-> op]
             reports == IF op \in ModemFaults \/ op = "dial" THEN <<rep>> ELSE <<>>
  <1>1. Asked(s, ModemOps) /\ Serve(s, modem[s], reports) /\ UNCHANGED environment
    BY DEF ModemRefuses
  <1>2. op \in ModemOps
    BY <1>1 DEF Asked
  <1> HIDE DEF op
  <1>3. rep \in Reports
    BY <1>2 DEF Reports
  <1> HIDE DEF rep
  <1>4. reports \in Seq(Reports)
    BY <1>3, EmptySeq
  <1> HIDE DEF reports
  <1>5. modem[s] \in [1..MaxIdx -> ModemCalls]
    BY Standing
  <1> QED BY <1>1, <1>4, <1>5, ServeStep

\* What the network does to a call keeps the invariant.
LEMMA NetworkSteps ==
  ASSUME IInv, NEW s \in Slots, NEW i \in 1..MaxIdx,
         NetworkAdvances(s, i) \/ NetworkEnds(s, i)
  PROVE  IInv'
  <1>0. modem[s] \in [1..MaxIdx -> ModemCalls] /\ req \in [Slots -> Seq(ModemRequests)]
        /\ queue \in Seq(Reports)
    BY Standing, ManagerFields DEF Managers
  <1>1. CASE NetworkAdvances(s, i)
    <2> DEFINE next == IF modem[s][i].st = "DIALING" THEN "ALERTING" ELSE "ACTIVE"
               call == [modem[s][i] EXCEPT !.st = next]
               c == [modem[s] EXCEPT ![i] = call]
               rep == Seen(s, i, next)
    <2>1. /\ i \in InModemState(s, {"DIALING", "ALERTING"})
          /\ modem' = [modem EXCEPT ![s][i].st = next] /\ queue' = Append(queue, rep)
          /\ UNCHANGED environment /\ req' = req
      BY <1>1 DEF NetworkAdvances
    <2>2. modem' = [modem EXCEPT ![s] = c]
      BY <2>1, <1>0, Standing
    <2>3. modem[s][i] \in [st: ModemStates, num: Requests] /\ rep \in Reports
      BY <2>1, SeenType DEF TelStates
    <2>4. call \in ModemCalls
      BY <2>3 DEF ModemCalls, ModemStates
    <2> HIDE DEF call, rep, next
    <2>5. c \in [1..MaxIdx -> ModemCalls]
      BY <1>0, <2>4
    <2>6. queue' = queue \o <<rep>> /\ <<rep>> \in Seq(Reports)
      BY <1>0, <2>1, <2>3
    <2> HIDE DEF c
    <2> QED BY <1>0, <2>1, <2>2, <2>5, <2>6, ModemStep
  <1>2. CASE NetworkEnds(s, i)
    <2> DEFINE c == [modem[s] EXCEPT ![i] = NoCall]
               rep == Seen(s, i, "DISCONNECTED")
    <2>1. /\ i \in InModemState(s, ModemStates)
          /\ modem' = [modem EXCEPT ![s][i] = NoCall] /\ queue' = Append(queue, rep)
          /\ UNCHANGED environment /\ req' = req
      BY <1>2 DEF NetworkEnds
    <2>2. modem' = [modem EXCEPT ![s] = c]
      BY <2>1, <1>0, Standing
    <2>3. rep \in Reports
      BY <2>1, SeenType DEF TelStates, ModemStates
    <2> HIDE DEF rep
    <2>4. c \in [1..MaxIdx -> ModemCalls]
      BY <1>0 DEF ModemCalls
    <2>5. queue' = queue \o <<rep>> /\ <<rep>> \in Seq(Reports)
      BY <1>0, <2>1, <2>3
    <2> HIDE DEF c
    <2> QED BY <1>0, <2>1, <2>2, <2>4, <2>5, ModemStep
  <1> QED BY <1>1, <1>2
-----------------------------------------------------------------------------
(* A postponed hang-up waits for a call of the table                        *)

\* Between the steps of a postponement the client's call has to stay there, which
\* a report that overtakes it ("hangup") would not respect.
KnownInv ==
    /\ PendingHangupIsLive
    /\ user.pc \in {"postponing", "unmarked"} => user.id \in DOMAIN calls
    /\ user.pc = "checked" => user.id # NoId

\* A dialling thread moves no call and no mark of a hang-up.
LEMMA ThreadWrites ==
  ASSUME IInv, NEW r \in Requests, PackageDialInformation(r) \/ DialThread(r)
  PROVE  UNCHANGED <<calls, pendingHangup, user>>
  <1>1. ASSUME UNCHANGED manager PROVE UNCHANGED <<calls, pendingHangup>>
    BY <1>1 DEF manager
  <1>2. ASSUME NEW ok, HandleDialingInfo(r, ok) PROVE UNCHANGED <<calls, pendingHangup, user>>
    <2>1. CASE UNCHANGED manager
      BY <1>1, <1>2, <2>1 DEF HandleDialingInfo
    <2>2. CASE CallToHold(r) # NoId /\ Become(Ask(Manager, "hold", CallToHold(r)))
      <3> DEFINE n == Ask(Manager, "hold", CallToHold(r))
      <3>1. n = [Manager EXCEPT !.req = n.req]
        BY <2>2, CallToHoldIn, Standing, GoodAsk DEF ModemOps
      <3>2. n.calls = calls /\ n.pendingHangup = pendingHangup
        BY <3>1 DEF Manager
      <3> HIDE DEF n
      <3> QED BY <1>2, <2>2, <3>2 DEF n, Become, HandleDialingInfo
    <2> QED BY <1>2, <2>1, <2>2 DEF HandleDialingInfo
  <1>3. ASSUME NEW ok, HandleStartDial(r, ok) PROVE UNCHANGED <<calls, pendingHangup, user>>
    <2>1. CASE UNCHANGED manager
      BY <1>1, <1>3, <2>1 DEF HandleStartDial
    <2>2. CASE Become(SendDial(Manager, info[r])) /\ pc[r] = "starting"
      <3>1. info[r] \in Requests
        BY <2>2 DEF IInv, TypeInv
      <3>2. /\ SendDial(Manager, info[r]).calls = calls
            /\ SendDial(Manager, info[r]).pendingHangup = pendingHangup
        BY <3>1, Standing, GoodSendDial, ManagerFields
      <3> QED BY <1>3, <2>2, <3>2 DEF Become, HandleStartDial
    <2> QED BY <1>3, <2>1, <2>2 DEF HandleStartDial, At
  <1>4. CASE HandleDialFail(r)
    <2> DEFINE id == GetDialingCall(calls)
    <2>1. CASE UNCHANGED manager
      BY <1>1, <1>4, <2>1 DEF HandleDialFail
    <2>2. CASE id # NoId /\ Become(DealFailDial(Manager, id))
      <3>1. id \in DOMAIN Manager.calls
        BY <2>2, GetDialingCallIn, Standing
      <3>2. /\ DealFailDial(Manager, id).calls = calls
            /\ DealFailDial(Manager, id).pendingHangup = pendingHangup
        BY <3>1, Standing, GoodDealFailDial, ManagerFields
      <3> QED BY <1>4, <2>2, <3>2 DEF Become, HandleDialFail
    <2> QED BY <1>4, <2>1, <2>2 DEF HandleDialFail
  <1>5. CASE \/ CloseGate(r) \/ RestoreDialingFlag(r) \/ ClearNeedWaitHold(r)
             \/ SetNeedWaitHold(r) \/ UpdateCallReportInfo(r)
    BY <1>5 DEF CloseGate, RestoreDialingFlag, ClearNeedWaitHold, SetNeedWaitHold,
       UpdateCallReportInfo, Become, Manager
  <1>6. CASE \/ PackageDialInformation(r) \/ DialRequest(r) \/ IsDialingCallProcessing(r)
             \/ SetDialingCallProcessing(r) \/ RemoveEventHandlerTask(r) \/ StoreDialCallInfo(r)
    BY <1>6, <1>1 DEF PackageDialInformation, DialRequest, IsDialingCallProcessing,
       SetDialingCallProcessing, RemoveEventHandlerTask, StoreDialCallInfo
  <1> QED BY <1>2, <1>3, <1>4, <1>5, <1>6 DEF DialThread

\* The handling of a report: at most the waiting dial is sent, as the latch is
\* cleared, and a call whose hang-up waits stays in the table.
LEMMA ReportServes ==
  ASSUME IInv, NEW ok, ProcessReport(ok)
  PROVE  /\ needWaitHold' => needWaitHold
         /\ \/ sent' = sent
            \/ /\ needWaitHold /\ ~needWaitHold' /\ dialCallInfo \in Requests
               /\ sent' = [sent EXCEPT ![dialCallInfo] = @ + 1]
         /\ PendingHangupIsLive => PendingHangupIsLive'
  <1> DEFINE rep == Head(queue)
             q == Tail(queue)
             m == [Manager EXCEPT !.queue = q]
             n == IF rep.kind = "event" THEN HandleEventResultReportInfo(m, rep.op)
                  ELSE HandleCallReportInfo(m, rep, dialSrc, ok)
  <1>1. queue # <<>> /\ Become(n) /\ queue \in Seq(Reports)
    BY Standing, ManagerFields DEF ProcessReport, ReportDue, Managers
  <1>2. rep \in Reports /\ q \in Seq(Reports)
    BY <1>1, AwaitedTail
  <1>3. rep.kind # "event" => rep \in CallReports
    BY <1>2 DEF Reports, CallReports
  <1> HIDE DEF rep, q
  <1>4. /\ m \in Managers /\ m.calls = calls /\ m.pendingHangup = pendingHangup
        /\ m.sent = sent /\ m.needWaitHold = needWaitHold
    BY <1>2, Standing DEF Managers, Manager
  <1> HIDE DEF m
  <1>5. Good(m, n)
    BY <1>3, <1>4, Standing, GoodHandleEventResultReportInfo, GoodHandleCallReportInfo
  <1> HIDE DEF n
  <1>6. Serves(m, n) /\ (Known(m) => Known(n))
    BY <1>5 DEF Good, Serves
  <1>7. Known(m) <=> PendingHangupIsLive
    BY <1>4 DEF Known, PendingHangupIsLive
  <1>8. /\ n.needWaitHold = needWaitHold' /\ n.sent = sent'
        /\ n.calls = calls' /\ n.pendingHangup = pendingHangup'
    BY <1>1 DEF Become
  <1>9. Known(n) <=> PendingHangupIsLive'
    BY <1>8 DEF Known, PendingHangupIsLive
  <1> QED BY <1>4, <1>6, <1>7, <1>8, <1>9 DEF Serves, SentOn

\* A timer, or a modem, takes no call out of the table.
LEMMA OtherWrites ==
  ASSUME IInv,
         \/ HandlerRemovesTask \/ DialTimerFires \/ PendingHangupTimeout
         \/ \E s \in Slots : Modem(s)
         \/ \E s \in Slots : \E i \in 1..MaxIdx : NetworkAdvances(s, i) \/ NetworkEnds(s, i)
  PROVE  /\ UNCHANGED <<calls, user, pc, info, dialSrc, dialCallInfo, sent, needWaitHold>>
         /\ pendingHangup' \in {pendingHangup, NoId}
  <1>1. CASE HandlerRemovesTask \/ DialTimerFires
    BY <1>1 DEF HandlerRemovesTask, DialTimerFires, Become, Manager
  <1>2. CASE PendingHangupTimeout
    <2> DEFINE id == hangupTask.id
               failed == IF id \in DOMAIN calls THEN DealFailDial(Manager, id) ELSE Manager
               spent == [Manager EXCEPT !.hangupTask.st = "spent"]
               n == IF pendingHangup = id THEN DropPendingHangup(failed) ELSE spent
    <2>1. Become(n) /\ UNCHANGED <<dialSrc, dialCallInfo, pc, info, user>>
      BY <1>2 DEF PendingHangupTimeout
    <2>2. /\ failed \in Managers /\ failed.calls = calls /\ failed.sent = sent
          /\ failed.needWaitHold = needWaitHold
      BY Standing, GoodDealFailDial DEF Good, Fine, Manager
    <2>3. /\ spent.calls = calls /\ spent.sent = sent /\ spent.needWaitHold = needWaitHold
          /\ spent.pendingHangup = pendingHangup
      BY DEF Manager
    <2> HIDE DEF failed, spent
    <2>4. /\ n.calls = calls /\ n.sent = sent /\ n.needWaitHold = needWaitHold
          /\ n.pendingHangup \in {pendingHangup, NoId}
      BY <2>2, <2>3, GoodDropPendingHangup
    <2> HIDE DEF n
    <2> QED BY <2>1, <2>4 DEF Become
  <1>3. ASSUME UNCHANGED environment
        PROVE  UNCHANGED <<calls, user, pc, info, dialSrc, dialCallInfo, sent, needWaitHold,
                           pendingHangup>>
    BY <1>3 DEF environment
  <1>4. ASSUME NEW s \in Slots, Modem(s) PROVE UNCHANGED environment
    BY <1>4 DEF Modem, ModemDial, ModemHold, ModemUnHold, ModemHangup, ModemRefuses
  <1>5. ASSUME NEW s \in Slots, NEW i \in 1..MaxIdx, NetworkAdvances(s, i) \/ NetworkEnds(s, i)
        PROVE  UNCHANGED environment
    BY <1>5 DEF NetworkAdvances, NetworkEnds
  <1> QED BY <1>1, <1>2, <1>3, <1>4, <1>5

\* The hang-up client's own steps.
LEMMA UserWrites ==
  ASSUME IInv, (\E id \in DOMAIN calls : HangUpCall(id)) \/ HangupThread
  PROVE  /\ UNCHANGED <<calls, pc, info, dialSrc, dialCallInfo, sent, needWaitHold>>
         /\ ~SetPendingHangup => UNCHANGED pendingHangup
  <1>1. CASE \E id \in DOMAIN calls : HangUpCall(id)
    BY <1>1 DEF HangUpCall, manager
  <1>2. CASE HasPendingMo \/ SetPendingMo \/ SetPendingHangup
    BY <1>2 DEF HasPendingMo, SetPendingMo, SetPendingHangup, manager, Become, Manager
  <1>3. CASE PostPendingHangupProtectTask
    BY <1>3 DEF PostPendingHangupProtectTask, Become, Manager
  <1>4. CASE HangUpRequest
    <2>1. CASE UNCHANGED manager
      BY <1>4, <2>1 DEF HangUpRequest, manager
    <2>2. CASE user.id \in DOMAIN calls
      <3>1. PICK op \in {"hangup", "hangupActive"} : Become(Ask(Manager, op, user.id))
        BY <1>4, <2>2 DEF HangUpRequest
      <3> DEFINE n == Ask(Manager, op, user.id)
      <3>2. n = [Manager EXCEPT !.req = n.req]
        BY <2>2, Standing, GoodAsk DEF ModemOps
      <3>3. /\ n.calls = calls /\ n.pendingHangup = pendingHangup /\ n.sent = sent
            /\ n.needWaitHold = needWaitHold
        BY <3>2 DEF Manager
      <3> HIDE DEF n
      <3> QED BY <1>4, <3>1, <3>3 DEF n, Become, HangUpRequest
    <2> QED BY <1>4, <2>1, <2>2 DEF HangUpRequest
  <1> QED BY <1>1, <1>2, <1>3, <1>4 DEF HangupThread

\* Every step keeps the call whose hang-up waits in the table.
LEMMA NextKnown ==
  ASSUME "hangup" \notin Races, "list" \notin AsWritten, IInv, KnownInv, [Next]_vars
  PROVE  KnownInv'
  <1>1. ASSUME UNCHANGED <<calls, user>>, pendingHangup' \in {pendingHangup, NoId}
        PROVE  KnownInv'
    BY <1>1 DEF KnownInv, PendingHangupIsLive
  <1>2. ASSUME NEW r \in Requests, PackageDialInformation(r) \/ DialThread(r) PROVE KnownInv'
    BY <1>1, <1>2, ThreadWrites
  <1>3. CASE \/ HandlerRemovesTask \/ DialTimerFires \/ PendingHangupTimeout
             \/ \E s \in Slots : Modem(s)
             \/ \E s \in Slots : \E i \in 1..MaxIdx : NetworkAdvances(s, i) \/ NetworkEnds(s, i)
    BY <1>1, <1>3, OtherWrites
  <1>4. ASSUME NEW id \in DOMAIN calls, HangUpCall(id) PROVE KnownInv'
    <2>1. user'.pc = "checked" /\ user'.id = id /\ id # NoId
      BY <1>4, Standing, CallOf DEF HangUpCall
    <2>2. UNCHANGED <<calls, pendingHangup>>
      BY <1>4 DEF HangUpCall, manager
    <2> QED BY <2>1, <2>2 DEF KnownInv, PendingHangupIsLive
  <1>5. CASE HangupThread
    <2>1. UNCHANGED calls /\ (~SetPendingHangup => UNCHANGED pendingHangup)
      BY <1>5, UserWrites
    <2>2. CASE HasPendingMo
      <3>1. /\ user'.id = user.id /\ user.pc = "checked"
            /\ user'.pc \in {"postponing", "submitted"}
            /\ user'.pc = "postponing" => pendingMo = user.id
        BY <2>2, Standing DEF HasPendingMo, Users
      <3>2. pendingMo # NoId => pendingMo \in DOMAIN calls
        BY ManagerFields DEF IInv, MarkInv, Marked
      <3>3. UNCHANGED pendingHangup
        BY <2>2 DEF HasPendingMo, manager
      <3> QED BY <2>1, <3>1, <3>2, <3>3 DEF KnownInv, PendingHangupIsLive
    <2>3. CASE SetPendingMo
      <3>1. user'.id = user.id /\ user.pc = "postponing" /\ user'.pc = "unmarked"
        BY <2>3, Standing DEF SetPendingMo, Users
      <3>2. UNCHANGED pendingHangup
        BY <2>3 DEF SetPendingMo, Become, Manager
      <3> QED BY <2>1, <3>1, <3>2 DEF KnownInv, PendingHangupIsLive
    <2>4. CASE SetPendingHangup
      <3>1. /\ user'.id = user.id /\ user.pc = "unmarked" /\ user'.pc = "claimed"
            /\ pendingHangup' = user.id
        BY <2>4, Standing DEF SetPendingHangup, Users, Become, Manager
      <3> QED BY <2>1, <3>1 DEF KnownInv, PendingHangupIsLive
    <2>5. CASE PostPendingHangupProtectTask \/ HangUpRequest
      <3>1. user'.pc = "idle"
        BY <2>5, Standing DEF PostPendingHangupProtectTask, HangUpRequest, Users
      <3>2. UNCHANGED pendingHangup
        <4>1. ~SetPendingHangup
          BY <2>5 DEF PostPendingHangupProtectTask, HangUpRequest, SetPendingHangup
        <4> QED BY <2>1, <4>1
      <3> QED BY <2>1, <3>1, <3>2 DEF KnownInv, PendingHangupIsLive
    <2> QED BY <1>5, <2>2, <2>3, <2>4, <2>5 DEF HangupThread
  <1>6. CASE ReportQueue
    <2>1. PICK ok : ProcessReport(ok)
      BY <1>6 DEF ReportQueue
    <2>2. UNCHANGED user /\ user.pc \notin {"postponing", "unmarked"}
      BY <2>1 DEF ProcessReport, ReportDue
    <2>3. PendingHangupIsLive'
      BY <2>1, ReportServes DEF KnownInv
    <2> QED BY <2>2, <2>3 DEF KnownInv
  <1>7. CASE UNCHANGED vars
    BY <1>1, <1>7 DEF vars, manager
  <1> QED BY <1>2, <1>3, <1>4, <1>5, <1>6, <1>7 DEF Next
-----------------------------------------------------------------------------
(* No dial is sent twice, as long as clients dial one after the other       *)
(* ("dialers") and no report is handled between a thread's request to hold  *)
(* and the storing of its dial ("hold").  Otherwise a thread finds another  *)
(* one's parameters in the hand-over slot, or the latch set by one thread   *)
(* releases the dial another one left behind.                               *)

Busy(r) == pc[r] \notin {"idle", "done"}

\* One client is inside DialCall at a time, with its own parameters; a request
\* is sent by its own thread as it leaves, or left behind by a thread that is
\* done; and with the latch set the dial left behind has not been sent, or is
\* about to be replaced.
OnceInv ==
    /\ \A q, r \in Requests : Busy(q) /\ Busy(r) => q = r
    /\ \A r \in Requests : /\ pc[r] = "packaged" => dialSrc = r
                           /\ Busy(r) /\ pc[r] # "packaged" => info[r] = r
                           /\ sent[r] \in {0, 1}
                           /\ pc[r] # "done" => sent[r] = 0
    /\ dialCallInfo \in Requests => pc[dialCallInfo] = "done"
    /\ needWaitHold /\ dialCallInfo \in Requests =>
          sent[dialCallInfo] = 0 \/ \E r \in Requests : PreparesToWait(r)

\* A step of thread r that sends nothing and leaves no dial behind.
LEMMA OnceThread ==
  ASSUME IInv, OnceInv, NEW r \in Requests, NEW to \in DialPcs \ {"idle", "packaged"},
         Goto(r, to), Busy(r), pc[r] # "packaged",
         UNCHANGED <<sent, dialSrc, info, dialCallInfo>>,
         needWaitHold' /\ (PreparesToWait(r) \/ ~needWaitHold) => PreparesToWait(r)'
  PROVE  OnceInv'
  <1>1. \A q \in Requests : pc'[q] = IF q = r THEN to ELSE pc[q]
    BY Standing DEF Goto
  <1>2. \A q \in Requests : Busy(q)' => Busy(q)
    BY <1>1 DEF Busy
  <1>3. dialCallInfo \in Requests => dialCallInfo # r
    BY DEF OnceInv, Busy
  <1>4. ASSUME needWaitHold', dialCallInfo \in Requests
        PROVE  sent[dialCallInfo] = 0 \/ \E q \in Requests : PreparesToWait(q)'
    <2>1. CASE ~needWaitHold
      BY <1>4, <2>1
    <2>2. CASE needWaitHold /\ sent[dialCallInfo] # 0
      <3>1. PICK q \in Requests : PreparesToWait(q)
        BY <1>4, <2>2 DEF OnceInv
      <3>2. q = r
        BY <3>1 DEF OnceInv, PreparesToWait, Busy
      <3> QED BY <1>4, <3>1, <3>2
    <2> QED BY <2>1, <2>2
  <1>5. \A q \in Requests : /\ pc'[q] = "packaged" => dialSrc = q
                            /\ Busy(q)' /\ pc'[q] # "packaged" => info[q] = q
                            /\ pc'[q] # "done" => sent[q] = 0
    BY <1>1, <1>2 DEF OnceInv, Busy
  <1>6. dialCallInfo \in Requests => pc'[dialCallInfo] = "done"
    BY <1>1, <1>3 DEF OnceInv
  <1>7. \A p, q \in Requests : Busy(p)' /\ Busy(q)' => p = q
    BY <1>2 DEF OnceInv
  <1> QED BY <1>4, <1>5, <1>6, <1>7 DEF OnceInv

\* A step that moves no dialling thread, sends nothing and sets no latch.
LEMMA OnceElsewhere ==
  ASSUME OnceInv, UNCHANGED <<pc, info, dialSrc, dialCallInfo, sent>>,
         needWaitHold' => needWaitHold
  PROVE  OnceInv'
  BY DEF OnceInv, Busy, PreparesToWait

\* The dialling threads send each dial once.
LEMMA OnceThreads ==
  ASSUME IInv, OnceInv, NEW r \in Requests, DialThread(r)
  PROVE  OnceInv'
  <1> DEFINE Still == UNCHANGED <<sent, needWaitHold>>
  <1>0. ASSUME UNCHANGED manager PROVE Still
    BY <1>0 DEF manager
  <1>1. CASE DialRequest(r)
    <2>1. /\ pc[r] = "packaged" /\ pc' = [pc EXCEPT ![r] = "requested"]
          /\ info' = [info EXCEPT ![r] = dialSrc] /\ UNCHANGED <<dialSrc, dialCallInfo>> /\ Still
      BY <1>0, <1>1 DEF DialRequest, At, Goto
    <2>2. \A q \in Requests : /\ pc'[q] = IF q = r THEN "requested" ELSE pc[q]
                              /\ info'[q] = IF q = r THEN r ELSE info[q]
      BY <2>1, Standing DEF OnceInv, IInv, TypeInv, Around
    <2>3. \A q \in Requests : Busy(q)' <=> Busy(q)
      BY <2>1, <2>2 DEF Busy
    <2>4. \A q \in Requests : PreparesToWait(q)' <=> PreparesToWait(q)
      BY <2>1, <2>2 DEF PreparesToWait
    <2>5. \A q \in Requests : /\ pc'[q] = "packaged" => dialSrc' = q
                              /\ Busy(q)' /\ pc'[q] # "packaged" => info'[q] = q
                              /\ pc'[q] # "done" => sent'[q] = 0
      BY <2>1, <2>2, <2>3 DEF OnceInv
    <2>6. dialCallInfo' \in Requests => pc'[dialCallInfo'] = "done"
      BY <2>1, <2>2 DEF OnceInv
    <2> QED BY <2>1, <2>3, <2>4, <2>5, <2>6 DEF OnceInv
  <1>2. CASE IsDialingCallProcessing(r) \/ SetDialingCallProcessing(r) \/ RemoveEventHandlerTask(r)
    <2>1. PICK to \in {"done", "gated", "entered", "removed"} : Goto(r, to)
      BY <1>2 DEF IsDialingCallProcessing, SetDialingCallProcessing, RemoveEventHandlerTask
    <2>2. /\ Still /\ UNCHANGED <<dialSrc, info, dialCallInfo>>
          /\ pc[r] \in {"requested", "closing", "reopened"}
      BY <1>0, <1>2
      DEF IsDialingCallProcessing, SetDialingCallProcessing, RemoveEventHandlerTask, At
    <2>3. to \in DialPcs \ {"idle", "packaged"} /\ Busy(r) /\ ~PreparesToWait(r)
      BY <2>2 DEF DialPcs, Busy, PreparesToWait
    <2> QED BY <2>1, <2>2, <2>3, OnceThread
  <1>3. CASE CloseGate(r) \/ RestoreDialingFlag(r) \/ ClearNeedWaitHold(r)
    <2>1. PICK to \in {"closing", "reopened", "done"} : Goto(r, to)
      BY <1>3 DEF CloseGate, RestoreDialingFlag, ClearNeedWaitHold
    <2>2. /\ needWaitHold' = needWaitHold \/ ~needWaitHold'
          /\ UNCHANGED <<sent, dialSrc, info, dialCallInfo>>
          /\ pc[r] \in {"gated", "refused", "removed"}
      BY <1>3 DEF CloseGate, RestoreDialingFlag, ClearNeedWaitHold, At, Become, Manager
    <2>3. to \in DialPcs \ {"idle", "packaged"} /\ Busy(r) /\ ~PreparesToWait(r)
      BY <2>2 DEF DialPcs, Busy, PreparesToWait
    <2> QED BY <2>1, <2>2, <2>3, OnceThread
  <1>4. ASSUME NEW ok, HandleDialingInfo(r, ok) PROVE OnceInv'
    <2>1. pc[r] = "entered" /\ UNCHANGED <<dialSrc, info, dialCallInfo>>
      BY <1>4 DEF HandleDialingInfo, At
    <2>2. Still
      <3>1. CASE UNCHANGED manager
        BY <1>0, <3>1
      <3>2. CASE CallToHold(r) # NoId /\ Become(Ask(Manager, "hold", CallToHold(r)))
        <4> DEFINE n == Ask(Manager, "hold", CallToHold(r))
        <4>1. n = [Manager EXCEPT !.req = n.req]
          BY <3>2, CallToHoldIn, Standing, GoodAsk DEF ModemOps
        <4>2. n.sent = sent /\ n.needWaitHold = needWaitHold
          BY <4>1 DEF Manager
        <4> HIDE DEF n
        <4> QED BY <3>2, <4>2 DEF n, Become
      <3> QED BY <1>4, <3>1, <3>2 DEF HandleDialingInfo
    <2>3. PICK to \in {"blocked", "reporting", "held", "refused"} : Goto(r, to)
      BY <1>4 DEF HandleDialingInfo
    <2>4. to \in DialPcs \ {"idle", "packaged"} /\ Busy(r) /\ ~PreparesToWait(r)
      BY <2>1 DEF DialPcs, Busy, PreparesToWait
    <2> QED BY <2>1, <2>2, <2>3, <2>4, OnceThread
  <1>5. CASE SetNeedWaitHold(r) \/ UpdateCallReportInfo(r)
    <2>1. PICK to \in {"reporting", "starting"} : Goto(r, to)
      BY <1>5 DEF SetNeedWaitHold, UpdateCallReportInfo
    <2>2. UNCHANGED <<sent, dialSrc, info, dialCallInfo>> /\ pc[r] \in {"held", "reporting"}
      BY <1>5 DEF SetNeedWaitHold, UpdateCallReportInfo, At, Become, Manager
    <2>3. to \in DialPcs \ {"idle", "packaged"} /\ Busy(r)
      BY <2>2 DEF DialPcs, Busy
    <2>4. needWaitHold' => PreparesToWait(r)'
      BY <2>1, Standing DEF Goto, PreparesToWait
    <2> QED BY <2>1, <2>2, <2>3, <2>4, OnceThread
  <1>6. ASSUME NEW ok, HandleStartDial(r, ok) PROVE OnceInv'
    <2>1. pc[r] = "starting" /\ UNCHANGED <<dialSrc, info, dialCallInfo>>
      BY <1>6 DEF HandleStartDial, At
    <2>2. CASE /\ UNCHANGED manager
               /\ \E to \in {"deferring", "failing"} :
                     Goto(r, to) /\ (needWaitHold => to = "deferring")
      <3>1. PICK to \in {"deferring", "failing"} :
                    Goto(r, to) /\ (needWaitHold => to = "deferring")
        BY <2>2
      <3>2. Still /\ to \in DialPcs \ {"idle", "packaged"} /\ Busy(r)
        BY <1>0, <2>1, <2>2 DEF DialPcs, Busy
      <3>3. needWaitHold => PreparesToWait(r)'
        BY <3>1, Standing DEF Goto, PreparesToWait
      <3> QED BY <2>1, <3>1, <3>2, <3>3, OnceThread
    <2>3. CASE ~needWaitHold /\ Goto(r, "done") /\ Become(SendDial(Manager, info[r]))
      <3>1. info[r] = r /\ r # NoRequest
        BY <2>1, TableAssumption DEF OnceInv, Busy, NoRequest
      <3>2. /\ SendDial(Manager, r).needWaitHold = needWaitHold
            /\ SendDial(Manager, r).sent = [sent EXCEPT ![r] = @ + 1]
        BY <3>1, Standing, GoodSendDial, ManagerFields, ZenonT(40)
      <3>3. ~needWaitHold' /\ sent' = [sent EXCEPT ![r] = @ + 1]
        BY <2>3, <3>1, <3>2 DEF Become
      <3>4. sent \in [Requests -> Nat] /\ sent[r] = 0
        BY <2>1, Standing, ManagerFields DEF Managers, OnceInv
      <3>5. \A q \in Requests : /\ pc'[q] = IF q = r THEN "done" ELSE pc[q]
                                /\ sent'[q] = IF q = r THEN 1 ELSE sent[q]
        BY <2>3, <3>3, <3>4, Standing DEF Goto
      <3>6. \A q \in Requests : Busy(q)' => Busy(q) /\ q # r
        BY <3>5 DEF Busy
      <3> QED BY <2>1, <3>3, <3>5, <3>6 DEF OnceInv, Busy
    <2> QED BY <1>6, <2>2, <2>3 DEF HandleStartDial
  <1>7. CASE StoreDialCallInfo(r)
    <2>1. /\ pc[r] = "deferring" /\ pc' = [pc EXCEPT ![r] = "done"] /\ dialCallInfo' = info[r]
          /\ UNCHANGED <<dialSrc, info>> /\ Still
      BY <1>0, <1>7 DEF StoreDialCallInfo, At, Goto
    <2>2. info[r] = r /\ sent[r] = 0
      BY <2>1 DEF OnceInv, Busy
    <2>3. \A q \in Requests : pc'[q] = IF q = r THEN "done" ELSE pc[q]
      BY <2>1, Standing
    <2>4. \A q \in Requests : Busy(q)' => Busy(q)
      BY <2>3 DEF Busy
    <2> QED BY <2>1, <2>2, <2>3, <2>4 DEF OnceInv, Busy
  <1>8. CASE HandleDialFail(r)
    <2> DEFINE id == GetDialingCall(calls)
    <2>1. Goto(r, "done") /\ pc[r] = "failing" /\ UNCHANGED <<dialSrc, info, dialCallInfo>>
      BY <1>8 DEF HandleDialFail, At
    <2>2. Still
      <3>1. CASE id = NoId
        BY <1>0, <1>8, <3>1 DEF HandleDialFail
      <3>2. CASE id # NoId
        <4>1. id \in DOMAIN Manager.calls /\ Become(DealFailDial(Manager, id))
          BY <1>8, <3>2, GetDialingCallIn, Standing DEF HandleDialFail
        <4>2. /\ DealFailDial(Manager, id).sent = sent
              /\ DealFailDial(Manager, id).needWaitHold = needWaitHold
          BY <4>1, Standing, GoodDealFailDial DEF Manager
        <4> QED BY <4>1, <4>2 DEF Become
      <3> QED BY <3>1, <3>2
    <2>3. "done" \in DialPcs \ {"idle", "packaged"} /\ Busy(r) /\ ~PreparesToWait(r)
      BY <2>1 DEF DialPcs, Busy, PreparesToWait
    <2> QED BY <2>1, <2>2, <2>3, OnceThread
  <1> QED BY <1>1, <1>2, <1>3, <1>4, <1>5, <1>6, <1>7, <1>8 DEF DialThread

\* Every step sends each dial once.
LEMMA NextOnce ==
  ASSUME "dialers" \notin Races, "hold" \notin Races, IInv, OnceInv, [Next]_vars
  PROVE  OnceInv'
  <1>1. ASSUME NEW r \in Requests, PackageDialInformation(r) PROVE OnceInv'
    <2>1. /\ pc[r] = "idle" /\ pc' = [pc EXCEPT ![r] = "packaged"] /\ dialSrc' = r
          /\ \A q \in Requests : ~Busy(q)
          /\ UNCHANGED <<info, dialCallInfo, sent, needWaitHold>>
      BY <1>1 DEF PackageDialInformation, At, Goto, Busy, manager
    <2>2. \A q \in Requests : pc'[q] = IF q = r THEN "packaged" ELSE pc[q]
      BY <2>1, Standing
    <2>3. \A q \in Requests : Busy(q)' <=> q = r
      BY <2>1, <2>2 DEF Busy
    <2>4. \A q \in Requests : ~PreparesToWait(q)
      BY <2>1 DEF PreparesToWait, Busy
    <2> QED BY <2>1, <2>2, <2>3, <2>4 DEF OnceInv, Busy
  <1>2. CASE ReportQueue
    <2>1. PICK ok : ProcessReport(ok)
      BY <1>2 DEF ReportQueue
    <2>2. /\ UNCHANGED <<pc, info, dialSrc, dialCallInfo>>
          /\ \A r \in Requests : ~PreparesToWait(r)
      BY <2>1 DEF ProcessReport, ReportDue
    <2>3. /\ needWaitHold' => needWaitHold
          /\ \/ sent' = sent
             \/ /\ needWaitHold /\ ~needWaitHold' /\ dialCallInfo \in Requests
                /\ sent' = [sent EXCEPT ![dialCallInfo] = @ + 1]
      BY <2>1, ReportServes
    <2>4. CASE sent' = sent
      BY <2>2, <2>3, <2>4, OnceElsewhere
    <2>5. CASE /\ needWaitHold /\ ~needWaitHold' /\ dialCallInfo \in Requests
               /\ sent' = [sent EXCEPT ![dialCallInfo] = @ + 1]
      <3>1. sent \in [Requests -> Nat] /\ sent[dialCallInfo] = 0
        BY <2>2, <2>5, Standing, ManagerFields DEF Managers, OnceInv
      <3>2. \A q \in Requests : sent'[q] = IF q = dialCallInfo THEN 1 ELSE sent[q]
        BY <2>5, <3>1
      <3> QED BY <2>2, <2>5, <3>2 DEF OnceInv, Busy
    <2> QED BY <2>3, <2>4, <2>5
  <1>3. CASE \/ HandlerRemovesTask \/ DialTimerFires \/ PendingHangupTimeout
             \/ \E s \in Slots : Modem(s)
             \/ \E s \in Slots : \E i \in 1..MaxIdx : NetworkAdvances(s, i) \/ NetworkEnds(s, i)
    BY <1>3, OtherWrites, OnceElsewhere
  <1>4. CASE (\E id \in DOMAIN calls : HangUpCall(id)) \/ HangupThread
    BY <1>4, UserWrites, OnceElsewhere
  <1>5. CASE UNCHANGED vars
    BY <1>5, OnceElsewhere DEF vars, manager
  <1> QED BY <1>1, <1>2, <1>3, <1>4, <1>5, OnceThreads DEF Next
-----------------------------------------------------------------------------
(* The theorems *)

\* Every step keeps the inductive invariant.
LEMMA NextIInv == IInv /\ [Next]_vars => IInv'
  <1> SUFFICES ASSUME IInv, [Next]_vars PROVE IInv'
    OBVIOUS
  <1>1. ASSUME NEW r \in Requests, PackageDialInformation(r) \/ DialThread(r) PROVE IInv'
    BY <1>1, PackageStep, DialRequestStep, GateCheckStep, CloseGateStep,
       HandleDialingInfoStep, RefusedStep, LatchSteps, ReportStep, StartStep, FailStep
    DEF DialThread
  <1>2. CASE (\E id \in DOMAIN calls : HangUpCall(id)) \/ HangupThread
    BY <1>2, HangUpCallStep, PostponeSteps, ProtectStep, HangUpRequestStep DEF HangupThread
  <1>3. CASE ReportQueue \/ HandlerRemovesTask \/ DialTimerFires \/ PendingHangupTimeout
    BY <1>3, ReportQueueStep, TimerSteps DEF ReportQueue
  <1>4. ASSUME NEW s \in Slots, Modem(s) PROVE IInv'
    BY <1>4, ModemDialStep, ModemHoldSteps, ModemHangupStep, ModemRefusesStep DEF Modem
  <1>5. ASSUME NEW s \in Slots, NEW i \in 1..MaxIdx,
               NetworkAdvances(s, i) \/ NetworkEnds(s, i)
        PROVE  IInv'
    BY <1>5, NetworkSteps
  <1>6. CASE UNCHANGED vars
    <2>1. UNCHANGED manager
          /\ UNCHANGED <<dialTimer, dialSrc, dialCallInfo, pc, info, user, modem>>
      BY <1>6 DEF vars
    <2> QED BY <2>1, Stays, Standing, QuietStep
  <1> QED BY <1>1, <1>2, <1>3, <1>4, <1>5, <1>6 DEF Next

\* The inductive invariant holds throughout.
LEMMA SpecIInv == Spec => []IInv
  BY InitIInv, NextIInv, PTL DEF Spec

\* TypeCorrect: every variable of the dial pipeline keeps its type, whatever
\* the slots, requests, bounds and races: every request to a modem names a place
\* it could have handed out, and the handlers leave the table a table.
THEOREM TypeCorrect == Spec => []TypeOK
  <1>1. IInv => TypeOK
    BY TypeInvIsTypeOK DEF IInv
  <1> QED BY <1>1, SpecIInv, PTL

\* GateOwned: isDialingCallProcessing_ never stays set for a dial that is
\* over; it holds for any number of clients inside DialCall at once and for
\* timers that fire at any moment (Races is arbitrary).
THEOREM GateOwned == Spec => []GateHasOwner
  <1>1. IInv => GateHasOwner
    BY DEF IInv
  <1> QED BY <1>1, SpecIInv, PTL

\* MoUnplaced: pendingMoCallId_ names a call of the table without an index,
\* in every order of reports, dials and hang-ups, provided AddOneCallObject
\* stores the call it is given.
THEOREM MoUnplaced ==
  ASSUME "list" \notin AsWritten
  PROVE  Spec => []PendingMoIsUnplaced
  <1>1. ASSUME IInv PROVE PendingMoIsUnplaced
    BY <1>1, ManagerFields DEF IInv, MarkInv, Marked, PendingMoIsUnplaced, AtIndex
  <1>2. IInv => PendingMoIsUnplaced
    BY <1>1
  <1> QED BY <1>2, SpecIInv, PTL

\* HangupLive: a postponed hang-up waits for a call that is still in the table,
\* whatever ends the call takes the hang-up along; for any number of dialling
\* clients and timers that fire at any moment, provided no report overtakes
\* HangUpCall between its steps and AddOneCallObject stores the call.
THEOREM HangupLive ==
  ASSUME "hangup" \notin Races, "list" \notin AsWritten
  PROVE  Spec => []PendingHangupIsLive
  <1>1. ASSUME Init PROVE KnownInv
    BY <1>1 DEF Init, KnownInv, PendingHangupIsLive
  <1>2. ASSUME IInv, KnownInv, [Next]_vars PROVE KnownInv'
    BY <1>2, NextKnown
  <1>3. Init => KnownInv
    BY <1>1
  <1>4. IInv /\ KnownInv /\ [Next]_vars => KnownInv'
    BY <1>2
  <1>5. KnownInv => PendingHangupIsLive
    BY DEF KnownInv
  <1> QED BY <1>3, <1>4, <1>5, SpecIInv, PTL DEF Spec

\* SentOnce: no dial is sent to a modem twice, neither by its own thread and
\* HandleDialWhenHolding both, nor by two releases of the latch; in DSDA mode and
\* without, for timers and hang-ups that race the reports, provided clients dial
\* one after the other and no report is handled between the request to hold and
\* the storing of the dial that waits for it.
THEOREM SentOnce ==
  ASSUME "dialers" \notin Races, "hold" \notin Races
  PROVE  Spec => []DialedOnce
  <1>1. ASSUME Init PROVE OnceInv
    <2>1. NoRequest \notin Requests
      BY TableAssumption DEF NoRequest
    <2> QED BY <1>1, <2>1 DEF Init, OnceInv, Busy
  <1>2. ASSUME IInv, OnceInv, [Next]_vars PROVE OnceInv'
    BY <1>2, NextOnce
  <1>3. Init => OnceInv
    BY <1>1
  <1>4. IInv /\ OnceInv /\ [Next]_vars => OnceInv'
    BY <1>2
  <1>5. OnceInv => DialedOnce
    BY DEF OnceInv, DialedOnce
  <1> QED BY <1>3, <1>4, <1>5, SpecIInv, PTL DEF Spec
=============================================================================
