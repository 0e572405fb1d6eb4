--------------------------- MODULE CallQuietProofs ---------------------------
(***************************************************************************)
(* What is left when CallStatusManager has worked off every report: the    *)
(* table has the very calls the modem has, and a dial is in it only while  *)
(* the modem still owes an answer.                                         *)
(*                                                                         *)
(* CallMirrorProofs shows that the table follows the lists.  Here the      *)
(* lists are tied to the modem, place by place: the last of them says what *)
(* the modem has, and a call that is in every list from some point on is   *)
(* the modem's, under the same number (Truth).  A number is not in a       *)
(* report of a dial: the table takes it over from the call under index 0,  *)
(* whichever that is.  So there must be one dial at a time, in the table,  *)
(* in a report that brings it there, or in a list that shows the call, and *)
(* always something on its way that will take it out of index 0 (Dialled). *)
(***************************************************************************)
EXTENDS CallMirrorProofs

\* What was told last of a place is what the modem has there.
LastSays(v, o, d) ==
    /\ DOMAIN v = {} => Look(o) = Look(d)
    /\ \A k \in DOMAIN v : (\A n \in DOMAIN v : n <= k) => Look(v[k]) = Look(d)

\* A call listed to the last is the modem's.
NumFits(v, d) == \A k \in DOMAIN v : Live(d) /\ Through(v, k, 0) => v[k].num = d.num

\* So is one that is known, by a number of K, and listed throughout.
ChainNum(v, K, d) == Live(d) /\ Through(v, 1, 0) => \A n \in K : n = d.num

\* The number the place's call has in the table, and those of its refused calls.
Called(s, i) == {n \in Nums : \/ There(calls[s][i]) /\ n = calls[s][i].num
                              \/ [place |-> <<s, i>>, num |-> n] \in screened}

PlaceTrue(s, i) ==
    /\ s \in reported => LastSays(View(queue, s, i), details[s][i], modem[s][i])
    /\ NumFits(View(queue, s, i), modem[s][i])
    /\ ChainNum(View(queue, s, i), Called(s, i), modem[s][i])

Truth == /\ \A s \in Slots, i \in Indexes : PlaceTrue(s, i)
         /\ ~up => reported = {}

\* The entry k of a view begins a dialled call.
Fresh(v, o, k) ==
    /\ k \in DOMAIN v /\ Dials(v[k])
    /\ (\A n \in DOMAIN v : k <= n) => ~Live(o)
    /\ \A j \in DOMAIN v : j < k /\ (\A n \in DOMAIN v : n <= j \/ k <= n) => ~Live(v[j])
FreshAt(s, i, k) == Fresh(View(queue, s, i), details[s][i], k)

\* A dial of slot s without an index, in the table (p = 0) or reported at p.
Dial(s, p) ==
    \/ p = 0 /\ There(calls[s][InitIndex])
    \/ p \in 1..Len(queue) /\ ~IsList(queue[p]) /\ queue[p].st = "DIALING" /\ queue[p].slot = s
DialNum(s, p) == IF p = 0 THEN calls[s][InitIndex].num ELSE queue[p].num

\* What will take the dial out of the table: the modem's answer, its loss, a report of
\* its end, or a list that has it.
EndReported(s, p) ==
    \E k \in 1..Len(queue) :
        k > p /\ ~IsList(queue[k]) /\ queue[k].st = "DISCONNECTED" /\ queue[k].slot = s
Listed(s, p) ==
    \E i \in Indexes, k \in 1..Len(queue) : k > p /\ FreshAt(s, i, k) /\ ~(k = 1 /\ Done(s, i))
Owed(s, p) ==
    \/ dialReq[s] # 0 \/ ~up
    \/ p = 0 /\ <<s, InitIndex>> \in clearing
    \/ EndReported(s, p) \/ Listed(s, p)

\* The dial is the one the modem was asked for, and the one the lists begin.
Matches(s, p) ==
    /\ \A t \in Slots : dialReq[t] # 0 => s = t /\ DialNum(s, p) = dialReq[t]
    /\ \A i \in Indexes, k \in 1..Len(queue) :
           k > p /\ FreshAt(s, i, k) => View(queue, s, i)[k].num = DialNum(s, p)

DialOK(s, p) == Matches(s, p) /\ Owed(s, p)

Dialled ==
    /\ \A s, t \in Slots, p, q \in Nat :
           Dial(s, p) /\ Dial(t, q) => s = t /\ DialNum(s, p) = DialNum(t, q)
    /\ \A s \in Slots, p \in Nat : Dial(s, p) => DialOK(s, p)
    /\ \A s \in Slots : There(calls[s][InitIndex]) => calls[s][InitIndex].st = "DIALING"

Settled == Truth /\ Dialled
-----------------------------------------------------------------------------
(* One place *)

\* One more list, for the modem's call e.
LEMMA ExtendTrue ==
    ASSUME NEW v, NEW w, NEW n, NEW o, NEW c, NEW d, NEW e, NEW open, NEW U, NEW K,
           Extends(v, w, n, e), Moves(c, d, e, open, U), LastOK(v, o, d, open),
           NumFits(v, d), ChainNum(v, K, d), K # {} => Live(o) \/ DOMAIN v # {}
    PROVE  LastSays(w, o, e) /\ NumFits(w, e) /\ ChainNum(w, K, e)
<1>1. n \in Nat \ {0} /\ DOMAIN v \subseteq 1..(n - 1) /\ n - 1 \in Nat /\ n \notin DOMAIN v
      /\ DOMAIN w = DOMAIN v \cup {n} /\ \A k \in DOMAIN v : w[k] = v[k] /\ k < n /\ 1 <= k /\ k \in Nat
  BY DEF Extends
<1>2. (Live(e) => w[n] = e) /\ (Live(w[n]) => Live(e)) BY DEF Extends
<1>3. \A j \in Nat : Through(w, j, 0) => Through(v, j, 0) BY ExtendThrough
<1>4. ASSUME ~Live(d), Live(e), NEW j \in DOMAIN v, Through(v, j, 0) PROVE FALSE
  <2>1. open BY <1>4 DEF Moves
  <2> QED BY <2>1, <1>1, <1>4, StillLive
<1>5. Live(e) => e.num = d.num \/ ~Live(d) BY DEF Moves
<1>6. LastSays(w, o, e)
  <2>1. Look(w[n]) = Look(e) BY <1>2, LookFacts
  <2>2. ASSUME NEW k \in DOMAIN w, \A m \in DOMAIN w : m <= k PROVE k = n
    <3>1. n <= k BY <1>1, <2>2
    <3> QED BY <3>1, <1>1
  <2>3. DOMAIN w # {} BY <1>1
  <2> QED BY <2>1, <2>2, <2>3 DEF LastSays
<1>7. NumFits(w, e)
  <2>1. ASSUME NEW k \in DOMAIN w, Live(e), Through(w, k, 0) PROVE w[k].num = e.num
    <3>1. CASE k = n BY <3>1, <2>1, <1>2
    <3>2. CASE k # n
      <4>1. k \in DOMAIN v /\ Through(v, k, 0) BY <3>2, <2>1, <1>1, <1>3
      <4>2. Live(d) BY <4>1, <1>4, <2>1
      <4> QED BY <4>1, <4>2, <1>1, <1>5, <2>1 DEF NumFits
    <3> QED BY <3>1, <3>2
  <2> QED BY <2>1 DEF NumFits
<1>8. ChainNum(w, K, e)
  <2>1. ASSUME Live(e), Through(w, 1, 0), NEW x \in K PROVE x = e.num
    <3>1. Through(v, 1, 0) BY <2>1, <1>3
    <3>2. Live(d)
      <4>1. CASE DOMAIN v = {}
        <5>1. Live(o) BY <4>1, <2>1
        <5>2. FinalOK(o, d, open) BY <4>1 DEF LastOK
        <5> QED BY <5>1, <5>2, <2>1 DEF FinalOK, Moves
      <4>2. ASSUME NEW j \in DOMAIN v PROVE Live(d)
        <5>1. Through(v, j, 0) BY <3>1, <1>1 DEF Through
        <5> QED BY <5>1, <1>4, <2>1
      <4> QED BY <4>1, <4>2
    <3> QED BY <3>1, <3>2, <1>5, <2>1 DEF ChainNum
  <2> QED BY <2>1 DEF ChainNum
<1> QED BY <1>6, <1>7, <1>8

\* The modem moves on and nobody is told.
LEMMA SilentTrue ==
    ASSUME NEW v, NEW c, NEW d, NEW e, NEW U, NEW K,
           Moves(c, d, e, FALSE, U), NumFits(v, d), ChainNum(v, K, d)
    PROVE  NumFits(v, e) /\ ChainNum(v, K, e)
<1>1. Live(e) => Live(d) /\ e.num = d.num BY DEF Moves
<1> QED BY <1>1 DEF NumFits, ChainNum

\* The head goes and is remembered.
LEMMA ShiftTrue ==
    ASSUME NEW v, NEW w, NEW o, NEW r, NEW d, NEW K, NEW L, Shifts(v, w),
           Look(r) = (IF 1 \in DOMAIN v THEN Look(v[1]) ELSE Look(o)),
           L \subseteq K, 1 \in DOMAIN v /\ L # {} => Live(v[1])
    PROVE  /\ LastSays(v, o, d) => LastSays(w, r, d)
           /\ NumFits(v, d) => NumFits(w, d)
           /\ ChainNum(v, K, d) => ChainNum(w, L, d)
<1>1. DOMAIN v \subseteq Nat \ {0} BY DEF Shifts
<1>2. \A k \in DOMAIN w : k \in Nat \ {0} /\ k + 1 \in DOMAIN v /\ w[k] = v[k + 1] BY DEF Shifts
<1>3. \A k \in DOMAIN v : k = 1 \/ (k - 1 \in DOMAIN w /\ k - 1 \in Nat \ {0} /\ k = (k - 1) + 1)
  BY <1>1 DEF Shifts
<1>4. \A j \in Nat \ {0} : Through(w, j, 0) <=> Through(v, j + 1, 0) BY ShiftThrough
<1>5. Through(v, 1, 0) <=> Through(w, 1, 0) /\ (1 \in DOMAIN v => Live(v[1])) BY ShiftThrough
<1>6. ASSUME LastSays(v, o, d) PROVE LastSays(w, r, d)
  <2>1. ASSUME DOMAIN w = {} PROVE Look(r) = Look(d)
    <3>1. \A k \in DOMAIN v : k = 1 BY <1>3, <2>1
    <3>2. CASE 1 \in DOMAIN v
      <4>1. \A n \in DOMAIN v : n <= 1 BY <3>1
      <4>2. Look(v[1]) = Look(d) BY <4>1, <3>2, <1>6 DEF LastSays
      <4> QED BY <4>2, <3>2
    <3>3. CASE 1 \notin DOMAIN v
      <4>1. DOMAIN v = {} BY <3>1, <3>3
      <4> QED BY <4>1, <3>3, <1>6 DEF LastSays
    <3> QED BY <3>2, <3>3
  <2>2. ASSUME NEW k \in DOMAIN w, \A n \in DOMAIN w : n <= k PROVE Look(w[k]) = Look(d)
    <3>1. k \in Nat \ {0} /\ k + 1 \in DOMAIN v /\ w[k] = v[k + 1] BY <1>2
    <3>2. ASSUME NEW n \in DOMAIN v PROVE n <= k + 1
      <4>1. CASE n = 1 BY <4>1, <3>1
      <4>2. CASE n # 1
        <5>1. n - 1 \in DOMAIN w /\ n - 1 \in Nat BY <4>2, <1>3
        <5>2. n - 1 <= k BY <5>1, <2>2
        <5> QED BY <5>1, <5>2, <3>1, <1>1
      <4> QED BY <4>1, <4>2
    <3> QED BY <3>1, <3>2, <1>6 DEF LastSays
  <2> QED BY <2>1, <2>2 DEF LastSays
<1>7. ASSUME NumFits(v, d) PROVE NumFits(w, d)
  <2>1. ASSUME NEW k \in DOMAIN w, Live(d), Through(w, k, 0) PROVE w[k].num = d.num
    <3>1. k + 1 \in DOMAIN v /\ Through(v, k + 1, 0) /\ w[k] = v[k + 1] BY <2>1, <1>2, <1>4
    <3> QED BY <3>1, <1>7, <2>1 DEF NumFits
  <2> QED BY <2>1 DEF NumFits
<1>8. ASSUME ChainNum(v, K, d) PROVE ChainNum(w, L, d)
  <2>1. ASSUME Live(d), Through(w, 1, 0), NEW n \in L PROVE n = d.num
    <3>1. Through(v, 1, 0) BY <2>1, <1>5
    <3> QED BY <3>1, <2>1, <1>8 DEF ChainNum
  <2> QED BY <2>1 DEF ChainNum
<1> QED BY <1>6, <1>7, <1>8

\* The table takes over the number of the first list's call.
LEMMA HandledTrue ==
    ASSUME NEW v, NEW d, NEW K, NEW L, 1 \in DOMAIN v, L \subseteq K \cup {v[1].num},
           NumFits(v, d), ChainNum(v, K, d)
    PROVE  ChainNum(v, L, d)
BY DEF NumFits, ChainNum

\* Nothing happens at the place.
LEMMA TrueStill ==
    ASSUME NEW s, NEW i, PlaceTrue(s, i), View(queue', s, i) = View(queue, s, i),
           details'[s][i] = details[s][i], modem'[s][i] = modem[s][i],
           Called(s, i)' \subseteq Called(s, i), s \in reported' => s \in reported
    PROVE  PlaceTrue(s, i)'
<1>1. View(queue, s, i)' = View(queue, s, i) BY DEF View
<1>2. ChainNum(View(queue, s, i), Called(s, i)', modem[s][i]) BY DEF PlaceTrue, ChainNum
<1> QED BY <1>1, <1>2 DEF PlaceTrue

\* A known call that is not in the list at the head is in callDetailsInfo_.
LEMMA CalledLive ==
    ASSUME ListsInv, Following, NEW s \in Slots, NEW i \in Indexes,
           1 \notin DOMAIN View(queue, s, i), Called(s, i) # {}
    PROVE  Live(details[s][i])
<1>1. queue \in Queues BY Expand DEF ListsInv, Managers, Queues
<1>2. ~Done(s, i)
  <2>1. busy => queue # <<>> /\ IsList(Head(queue)) BY DEF ListsInv, AtWork
  <2> QED BY <1>1, <2>1, ViewIs DEF Done, Here
<1>3. PlaceOK(s, i) BY DEF Following
<1>4. Agrees(details[s][i], calls[s][i], Hidden(s, i)) BY <1>2, <1>3 DEF PlaceOK, Lastly
<1>5. calls[s][i] \in TableCalls
  <2>1. calls \in Tables BY Expand DEF ListsInv, Managers
  <2>2. i \in 0..MaxIdx BY PlaceTypes
  <2> QED BY <2>1, <2>2 DEF Tables
<1>6. There(calls[s][i]) => Live(calls[s][i])
  BY <1>5 DEF TableCalls, There, Live, States, NoCall
<1>7. There(calls[s][i]) \/ Hidden(s, i)
  BY DEF Called, Hidden
<1>8. ASSUME There(calls[s][i]) PROVE Live(details[s][i])
  BY <1>4, <1>6, <1>8, LookFacts DEF Agrees
<1>9. ASSUME Hidden(s, i) PROVE Live(details[s][i])
  <2>1. ScreenOK(View(queue, s, i), details[s][i], calls[s][i], modem[s][i], Hidden(s, i), Here(s))
    BY <1>3 DEF PlaceOK, Fits
  <2> QED BY <2>1, <1>9 DEF ScreenOK
<1> QED BY <1>7, <1>8, <1>9

\* The numbers in use are those of the table and of the refused calls.
LEMMA CalledSame ==
    ASSUME NEW s, NEW i, SameCall(calls[s][i], calls'[s][i]), screened' \subseteq screened
    PROVE  Called(s, i)' \subseteq Called(s, i)
BY DEF Called, SameCall, There
-----------------------------------------------------------------------------
(* What the modem has is what was listed last *)

\* Nothing of it changes.
LEMMA TruthStill ==
    ASSUME ListsInv, ListsInv', Truth, Grown(queue, queue'), Keeps(Manager, Manager'),
           UNCHANGED <<details, screened, modem>>, reported' \subseteq reported,
           ~up' => reported' = {}
    PROVE  Truth'
<1>1. queue \in Queues /\ queue' \in Queues BY Expand DEF ListsInv, Managers, Queues
<1>2. ASSUME NEW s \in Slots, NEW i \in Indexes PROVE PlaceTrue(s, i)'
  <2>1. View(queue', s, i) = View(queue, s, i) BY <1>1, ViewGrown
  <2>2. i \in 0..MaxIdx BY PlaceTypes
  <2>3. SameCall(calls[s][i], calls'[s][i]) BY <2>2, Expand DEF Keeps
  <2>4. Called(s, i)' \subseteq Called(s, i) BY <2>3, CalledSame
  <2>5. PlaceTrue(s, i) BY DEF Truth
  <2> QED BY <2>1, <2>4, <2>5, TrueStill
<1> QED BY <1>2 DEF Truth

\* A list is put at the queue's end.
LEMMA TruthPosted ==
    ASSUME ListsInv, ListsInv', Following, Truth, NEW s \in Slots, NEW cs \in [Indexes -> ModemCalls],
           NEW q \in Queues, Grown(queue, q), NEW l \in Lists, l.slot = s, queue' = Append(q, l),
           UNCHANGED <<calls, details, screened>>, up',
           modem' = [modem EXCEPT ![s] = cs], reported' \subseteq reported \cup {s},
           \A i \in Indexes : Moves(calls[s][i], modem[s][i], cs[i], Open(s, i), Seen),
           \A i \in Indexes : (Live(cs[i]) => l.calls[i] = cs[i]) /\ (Live(l.calls[i]) => Live(cs[i]))
    PROVE  Truth'
<1>1. queue \in Queues /\ queue' \in Queues /\ modem \in [Slots -> [Indexes -> ModemCalls]]
  BY Expand DEF ListsInv, Managers, Queues, EnvOK
<1>2. ASSUME NEW t \in Slots, NEW i \in Indexes PROVE PlaceTrue(t, i)'
  <2>1. PlaceTrue(t, i) BY DEF Truth
  <2>2. Called(t, i)' = Called(t, i) BY DEF Called
  <2>3. CASE t = s
    <3> DEFINE v == View(queue, s, i)
               w == View(queue', s, i)
               o == details[s][i]
               K == Called(s, i)
    <3>1. modem'[s][i] = cs[i] BY <1>1
    <3>2. View(q, s, i) = v BY <1>1, ViewGrown
    <3>3. Extends(v, w, Len(q) + 1, cs[i]) BY <3>2, ViewExtends
    <3>4. LastOK(v, o, modem[s][i], Open(s, i)) BY DEF Following, PlaceOK, Fits, Ordered
    <3>5. NumFits(v, modem[s][i]) /\ ChainNum(v, K, modem[s][i]) BY <2>1, <2>3 DEF PlaceTrue
    <3>6. K # {} => Live(o) \/ DOMAIN v # {} BY CalledLive
    <3>7. Moves(calls[s][i], modem[s][i], cs[i], Open(s, i), Seen) OBVIOUS
    <3> HIDE DEF v, w, o, K
    <3>8. LastSays(w, o, cs[i]) /\ NumFits(w, cs[i]) /\ ChainNum(w, K, cs[i])
      BY <3>3, <3>4, <3>5, <3>6, <3>7, ExtendTrue
    <3> QED BY <2>2, <2>3, <3>1, <3>8 DEF PlaceTrue, w, o, K
  <2>4. CASE t # s
    <3>1. modem'[t][i] = modem[t][i] /\ (t \in reported' => t \in reported) BY <1>1, <2>4
    <3>2. View(queue', t, i) = View(queue, t, i) BY <1>1, <2>4, ViewGrown, ViewOther
    <3> QED BY <2>1, <2>2, <3>1, <3>2, TrueStill
  <2> QED BY <2>3, <2>4
<1> QED BY <1>2 DEF Truth

\* The modem moves on, heard or not.
LEMMA TruthModem ==
    ASSUME ListsInv, ListsInv', Following, Truth, Races = {}, NEW s \in Slots, ModemMoves(s)
    PROVE  Truth'
<1>1. PICK cs \in [Indexes -> ModemCalls] :
          ModemBecomes(s, cs) /\ \A i \in Indexes : MovesOn(s, i, cs[i])
  BY DEF ModemMoves
<1>2. /\ UNCHANGED <<calls, details, screened, up>> /\ modem' = [modem EXCEPT ![s] = cs]
      /\ reported' = IF up THEN reported \cup {s} ELSE reported
  BY <1>1 DEF ModemBecomes
<1>3. queue \in Queues /\ modem \in [Slots -> [Indexes -> ModemCalls]] /\ up \in BOOLEAN
  BY Expand DEF ListsInv, Managers, Queues, EnvOK
<1>4. \A i \in Indexes : Moves(calls[s][i], modem[s][i], cs[i], Open(s, i), Seen)
  BY <1>1 DEF MovesOn
<1>5. CASE up
  <2>1. PICK l \in ListsOf(s, cs) : queue' = OnUpdateCallsReportInfo(queue, [slot |-> s, calls |-> l])
    BY <1>1, <1>5 DEF ModemBecomes
  <2> DEFINE x == [slot |-> s, calls |-> l]
  <2>2. x \in Lists /\ x.slot = s BY ListsOfType
  <2>3. PICK named \in SUBSET {i \in Indexes : There(modem[s][i]) /\ ~There(cs[i])} :
           l = [i \in Indexes |-> IF i \in named THEN Ended ELSE cs[i]]
    BY DEF ListsOf
  <2>4. \E i \in Indexes : There(l[i]) BY DEF ListsOf
  <2>5. queue' = Append(queue, x) BY <2>1, <2>4 DEF OnUpdateCallsReportInfo
  <2>6. ASSUME NEW i \in Indexes
        PROVE  (Live(cs[i]) => x.calls[i] = cs[i]) /\ (Live(x.calls[i]) => Live(cs[i]))
    <3>1. CASE i \in named
      <4>1. x.calls[i] = Ended /\ ~There(cs[i]) BY <2>3, <3>1
      <4> QED BY <4>1, StepFacts DEF Ended, Live
    <3>2. CASE i \notin named BY <2>3, <3>2
    <3> QED BY <3>1, <3>2
  <2>7. Grown(queue, queue) BY <1>3, GrownSame
  <2>8. reported' \subseteq reported \cup {s} /\ up' BY <1>2, <1>5
  <2> HIDE DEF x
  <2> QED BY <1>2, <1>3, <1>4, <2>2, <2>5, <2>6, <2>7, <2>8, TruthPosted
<1>6. CASE ~up
  <2>1. queue' = queue BY <1>1, <1>6 DEF ModemBecomes
  <2>2. reported' = {} /\ reported = {} BY <1>2, <1>6 DEF Truth
  <2>3. ASSUME NEW t \in Slots, NEW i \in Indexes PROVE PlaceTrue(t, i)'
    <3>1. PlaceTrue(t, i) BY DEF Truth
    <3>2. Called(t, i)' = Called(t, i) BY <1>2 DEF Called
    <3>3. CASE t = s
      <4>1. modem'[s][i] = cs[i] BY <1>2, <1>3
      <4>2. Moves(calls[s][i], modem[s][i], cs[i], FALSE, Seen)
        BY <1>4, <1>6 DEF Open, Moves
      <4>3. NumFits(View(queue, s, i), cs[i]) /\ ChainNum(View(queue, s, i), Called(s, i), cs[i])
        BY <3>1, <3>3, <4>2, SilentTrue DEF PlaceTrue
      <4> QED BY <2>1, <2>2, <3>2, <3>3, <4>1, <4>3 DEF PlaceTrue
    <3>4. CASE t # s
      <4>1. modem'[t][i] = modem[t][i] BY <1>2, <1>3, <3>4
      <4> QED BY <1>2, <2>1, <2>2, <3>1, <3>2, <4>1, TrueStill
    <3> QED BY <3>3, <3>4
  <2> QED BY <2>2, <2>3 DEF Truth
<1> QED BY <1>3, <1>5, <1>6

\* What a report under index 0 does to the dials.
DialBecomes(m, n, r) ==
    /\ \A t \in Slots : t # r.slot => n.calls[t][InitIndex] = m.calls[t][InitIndex]
    /\ IF r.st = "DIALING"
       THEN n.calls[r.slot][InitIndex].st = "DIALING" /\ n.calls[r.slot][InitIndex].num = r.num
       ELSE ~There(n.calls[r.slot][InitIndex])

\* It brings its dial into the table, or takes it out.
LEMMA InitReportCalls ==
    ASSUME NEW m \in Managers, NEW r \in SoundReports, r.idx = InitIndex, NEW choice
    PROVE  DialBecomes(m, HandleCallReportInfo(m, r, choice), r)
<1> DEFINE d == [st |-> "DIALING", type |-> r.type, num |-> r.num, af |-> "DEFAULT"]
           p == Put(m, r, "DIALING")
           k(x) == [x EXCEPT !.calls[r.slot][r.idx] = NoCall]
<1>1. /\ r.slot \in Slots /\ r.st \in {"DIALING", "DISCONNECTED"}
      /\ InitIndex \in 0..MaxIdx /\ ~(r.idx > InitIndex)
  <2>1. r.slot \in Slots BY ReportTypes
  <2>2. r.st \in {"DIALING", "DISCONNECTED"} BY DEF SoundReports
  <2> QED BY <2>1, <2>2, PlaceTypes DEF InitIndex
<1>2. \A x \in Managers : /\ DOMAIN x = {"calls", "queue", "details", "af", "screened"}
                          /\ DOMAIN x.calls = Slots
                          /\ \A t \in Slots : DOMAIN x.calls[t] = 0..MaxIdx
  BY DEF Managers, Tables
<1>3. DialingHandle(m, r) = p BY <1>1 DEF DialingHandle
<1>4. /\ \A t \in Slots : p.calls[t][InitIndex] = IF t = r.slot THEN d ELSE m.calls[t][InitIndex]
      /\ DOMAIN p = {"calls", "queue", "details", "af", "screened"} /\ p.af = m.af
      /\ DOMAIN p.calls = Slots /\ \A t \in Slots : DOMAIN p.calls[t] = 0..MaxIdx
  <2>1. p = [m EXCEPT !.calls[r.slot][r.idx] = d] BY DEF Put
  <2> HIDE DEF p, d
  <2> QED BY <1>1, <1>2, <2>1
<1> HIDE DEF p
<1>5. CASE r.st = "DIALING"
  <2>1. HandleCallReportInfo(m, r, choice) = p
    BY <1>3, <1>5 DEF HandleCallReportInfo, RingingStates
  <2> QED BY <1>1, <1>4, <1>5, <2>1 DEF DialBecomes
<1>6. CASE r.st = "DISCONNECTED"
  <2> DEFINE n == RefreshDialingStateByOtherState(m, r)
  <2>1. HandleCallReportInfo(m, r, choice) = DisconnectedHandle(m, r, choice)
    BY <1>6 DEF HandleCallReportInfo, RingingStates
  <2>2. n \in {m, p} BY <1>3 DEF RefreshDialingStateByOtherState
  <2>3. n.af = m.af /\ m.af.latch # <<r.slot, InitIndex>> BY <1>1, <1>4, <2>2, NotAPlace
  <2>4. /\ DOMAIN n = {"calls", "queue", "details", "af", "screened"}
        /\ DOMAIN n.calls = Slots /\ \A t \in Slots : DOMAIN n.calls[t] = 0..MaxIdx
    BY <1>2, <1>4, <2>2
  <2>5. \A t \in Slots : t # r.slot => n.calls[t][InitIndex] = m.calls[t][InitIndex]
    BY <1>4, <2>2
  <2> HIDE DEF n
  <2>6. StopAntiFraudDetect(n, <<r.slot, r.idx>>, choice.stop) = n
    BY <2>3 DEF StopAntiFraudDetect
  <2>7. DisconnectedHandle(m, r, choice) = IF ~Known(n, r) THEN n ELSE k(n)
    BY <2>6 DEF DisconnectedHandle, n
  <2>8. k(n).calls[r.slot][InitIndex] = NoCall
        /\ \A t \in Slots : t # r.slot => k(n).calls[t][InitIndex] = n.calls[t][InitIndex]
    BY <1>1, <2>4
  <2> HIDE DEF k
  <2>9. CASE ~Known(n, r) BY <1>6, <2>1, <2>5, <2>7, <2>9 DEF DialBecomes, Known
  <2>10. CASE Known(n, r)
    <3>1. HandleCallReportInfo(m, r, choice) = k(n) BY <2>1, <2>7, <2>10
    <3> QED BY <1>6, <2>5, <2>8, <3>1, CallTypes DEF DialBecomes
  <2> QED BY <2>9, <2>10
<1> QED BY <1>1, <1>5, <1>6

\* HandleSingleReport is about a dial.
LEMMA SingleIs ==
    ASSUME ListsInv, Following, HandleSingleReport
    PROVE  /\ queue # <<>> /\ ~IsList(Head(queue)) /\ Head(queue) \in SoundReports
           /\ Head(queue).st \in {"DIALING", "DISCONNECTED"} /\ ~busy /\ queue' = Tail(queue)
           /\ UNCHANGED <<screened, details, work, busy, env>>
           /\ \A s \in Slots, i \in Indexes : calls'[s][i] = calls[s][i]
           /\ DialBecomes(Manager, Manager', Head(queue))
<1> DEFINE m == [Manager EXCEPT !.queue = Tail(@)]
           r == Head(queue)
<1>1. queue \in Seq(Lists \cup SoundReports) /\ Manager \in Managers /\ queue # <<>> /\ ~IsList(r)
      /\ ~busy /\ UNCHANGED <<work, busy, env>>
  BY Expand DEF ListsInv, Managers, HandleSingleReport
<1>2. r \in SoundReports /\ Tail(queue) \in Seq(Lists \cup SoundReports) BY <1>1, HeadTypes
<1>3. m \in Managers /\ m.calls = calls /\ m.af = Manager.af /\ m.queue = Tail(queue)
      /\ m.screened = screened /\ m.details = details
  BY <1>1, <1>2, Expand DEF Managers
<1>4. FraudInv(m) BY <1>3, Expand DEF ListsInv, FraudInv, CallAt
<1>5. PICK choice \in Choices : Become(HandleCallReportInfo(m, r, choice)) BY DEF HandleSingleReport
<1>6. r.idx = InitIndex
  <2>1. 1 \in 1..Len(queue) /\ queue[1] = r BY <1>1
  <2> HIDE DEF r
  <2> QED BY <1>1, <2>1 DEF Following, DialsOK, Singles
<1> DEFINE n == HandleCallReportInfo(m, r, choice)
<1> HIDE DEF m, r, n
<1>7. Plain(m, n) /\ DialBecomes(m, n, r)
  BY <1>2, <1>3, <1>6, InitReportDoes, InitReportCalls DEF n
<1>8. n \in Managers /\ Local(m, n, r.slot, InitIndex) /\ n.details = m.details
  BY <1>2, <1>3, <1>4, <1>6, ReportHandled DEF Handled, Good, Rest, n
<1>9. Manager' = n BY <1>5, <1>8, BecomeIs DEF n
<1>10. /\ queue' = Tail(queue) /\ screened' = screened /\ details' = details /\ calls' = n.calls
  BY <1>3, <1>7, <1>8, <1>9, Expand DEF Plain
<1>11. ASSUME NEW s \in Slots, NEW i \in Indexes PROVE calls'[s][i] = calls[s][i]
  <2>1. <<s, i>> \in Places /\ <<s, i>> # <<r.slot, InitIndex>>
    <3>1. i # InitIndex BY PlaceTypes
    <3> QED BY <3>1 DEF Places
  <2>2. CallAt(n, <<s, i>>) = CallAt(m, <<s, i>>) BY <1>8, <2>1 DEF Local
  <2> QED BY <1>3, <1>10, <2>2 DEF CallAt
<1>12. DialBecomes(Manager, Manager', r) BY <1>3, <1>7, <1>9, Expand DEF DialBecomes
<1>13. r.st \in {"DIALING", "DISCONNECTED"} BY <1>2, <1>6 DEF SoundReports
<1> QED BY <1>1, <1>2, <1>10, <1>11, <1>12, <1>13 DEF r

\* HandleSingleReport: the report is in no view.
LEMMA TruthSingle ==
    ASSUME ListsInv, Following, Truth, HandleSingleReport PROVE Truth'
<1>1. /\ queue # <<>> /\ ~IsList(Head(queue)) /\ queue' = Tail(queue)
      /\ UNCHANGED <<screened, details, env>>
      /\ \A s \in Slots, i \in Indexes : calls'[s][i] = calls[s][i]
  BY SingleIs
<1>2. queue \in Queues BY Expand DEF ListsInv, Managers, Queues
<1>3. UNCHANGED <<modem, up, reported>> BY <1>1 DEF env
<1>4. ASSUME NEW s \in Slots, NEW i \in Indexes PROVE PlaceTrue(s, i)'
  <2>1. PlaceTrue(s, i) /\ Called(s, i)' \subseteq Called(s, i) BY <1>1 DEF Truth, Called
  <2>2. 1 \notin DOMAIN View(queue, s, i) BY <1>1, <1>2, ViewIs
  <2>3. Shifts(View(queue, s, i), View(queue', s, i)) BY <1>1, <1>2, ViewShifts
  <2>4. /\ LastSays(View(queue, s, i), details[s][i], modem[s][i]) =>
               LastSays(View(queue', s, i), details[s][i], modem[s][i])
        /\ NumFits(View(queue, s, i), modem[s][i]) => NumFits(View(queue', s, i), modem[s][i])
        /\ ChainNum(View(queue, s, i), Called(s, i), modem[s][i]) =>
               ChainNum(View(queue', s, i), Called(s, i)', modem[s][i])
    BY <2>1, <2>2, <2>3, ShiftTrue
  <2> QED BY <1>1, <1>3, <2>1, <2>4 DEF PlaceTrue
<1> QED BY <1>3, <1>4 DEF Truth

\* FinishCallsReportInfo: the list at work is remembered, and the table agrees with it.
LEMMA FinishIs ==
    ASSUME ListsInv, Following, FinishCallsReportInfo
    PROVE  /\ queue # <<>> /\ IsList(Head(queue)) /\ Head(queue).slot \in Slots
           /\ queue' = Tail(queue) /\ ~busy' /\ UNCHANGED <<calls, env>>
           /\ \A i \in Indexes : Done(Head(queue).slot, i)
           /\ \A s \in Slots, i \in Indexes :
                 /\ Remembers(View(queue, s, i), details[s][i], details'[s][i])
                 /\ Look(details'[s][i]) = (IF 1 \in DOMAIN View(queue, s, i)
                                            THEN Look(View(queue, s, i)[1]) ELSE Look(details[s][i]))
                 /\ Called(s, i)' \subseteq Called(s, i)
                 /\ 1 \in DOMAIN View(queue, s, i) /\ Called(s, i)' # {} => Live(View(queue, s, i)[1])
<1> DEFINE l == Head(queue)
<1>1. /\ busy /\ work = <<>> /\ ~busy' /\ queue' = Tail(queue)
      /\ details' = UpdateCallDetailsInfo(details, l)
      /\ screened' = {x \in screened : x.place[1] = l.slot => Live(l.calls[x.place[2]])}
      /\ UNCHANGED <<calls, env>>
  BY DEF FinishCallsReportInfo
<1>2. queue \in Queues /\ details \in Details /\ calls \in Tables
  BY Expand DEF ListsInv, Managers, Queues
<1>3. queue # <<>> /\ IsList(l) /\ l \in Lists /\ l.slot \in Slots
  <2>1. queue # <<>> /\ IsList(l) BY <1>1 DEF ListsInv, AtWork
  <2>2. l \in Lists BY <1>2, <2>1, HeadTypes DEF Queues
  <2> QED BY <2>1, <2>2 DEF Lists
<1>4. \A s \in Slots, i \in Indexes :
         details'[s][i] = IF s = l.slot
                          THEN IF Live(l.calls[i]) THEN [st |-> l.calls[i].st, type |-> l.calls[i].type]
                               ELSE NoCall
                          ELSE details[s][i]
  <2> DEFINE listed == [i \in Indexes |->
                 IF Live(l.calls[i]) THEN [st |-> l.calls[i].st, type |-> l.calls[i].type] ELSE NoCall]
  <2>1. details' = [details EXCEPT ![l.slot] = listed] BY <1>1 DEF UpdateCallDetailsInfo
  <2>2. \A i \in Indexes : listed[i] =
           IF Live(l.calls[i]) THEN [st |-> l.calls[i].st, type |-> l.calls[i].type] ELSE NoCall
    OBVIOUS
  <2> HIDE DEF listed, l
  <2>3. \A s \in Slots : details'[s] = IF s = l.slot THEN listed ELSE details[s]
    BY <1>2, <1>3, <2>1 DEF Details
  <2> QED BY <2>2, <2>3
<1> HIDE DEF l
<1>5. \A s \in Slots, i \in Indexes : 1 \in DOMAIN View(queue, s, i) <=> s = l.slot
  BY <1>2, <1>3, ViewIs DEF l
<1>6. \A i \in Indexes : View(queue, l.slot, i)[1] = l.calls[i]
  BY <1>2, <1>3, <1>5, ViewIs DEF l
<1>7. \A i \in Indexes : Done(l.slot, i) BY <1>1 DEF Done, Here, l
<1>8. ASSUME NEW i \in Indexes PROVE Agrees(l.calls[i], calls[l.slot][i], Hidden(l.slot, i))
  <2>1. Lastly(l.slot, i) = l.calls[i] BY <1>7 DEF Lastly, l
  <2>2. PlaceOK(l.slot, i) BY <1>3 DEF Following
  <2> QED BY <2>1, <2>2 DEF PlaceOK
<1>9. ASSUME NEW i \in Indexes
      PROVE  /\ Live(details'[l.slot][i]) <=> Live(l.calls[i])
             /\ Live(details'[l.slot][i]) => details'[l.slot][i].st = l.calls[i].st
             /\ Look(details'[l.slot][i]) = Look(l.calls[i])
  <2>1. CASE Live(l.calls[i])
    <3>1. details'[l.slot][i] = [st |-> l.calls[i].st, type |-> l.calls[i].type]
      BY <1>3, <1>4, <2>1
    <3>2. details'[l.slot][i].st = l.calls[i].st /\ details'[l.slot][i].type = l.calls[i].type
      BY <3>1
    <3> QED BY <2>1, <3>2 DEF Live, Look
  <2>2. CASE ~Live(l.calls[i])
    <3>1. details'[l.slot][i] = NoCall /\ ~Live(NoCall) BY <1>3, <1>4, <2>2 DEF Live, NoCall
    <3> QED BY <2>2, <3>1, LookFacts
  <2> QED BY <2>1, <2>2
<1>10. ASSUME NEW s \in Slots, s = l.slot, NEW i \in Indexes, Called(s, i)' # {} PROVE Live(l.calls[i])
  <2>1. PICK n \in Nums : There(calls[l.slot][i]) \/ [place |-> <<l.slot, i>>, num |-> n] \in screened'
    BY <1>1, <1>10 DEF Called
  <2>2. CASE There(calls[l.slot][i])
    <3>1. i \in 0..MaxIdx BY PlaceTypes
    <3>2. calls[l.slot][i] \in TableCalls BY <1>2, <1>3, <3>1 DEF Tables
    <3>3. Live(calls[l.slot][i]) BY <2>2, <3>2 DEF TableCalls, There, Live, States, NoCall
    <3>4. Look(calls[l.slot][i]) = Look(l.calls[i]) \/ Live(l.calls[i]) BY <1>8 DEF Agrees
    <3> QED BY <3>3, <3>4, LookFacts
  <2>3. CASE [place |-> <<l.slot, i>>, num |-> n] \in screened'
    <3> DEFINE x == [place |-> <<l.slot, i>>, num |-> n]
    <3>1. x.place[1] = l.slot /\ x.place[2] = i OBVIOUS
    <3> HIDE DEF x
    <3>2. x \in screened' BY <2>3 DEF x
    <3> QED BY <1>1, <3>1, <3>2
  <2> QED BY <2>1, <2>2, <2>3
<1>11. ASSUME NEW s \in Slots, NEW i \in Indexes PROVE Called(s, i)' \subseteq Called(s, i)
  BY <1>1 DEF Called
<1>12. ASSUME NEW s \in Slots, NEW i \in Indexes
       PROVE  /\ Remembers(View(queue, s, i), details[s][i], details'[s][i])
              /\ Look(details'[s][i]) = (IF 1 \in DOMAIN View(queue, s, i)
                                         THEN Look(View(queue, s, i)[1]) ELSE Look(details[s][i]))
              /\ 1 \in DOMAIN View(queue, s, i) /\ Called(s, i)' # {} => Live(View(queue, s, i)[1])
  <2>1. CASE s = l.slot
    <3>1. 1 \in DOMAIN View(queue, s, i) /\ View(queue, s, i)[1] = l.calls[i] BY <1>5, <1>6, <2>1
    <3> QED BY <1>9, <1>10, <2>1, <3>1 DEF Remembers
  <2>2. CASE s # l.slot
    <3>1. 1 \notin DOMAIN View(queue, s, i) /\ details'[s][i] = details[s][i] BY <1>4, <1>5, <2>2
    <3> QED BY <3>1 DEF Remembers
  <2> QED BY <2>1, <2>2
<1> QED BY <1>1, <1>3, <1>7, <1>11, <1>12 DEF l

\* So the head can go.
LEMMA TruthFinish ==
    ASSUME ListsInv, Following, Truth, FinishCallsReportInfo PROVE Truth'
<1>1. queue # <<>> /\ queue' = Tail(queue) /\ UNCHANGED <<calls, env>> BY FinishIs
<1>2. queue \in Queues BY Expand DEF ListsInv, Managers, Queues
<1>3. UNCHANGED <<modem, up, reported>> BY <1>1 DEF env
<1>4. ASSUME NEW s \in Slots, NEW i \in Indexes PROVE PlaceTrue(s, i)'
  <2>1. PlaceTrue(s, i) BY DEF Truth
  <2>2. Shifts(View(queue, s, i), View(queue', s, i)) BY <1>1, <1>2, ViewShifts
  <2>3. /\ Look(details'[s][i]) = (IF 1 \in DOMAIN View(queue, s, i)
                                   THEN Look(View(queue, s, i)[1]) ELSE Look(details[s][i]))
        /\ Called(s, i)' \subseteq Called(s, i)
        /\ 1 \in DOMAIN View(queue, s, i) /\ Called(s, i)' # {} => Live(View(queue, s, i)[1])
    BY FinishIs
  <2>4. /\ LastSays(View(queue, s, i), details[s][i], modem[s][i]) =>
               LastSays(View(queue', s, i), details'[s][i], modem[s][i])
        /\ NumFits(View(queue, s, i), modem[s][i]) => NumFits(View(queue', s, i), modem[s][i])
        /\ ChainNum(View(queue, s, i), Called(s, i), modem[s][i]) =>
               ChainNum(View(queue', s, i), Called(s, i)', modem[s][i])
    BY <2>2, <2>3, ShiftTrue
  <2> QED BY <1>3, <2>1, <2>4 DEF PlaceTrue
<1> QED BY <1>3, <1>4 DEF Truth

\* ClearAllCalls ends calls and says so; with nothing left to list, nothing was told wrong.
LEMMA TruthClear ==
    ASSUME ListsInv, Following, Truth, ClearReport = "list", ClearAllCalls PROVE Truth'
<1>1. ListsInv' BY StepClear DEF Sound
<1>2. UNCHANGED <<calls, details, screened, up, used, dialReq>> /\ up /\ up' BY DEF ClearAllCalls
<1>3. PICK s \in Slots, cs \in [Indexes -> ModemCalls], q \in Queues, l \in Lists :
               /\ modem' = [modem EXCEPT ![s] = cs] /\ l.slot = s /\ Grown(queue, q)
               /\ \A i \in Indexes : Cleared(s, i, cs[i], l.calls[i])
               /\ queue' = OnUpdateCallsReportInfo(q, l)
               /\ clearing' = {p \in clearing : p[1] # s}
  BY ClearIs
<1>4. reported' \subseteq reported \cup {s}
  <2>1. PICK t \in Slots : (\E p \in clearing : p[1] = t) /\ reported' = reported \cup {t}
              /\ clearing' = {p \in clearing : p[1] # t}
    <3> DEFINE t == CHOOSE t \in Slots : \E p \in clearing : p[1] = t
    <3>1. clearing # {} /\ reported' = reported \cup {t} /\ clearing' = {p \in clearing : p[1] # t}
      BY DEF ClearAllCalls
    <3>2. \E u \in Slots : \E p \in clearing : p[1] = u BY <3>1 DEF ListsInv, EnvOK
    <3>3. t \in Slots /\ \E p \in clearing : p[1] = t BY <3>2
    <3> HIDE DEF t
    <3> QED BY <3>1, <3>3
  <2>2. t = s BY <1>3, <2>1
  <2> QED BY <2>1, <2>2
<1>5. Seen \subseteq Seen' BY <1>2, SameDials
<1>6. ~Live(NoCall) /\ ~Live(Ended) BY DEF Live, NoCall, Ended
<1>7. CASE \E i \in Indexes : There(l.calls[i])
  <2>1. queue' = Append(q, l) BY <1>3, <1>7 DEF OnUpdateCallsReportInfo
  <2>2. ASSUME NEW i \in Indexes
        PROVE  /\ Moves(calls[s][i], modem[s][i], cs[i], Open(s, i), Seen)
               /\ (Live(cs[i]) => l.calls[i] = cs[i]) /\ (Live(l.calls[i]) => Live(cs[i]))
    <3>1. MovesOn(s, i, cs[i]) BY <1>3, <1>5, CallStays, CallEnds DEF Cleared
    <3> QED BY <1>3, <1>6, <3>1 DEF Cleared, MovesOn
  <2>3. \A i \in Indexes : Moves(calls[s][i], modem[s][i], cs[i], Open(s, i), Seen) BY <2>2
  <2>4. \A i \in Indexes : (Live(cs[i]) => l.calls[i] = cs[i]) /\ (Live(l.calls[i]) => Live(cs[i]))
    BY <2>2
  <2>5. UNCHANGED <<calls, details, screened>> /\ up' BY <1>2
  <2>6. modem' = [modem EXCEPT ![s] = cs] /\ Grown(queue, q) /\ l.slot = s BY <1>3
  <2> QED BY <1>1, <1>4, <2>1, <2>3, <2>4, <2>5, <2>6, TruthPosted
<1>8. CASE \A i \in Indexes : ~There(l.calls[i])
  <2>1. queue' = q BY <1>3, <1>8 DEF OnUpdateCallsReportInfo
  <2>2. \A i \in Indexes : cs[i] = modem[s][i] /\ <<s, i>> \notin clearing /\ ~Live(modem[s][i])
    BY <1>3, <1>8, StepFacts DEF Cleared, There, Ended
  <2>3. queue \in Queues /\ modem \in [Slots -> [Indexes -> ModemCalls]]
    BY Expand DEF ListsInv, Managers, Queues, EnvOK
  <2>4. ASSUME NEW t \in Slots, NEW i \in Indexes PROVE PlaceTrue(t, i)'
    <3>1. PlaceTrue(t, i) /\ Called(t, i)' = Called(t, i) BY <1>2 DEF Truth, Called
    <3>2. modem'[t][i] = modem[t][i] BY <1>3, <2>2, <2>3
    <3>3. View(queue', t, i) = View(queue, t, i) BY <1>3, <2>1, <2>3, ViewGrown
    <3>4. CASE t = s
      <4> DEFINE v == View(queue, s, i)
                 o == details[s][i]
                 d == modem[s][i]
      <4>1. LastOK(v, o, d, Open(s, i)) BY DEF Following, PlaceOK, Fits, Ordered
      <4>2. Open(s, i) /\ ~Live(d) BY <1>2, <2>2 DEF Open
      <4> HIDE DEF v, o, d
      <4>3. LastSays(v, o, d) BY <4>1, <4>2, LookFacts DEF LastOK, FinalOK, LastSays
      <4> QED BY <1>2, <3>1, <3>2, <3>3, <3>4, <4>3 DEF PlaceTrue, v, o, d
    <3>5. CASE t # s
      <4>1. t \in reported' => t \in reported BY <1>4, <3>5
      <4> QED BY <1>2, <3>1, <3>2, <3>3, <4>1, TrueStill
    <3> QED BY <3>4, <3>5
  <2> QED BY <1>2, <2>4 DEF Truth
<1> QED BY <1>7, <1>8
-----------------------------------------------------------------------------
(* A listed call is reported *)

\* The call's place: what was known and what is listed of it.
LEMMA ListedAt ==
    ASSUME ListsInv, Following, HandleListedCall, NEW s, NEW i, s = Head(work).slot, i = Head(work).idx
    PROVE  /\ s \in Slots /\ i \in Indexes /\ queue \in Queues /\ queue # <<>>
           /\ 1 \in DOMAIN View(queue, s, i) /\ Told(Head(work), Head(queue))
           /\ View(queue, s, i)[1] = Head(queue).calls[i]
           /\ Head(queue).calls[i].st \in States \cup {"NONE", "DISCONNECTED"}
           /\ calls[s][i].st \in States \cup {"NONE"}
           /\ ~Done(s, i) /\ Agrees(details[s][i], calls[s][i], Hidden(s, i))
<1>1. /\ s \in Slots /\ i \in Indexes /\ busy /\ queue # <<>> /\ IsList(Head(queue))
      /\ Head(queue) \in Lists /\ Told(Head(work), Head(queue))
      /\ \E k \in DOMAIN work : work[k].idx = i
  BY WorkFacts
<1>2. queue \in Queues /\ calls \in Tables BY Expand DEF ListsInv, Managers, Queues
<1>3. Head(queue).slot = s BY <1>1 DEF Told
<1>4. 1 \in DOMAIN View(queue, s, i) /\ View(queue, s, i)[1] = Head(queue).calls[i]
  BY <1>1, <1>2, <1>3, ViewIs
<1>5. ~Done(s, i) BY <1>1 DEF Done
<1>6. Agrees(details[s][i], calls[s][i], Hidden(s, i))
  <2>1. PlaceOK(s, i) BY <1>1 DEF Following
  <2> QED BY <1>5, <2>1 DEF PlaceOK, Lastly
<1>7. Head(queue).calls[i].st \in States \cup {"NONE", "DISCONNECTED"}
  <2>1. Head(queue).calls[i] \in ModemCalls \cup {Ended} BY <1>1 DEF Lists
  <2> QED BY <2>1 DEF ModemCalls, NoCall, Ended
<1>8. calls[s][i].st \in States \cup {"NONE"}
  <2>1. i \in 0..MaxIdx BY <1>1, PlaceTypes
  <2>2. calls[s][i] \in TableCalls BY <1>1, <1>2, <2>1 DEF Tables
  <2> QED BY <2>2 DEF TableCalls, NoCall
<1> QED BY <1>1, <1>2, <1>4, <1>5, <1>6, <1>7, <1>8

\* A listed call that is not in the table and does not ring is a dialled one.
LEMMA NewIsFresh ==
    ASSUME ListsInv, Following, HandleListedCall, NEW s, NEW i, s = Head(work).slot, i = Head(work).idx,
           ~There(calls[s][i]), There(Head(queue).calls[i]), ~Rings(Head(work)),
           Head(work).st # "DISCONNECTED"
    PROVE  FreshAt(s, i, 1)
<1> DEFINE v == View(queue, s, i)
           o == details[s][i]
           c == calls[s][i]
           h == Head(queue).calls[i]
<1>1. /\ s \in Slots /\ i \in Indexes /\ 1 \in DOMAIN v /\ v[1] = h /\ queue \in Queues
      /\ h.st \in States \cup {"NONE", "DISCONNECTED"}
      /\ ~Done(s, i) /\ Agrees(o, c, Hidden(s, i)) /\ Told(Head(work), Head(queue))
  BY ListedAt
<1>2. Head(work).st = h.st BY <1>1 DEF Told
<1>3. Live(h) /\ ~Rings(h) BY <1>1, <1>2 DEF Live, Rings, There
<1>4. PlaceOK(s, i) BY <1>1 DEF Following
<1>5. \A n \in DOMAIN v : n \in Nat \ {0} BY <1>1, ViewIs
<1>6. ~Live(o)
  <2> SUFFICES ASSUME Live(o) PROVE FALSE OBVIOUS
  <2>1. Look(c) = NoCall BY StepFacts, LookFacts
  <2>2. Hidden(s, i) BY <1>1, <2>1, LookFacts DEF Agrees
  <2>3. ScreenOK(v, o, c, modem[s][i], Hidden(s, i), Here(s)) BY <1>4 DEF PlaceOK, Fits
  <2>4. 1 \in Positions(v) /\ At(v, modem[s][i], 1) = h BY <1>1 DEF Positions, At
  <2>5. Through(v, 1, 1)
    <3>1. \A n \in DOMAIN v : 1 <= n /\ n <= 1 => n = 1 BY <1>5
    <3> QED BY <1>1, <1>3, <3>1, SMTT(30) DEF Through
  <2> QED BY <1>3, <2>2, <2>3, <2>4, <2>5 DEF ScreenOK
<1>7. h.st \in {"DIALING", "ALERTING"}
  <2>1. FirstOK(v, o, Excused(s, i)) BY <1>4 DEF PlaceOK, Fits, Ordered
  <2>2. \A n \in DOMAIN v : 1 <= n BY <1>5
  <2>3. StepOK(o, h) \/ Excused(s, i) BY <1>1, <2>1, <2>2 DEF FirstOK
  <2>4. Excused(s, i) => h.st = "ALERTING" BY <1>1 DEF Excused, FirstAlert
  <2>5. StepOK(o, h) => h.st \notin {"ACTIVE", "HOLDING", "DISCONNECTING"} BY <1>3, <1>6 DEF StepOK
  <2>6. h.st \in States /\ h.st \notin RingingStates BY <1>1, <1>3 DEF Live, Rings
  <2> HIDE DEF h, v, o
  <2> QED BY <2>3, <2>4, <2>5, <2>6 DEF States, RingingStates
<1>8. \A n \in DOMAIN v : ~(n < 1) BY <1>5
<1> HIDE DEF v, o, h
<1>9. Fresh(v, o, 1) BY <1>1, <1>6, <1>7, <1>8 DEF Fresh, Dials
<1> QED BY <1>9 DEF FreshAt, v, o

\* So it takes over the number that is listed, be it from the report or from the dial.
LEMMA TruthListed ==
    ASSUME ListsInv, ListsInv', Following, Settled, HandleListedCall, Races = {} PROVE Truth'
<1>1. PICK s, i : s = Head(work).slot /\ i = Head(work).idx OBVIOUS
<1> DEFINE r == Head(work)
           v == View(queue, s, i)
           o == details[s][i]
           c == calls[s][i]
           e == calls'[s][i]
           h == Head(queue).calls[i]
<1>2. /\ s \in Slots /\ i \in Indexes /\ 1 \in DOMAIN v /\ v[1] = h /\ Told(r, Head(queue))
  BY <1>1, ListedAt
<1>3. PICK show \in BOOLEAN :
         /\ IF Rings(r) THEN DoesRing(Manager, Manager', r, show) ELSE Does(Manager, Manager', r)
         /\ details' = details /\ Grown(queue, queue')
         /\ \A t \in Slots, j \in Indexes : <<t, j>> # <<s, i>> => calls'[t][j] = calls[t][j]
  BY <1>1, ListedCallIs
<1>4. UNCHANGED <<modem, up, reported>> BY DEF HandleListedCall, env
<1>5. queue \in Queues /\ queue' \in Queues BY Expand DEF ListsInv, Managers, Queues
<1>6. \A t \in Slots, j \in Indexes : View(queue', t, j) = View(queue, t, j)
  BY <1>3, <1>5, ViewGrown
<1>7. IF There(h) THEN r.st = h.st /\ r.num = h.num ELSE r.st = "DISCONNECTED" BY <1>1, <1>2 DEF Told
<1>8. Manager.calls[r.slot][r.idx] = c /\ Manager'.calls[r.slot][r.idx] = e /\ <<r.slot, r.idx>> = <<s, i>>
  BY <1>1, Expand
<1>9. screened' \subseteq screened \cup {[place |-> <<s, i>>, num |-> r.num]}
      /\ (~Rings(r) => screened' = screened)
  <2> HIDE DEF r, c, e
  <2>1. CASE Rings(r)
    <3>1. DoesRing(Manager, Manager', r, show) BY <1>3, <2>1
    <3>2. There(c) => screened' = screened BY <1>8, <3>1, Expand DEF DoesRing
    <3>3. ~There(c) /\ show => screened' \subseteq screened BY <1>8, <3>1, Expand DEF DoesRing
    <3>4. ~There(c) /\ ~show => screened' = screened \cup {[place |-> <<s, i>>, num |-> r.num]}
      BY <1>8, <3>1, Expand DEF DoesRing
    <3> QED BY <2>1, <3>2, <3>3, <3>4
  <2>2. CASE ~Rings(r) BY <1>3, <2>2, Expand DEF Does, Plain
  <2> QED BY <2>1, <2>2
<1>10. There(e) => (There(c) /\ e.num = c.num) \/ (There(h) /\ e.num = h.num)
  <2> SUFFICES ASSUME There(e), ~(There(c) /\ e.num = c.num) PROVE There(h) /\ e.num = h.num
    OBVIOUS
  <2>1. CASE Rings(r)
    <3>1. DoesRing(Manager, Manager', r, show) BY <1>3, <2>1
    <3>2. r.st # "DISCONNECTED" BY <2>1 DEF Rings, RingingStates
    <3> HIDE DEF r, c, e, h
    <3>3. ~There(c) BY <1>8, <3>1 DEF DoesRing
    <3>4. ~show => e = c BY <1>8, <3>1, <3>3 DEF DoesRing
    <3>5. e.num = r.num BY <1>8, <3>1, <3>3, <3>4 DEF DoesRing
    <3> QED BY <1>7, <3>2, <3>5
  <2>2. CASE ~Rings(r)
    <3>1. Does(Manager, Manager', r) BY <1>3, <2>2
    <3>2. Recalls(Manager, Manager', r, c, e) /\ (r.st = "DISCONNECTED" => ~There(e))
      BY <1>8, <3>1 DEF Does
    <3>3. ~There(c) /\ There(h) /\ r.st # "DISCONNECTED" BY <1>7, <3>2 DEF Recalls
    <3>4. e.num = r.num \/ Numbers(Manager, Manager', r, e.num) BY <3>2, <3>3 DEF Recalls
    <3>5. ASSUME Numbers(Manager, Manager', r, e.num) PROVE e.num = h.num
      <4>1. PICK t \in Slots : There(calls[t][InitIndex]) /\ e.num = calls[t][InitIndex].num
        BY <3>5, Expand DEF Numbers, InitSlots
      <4>2. There(calls[s][InitIndex]) BY <1>1, <3>5, Expand DEF Numbers
      <4>3. Dial(s, 0) /\ Dial(t, 0) /\ 0 \in Nat BY <4>1, <4>2 DEF Dial
      <4>4. DialNum(t, 0) = DialNum(s, 0) BY <1>2, <4>3 DEF Settled, Dialled
      <4>5. Matches(s, 0) BY <1>2, <4>3 DEF Settled, Dialled, DialOK
      <4>6. FreshAt(s, i, 1) BY <1>1, <2>2, <3>3, NewIsFresh
      <4>7. 1 \in 1..Len(queue) /\ 1 > 0 BY <1>2, <1>5, ViewIs
      <4>8. v[1].num = DialNum(s, 0) BY <1>2, <4>5, <4>6, <4>7 DEF Matches
      <4> QED BY <1>2, <4>1, <4>4, <4>8 DEF DialNum
    <3> QED BY <1>7, <3>3, <3>4, <3>5
  <2> QED BY <2>1, <2>2
<1>11. PlaceTrue(s, i)'
  <2>1. Called(s, i)' \subseteq Called(s, i) \cup {v[1].num}
    <3> SUFFICES ASSUME NEW n \in Called(s, i)', n # v[1].num PROVE n \in Called(s, i)
      OBVIOUS
    <3>1. n \in Nums /\ ((There(e) /\ n = e.num) \/ [place |-> <<s, i>>, num |-> n] \in screened')
      BY DEF Called
    <3>2. CASE There(e) /\ n = e.num BY <1>2, <1>10, <3>1, <3>2 DEF Called
    <3>3. CASE [place |-> <<s, i>>, num |-> n] \in screened'
      <4>1. Rings(r) => r.num = v[1].num
        BY <1>2, <1>7 DEF Rings, RingingStates
      <4>2. \A x \in {[place |-> <<s, i>>, num |-> r.num]} : x.num = r.num OBVIOUS
      <4>3. [place |-> <<s, i>>, num |-> n].num = n OBVIOUS
      <4> HIDE DEF r, v
      <4>4. [place |-> <<s, i>>, num |-> n] \in screened BY <1>9, <3>3, <4>1, <4>2, <4>3
      <4> QED BY <3>1, <4>4 DEF Called
    <3> QED BY <3>1, <3>2, <3>3
  <2>2. PlaceTrue(s, i) BY <1>2 DEF Settled, Truth
  <2>3. ChainNum(v, Called(s, i)', modem[s][i])
    BY <1>2, <2>1, <2>2, HandledTrue DEF PlaceTrue
  <2> QED BY <1>2, <1>3, <1>4, <1>6, <2>2, <2>3 DEF PlaceTrue
<1>12. ASSUME NEW t \in Slots, NEW j \in Indexes, <<t, j>> # <<s, i>> PROVE PlaceTrue(t, j)'
  <2>1. calls'[t][j] = calls[t][j] /\ PlaceTrue(t, j) BY <1>3, <1>12 DEF Settled, Truth
  <2>2. Called(t, j)' \subseteq Called(t, j)
    <3>1. ASSUME NEW n PROVE [place |-> <<t, j>>, num |-> n] # [place |-> <<s, i>>, num |-> r.num]
      <4>1. [place |-> <<t, j>>, num |-> n].place # [place |-> <<s, i>>, num |-> r.num].place BY <1>12
      <4> QED BY <4>1
    <3> QED BY <1>9, <2>1, <3>1 DEF Called
  <2> QED BY <1>3, <1>4, <1>6, <2>1, <2>2, TrueStill
<1> QED BY <1>4, <1>11, <1>12 DEF Truth, Settled
-----------------------------------------------------------------------------
(* The dials *)

\* Dials stay the ones there were.
LEMMA DialsCarried ==
    ASSUME Dialled,
           \A s \in Slots, p \in Nat : Dial(s, p)' =>
               DialOK(s, p)' /\ \E o \in Nat : Dial(s, o) /\ DialNum(s, p)' = DialNum(s, o),
           \A s \in Slots : There(calls'[s][InitIndex]) => calls'[s][InitIndex].st = "DIALING"
    PROVE  Dialled'
<1>1. ASSUME NEW s \in Slots, NEW t \in Slots, NEW p \in Nat, NEW q \in Nat, Dial(s, p)', Dial(t, q)'
      PROVE  s = t /\ DialNum(s, p)' = DialNum(t, q)'
  <2>1. PICK x \in Nat : Dial(s, x) /\ DialNum(s, p)' = DialNum(s, x) BY <1>1
  <2>2. PICK y \in Nat : Dial(t, y) /\ DialNum(t, q)' = DialNum(t, y) BY <1>1
  <2> QED BY <2>1, <2>2 DEF Dialled
<1> QED BY <1>1 DEF Dialled

\* Entries may have been put at the end of the queue.
Longer(q, r) == Len(q) <= Len(r) /\ \A k \in 1..Len(q) : r[k] = q[k]

LEMMA GrownLonger == ASSUME NEW q, NEW r, Grown(q, r) PROVE Longer(q, r)
  BY DEF Grown, Longer

\* What was in a view is in it still, and begins a dialled call if it did before.
LEMMA FreshLonger ==
    ASSUME queue \in Queues, queue' \in Queues, Longer(queue, queue'), NEW s, NEW i,
           details'[s][i] = details[s][i], NEW k \in 1..Len(queue)
    PROVE  /\ FreshAt(s, i, k)' <=> FreshAt(s, i, k)
           /\ FreshAt(s, i, k) => View(queue', s, i)[k] = View(queue, s, i)[k]
<1> DEFINE v == View(queue, s, i)
           w == View(queue', s, i)
           o == details[s][i]
<1>1. /\ Len(queue) \in Nat /\ Len(queue') \in Nat /\ Len(queue) <= Len(queue')
      /\ \A n \in 1..Len(queue) : queue'[n] = queue[n]
  BY DEF Queues, Longer
<1>2. /\ \A n : n \in DOMAIN v <=> n \in 1..Len(queue) /\ IsList(queue[n]) /\ queue[n].slot = s
      /\ \A n : n \in DOMAIN w <=> n \in 1..Len(queue') /\ IsList(queue'[n]) /\ queue'[n].slot = s
      /\ \A n \in DOMAIN v : v[n] = queue[n].calls[i]
      /\ \A n \in DOMAIN w : w[n] = queue'[n].calls[i]
  BY ViewIs
<1> HIDE DEF v, w, o
<1>3. /\ \A n \in 1..Len(queue) : n \in DOMAIN w <=> n \in DOMAIN v
      /\ \A n \in DOMAIN v : w[n] = v[n] /\ n \in 1..Len(queue)
  BY <1>1, <1>2, SMTT(30)
<1>4. \A n \in DOMAIN w : n \in Nat /\ (n \in DOMAIN v \/ n > k) BY <1>1, <1>2, <1>3
<1>5. k \in Nat OBVIOUS
<1>6. (\A n \in DOMAIN w : k <= n) <=> (\A n \in DOMAIN v : k <= n) BY <1>3, <1>4, <1>5
<1>7. ASSUME NEW j \in DOMAIN v, j < k
      PROVE  (\A n \in DOMAIN w : n <= j \/ k <= n) <=> (\A n \in DOMAIN v : n <= j \/ k <= n)
  BY <1>3, <1>4, <1>5
<1>8. \A j \in DOMAIN w : j < k => j \in DOMAIN v BY <1>4, <1>5
<1>9. \A j \in DOMAIN v : j \in DOMAIN w BY <1>3
<1>10. (\A j \in DOMAIN w : j < k /\ (\A n \in DOMAIN w : n <= j \/ k <= n) => ~Live(w[j])) <=>
       (\A j \in DOMAIN v : j < k /\ (\A n \in DOMAIN v : n <= j \/ k <= n) => ~Live(v[j]))
  <2>1. \A j \in DOMAIN v : w[j] = v[j] BY <1>3
  <2> QED BY <1>7, <1>8, <1>9, <2>1
<1>11. k \in DOMAIN w <=> k \in DOMAIN v BY <1>3
<1>12. k \in DOMAIN v => w[k] = v[k] BY <1>3
<1>13. Fresh(w, o, k) <=> Fresh(v, o, k) BY <1>6, <1>10, <1>11, <1>12 DEF Fresh
<1> QED BY <1>12, <1>13 DEF FreshAt, Fresh, v, w, o

\* What a dial is owed, it is owed still.
LEMMA OwedStill ==
    ASSUME queue \in Queues, queue' \in Queues, Longer(queue, queue'), NEW s, NEW p \in Nat, Owed(s, p),
           \A i \in Indexes : details'[s][i] = details[s][i],
           dialReq[s] # 0 => Owed(s, p)', ~up => ~up',
           p = 0 /\ <<s, InitIndex>> \in clearing => Owed(s, p)',
           \A i \in Indexes : queue # <<>> /\ 1 > p /\ FreshAt(s, i, 1) /\ Done(s, i)' => Done(s, i)
    PROVE  Owed(s, p)'
<1>1. Len(queue) \in Nat /\ Len(queue') \in Nat /\ \A k \in 1..Len(queue) : k \in 1..Len(queue')
  BY DEF Queues, Longer
<1>2. ASSUME EndReported(s, p) PROVE EndReported(s, p)'
  BY <1>1, <1>2 DEF EndReported, Longer
<1>3. ASSUME Listed(s, p) PROVE Listed(s, p)'
  <2>1. PICK i \in Indexes, k \in 1..Len(queue) : k > p /\ FreshAt(s, i, k) /\ ~(k = 1 /\ Done(s, i))
    BY <1>3 DEF Listed
  <2>2. FreshAt(s, i, k)' BY <2>1, FreshLonger
  <2>3. k = 1 => queue # <<>> BY DEF Queues
  <2>4. ~(k = 1 /\ Done(s, i)') BY <2>1, <2>3
  <2> QED BY <1>1, <2>1, <2>2, <2>4 DEF Listed
<1> QED BY <1>2, <1>3 DEF Owed

\* No dial is put into the queue or the table.
LEMMA DialsGrow ==
    ASSUME Dialled, queue \in Queues, queue' \in Queues, Longer(queue, queue'),
           UNCHANGED details,
           \A k \in 1..Len(queue') : \/ k \in 1..Len(queue) \/ IsList(queue'[k])
                                     \/ queue'[k].st # "DIALING",
           \A t \in Slots : \/ SameCall(calls[t][InitIndex], calls'[t][InitIndex])
                            \/ ~There(calls'[t][InitIndex]),
           \A t \in Slots : dialReq'[t] # 0 => dialReq'[t] = dialReq[t],
           \A s \in Slots, i \in Indexes, k \in 1..Len(queue') :
               k \notin 1..Len(queue) /\ FreshAt(s, i, k)' =>
                   dialReq[s] # 0 /\ View(queue', s, i)[k].num = dialReq[s],
           \A s \in Slots, p \in Nat : Dial(s, p)' /\ Dial(s, p) /\ Owed(s, p) => Owed(s, p)'
    PROVE  Dialled'
<1>1. ASSUME NEW s \in Slots, NEW p \in Nat, Dial(s, p)'
      PROVE  Dial(s, p) /\ DialNum(s, p)' = DialNum(s, p)
  <2>1. CASE p = 0
    <3>1. There(calls'[s][InitIndex]) BY <1>1, <2>1 DEF Dial
    <3>2. SameCall(calls[s][InitIndex], calls'[s][InitIndex]) BY <3>1
    <3>3. There(calls[s][InitIndex]) BY <3>1, <3>2 DEF SameCall, There
    <3> QED BY <2>1, <3>2, <3>3 DEF SameCall, Dial, DialNum
  <2>2. CASE p # 0
    <3>1. p \in 1..Len(queue') /\ ~IsList(queue'[p]) /\ queue'[p].st = "DIALING" /\ queue'[p].slot = s
      BY <1>1, <2>2 DEF Dial
    <3>2. p \in 1..Len(queue) /\ queue'[p] = queue[p] BY <3>1 DEF Longer
    <3> QED BY <2>2, <3>1, <3>2 DEF Dial, DialNum
  <2> QED BY <2>1, <2>2
<1>2. ASSUME NEW s \in Slots, NEW p \in Nat, Dial(s, p)' PROVE DialOK(s, p)'
  <2>1. Dial(s, p) /\ DialNum(s, p)' = DialNum(s, p) BY <1>1, <1>2
  <2>2. Matches(s, p) /\ Owed(s, p) BY <2>1 DEF Dialled, DialOK
  <2>3. ASSUME NEW t \in Slots, dialReq'[t] # 0 PROVE s = t /\ DialNum(s, p)' = dialReq'[t]
    <3>1. dialReq'[t] = dialReq[t] /\ dialReq[t] # 0 BY <2>3
    <3> QED BY <2>1, <2>2, <3>1 DEF Matches
  <2>4. ASSUME NEW i \in Indexes, NEW k \in 1..Len(queue'), k > p, FreshAt(s, i, k)'
        PROVE  View(queue', s, i)[k].num = DialNum(s, p)'
    <3>1. CASE k \in 1..Len(queue)
      <4>1. FreshAt(s, i, k) /\ View(queue', s, i)[k] = View(queue, s, i)[k]
        BY <2>4, <3>1, FreshLonger
      <4> QED BY <2>1, <2>2, <2>4, <3>1, <4>1 DEF Matches
    <3>2. CASE k \notin 1..Len(queue)
      <4>1. dialReq[s] # 0 /\ View(queue', s, i)[k].num = dialReq[s] BY <2>4, <3>2
      <4> QED BY <2>1, <2>2, <4>1 DEF Matches
    <3> QED BY <3>1, <3>2
  <2>5. Matches(s, p)' BY <2>3, <2>4 DEF Matches
  <2>6. Owed(s, p)' BY <1>2, <2>1, <2>2
  <2> QED BY <2>5, <2>6 DEF DialOK
<1>3. ASSUME NEW s \in Slots, There(calls'[s][InitIndex]) PROVE calls'[s][InitIndex].st = "DIALING"
  BY <1>3 DEF SameCall, Dialled, There
<1> QED BY <1>1, <1>2, <1>3, DialsCarried

\* The head goes and is remembered: the same entries begin dialled calls.
LEMMA FreshShifts ==
    ASSUME NEW v, NEW w, NEW o, NEW r, Shifts(v, w), Remembers(v, o, r), NEW k \in Nat \ {0}
    PROVE  Fresh(w, r, k) <=> Fresh(v, o, k + 1)
<1>1. \A n \in DOMAIN v : n \in Nat \ {0} BY DEF Shifts
<1>2. \A n \in DOMAIN w : n \in Nat \ {0} /\ n + 1 \in DOMAIN v /\ w[n] = v[n + 1] BY DEF Shifts
<1>3. \A n \in DOMAIN v : n = 1 \/ (n - 1 \in DOMAIN w /\ n - 1 \in Nat \ {0} /\ n = (n - 1) + 1)
  BY <1>1 DEF Shifts
<1>4. (k \in DOMAIN w <=> k + 1 \in DOMAIN v) /\ (k \in DOMAIN w => w[k] = v[k + 1])
  BY DEF Shifts
<1>5. ASSUME NEW j \in Nat
      PROVE  (\A n \in DOMAIN w : n <= j \/ k <= n) <=>
                 (\A n \in DOMAIN v : n <= j + 1 \/ k + 1 <= n)
  <2>1. ASSUME \A n \in DOMAIN w : n <= j \/ k <= n, NEW n \in DOMAIN v
        PROVE  n <= j + 1 \/ k + 1 <= n
    <3>1. CASE n = 1 BY <3>1
    <3>2. CASE n # 1
      <4>1. n - 1 \in DOMAIN w /\ n - 1 \in Nat BY <1>3, <3>2
      <4>2. n - 1 <= j \/ k <= n - 1 BY <2>1, <4>1
      <4> QED BY <1>1, <4>1, <4>2
    <3> QED BY <3>1, <3>2
  <2>2. ASSUME \A n \in DOMAIN v : n <= j + 1 \/ k + 1 <= n, NEW n \in DOMAIN w
        PROVE  n <= j \/ k <= n
    <3>1. n \in Nat /\ n + 1 \in DOMAIN v BY <1>2
    <3>2. n + 1 <= j + 1 \/ k + 1 <= n + 1 BY <2>2, <3>1
    <3> QED BY <3>1, <3>2
  <2> QED BY <2>1, <2>2
<1>6. (\A n \in DOMAIN w : k <= n) <=> (\A n \in DOMAIN v : n <= 1 \/ k + 1 <= n)
  <2>1. (\A n \in DOMAIN w : n <= 0 \/ k <= n) <=> (\A n \in DOMAIN v : n <= 0 + 1 \/ k + 1 <= n)
    BY <1>5
  <2>2. \A n \in DOMAIN w : ~(n <= 0) BY <1>2
  <2> QED BY <2>1, <2>2
<1>7. (\A n \in DOMAIN v : k + 1 <= n) => 1 \notin DOMAIN v OBVIOUS
<1>8. 1 \notin DOMAIN v => ((\A n \in DOMAIN v : n <= 1 \/ k + 1 <= n) <=> (\A n \in DOMAIN v : k + 1 <= n))
  BY <1>1
<1>9. CASE 1 \in DOMAIN v
  <2>1. Live(r) <=> Live(v[1]) BY <1>9 DEF Remembers
  <2>2. ASSUME Fresh(w, r, k) PROVE Fresh(v, o, k + 1)
    <3>1. ASSUME NEW j \in DOMAIN v, j < k + 1, \A n \in DOMAIN v : n <= j \/ k + 1 <= n
          PROVE  ~Live(v[j])
      <4>1. CASE j = 1
        <5>1. \A n \in DOMAIN w : k <= n BY <1>6, <3>1, <4>1
        <5> QED BY <2>1, <2>2, <4>1, <5>1 DEF Fresh
      <4>2. CASE j # 1
        <5>1. j - 1 \in DOMAIN w /\ j - 1 \in Nat /\ (j - 1) + 1 = j /\ j - 1 < k
          BY <1>1, <1>3, <3>1, <4>2
        <5>2. \A n \in DOMAIN w : n <= j - 1 \/ k <= n BY <1>5, <3>1, <5>1
        <5>3. ~Live(w[j - 1]) BY <2>2, <5>1, <5>2 DEF Fresh
        <5> QED BY <1>2, <5>1, <5>3
      <4> QED BY <4>1, <4>2
    <3> QED BY <1>4, <1>7, <1>9, <2>2, <3>1 DEF Fresh
  <2>3. ASSUME Fresh(v, o, k + 1) PROVE Fresh(w, r, k)
    <3>1. ASSUME NEW j \in DOMAIN w, j < k, \A n \in DOMAIN w : n <= j \/ k <= n PROVE ~Live(w[j])
      <4>1. j \in Nat /\ j + 1 \in DOMAIN v /\ w[j] = v[j + 1] /\ j + 1 < k + 1 BY <1>2, <3>1
      <4>2. \A n \in DOMAIN v : n <= j + 1 \/ k + 1 <= n BY <1>5, <3>1, <4>1
      <4> QED BY <2>3, <4>1, <4>2 DEF Fresh
    <3>2. ASSUME \A n \in DOMAIN w : k <= n PROVE ~Live(r)
      <4>1. \A n \in DOMAIN v : n <= 1 \/ k + 1 <= n BY <1>6, <3>2
      <4>2. 1 < k + 1 OBVIOUS
      <4> QED BY <1>9, <2>1, <2>3, <4>1, <4>2 DEF Fresh
    <3> QED BY <1>4, <2>3, <3>1, <3>2 DEF Fresh
  <2> QED BY <2>2, <2>3
<1>10. CASE 1 \notin DOMAIN v
  <2>1. r = o BY <1>10 DEF Remembers
  <2>2. (\A n \in DOMAIN w : k <= n) <=> (\A n \in DOMAIN v : k + 1 <= n) BY <1>6, <1>8, <1>10
  <2>3. ASSUME Fresh(w, r, k) PROVE Fresh(v, o, k + 1)
    <3>1. ASSUME NEW j \in DOMAIN v, j < k + 1, \A n \in DOMAIN v : n <= j \/ k + 1 <= n
          PROVE  ~Live(v[j])
      <4>1. j - 1 \in DOMAIN w /\ j - 1 \in Nat /\ (j - 1) + 1 = j /\ j - 1 < k
        BY <1>1, <1>3, <1>10, <3>1
      <4>2. \A n \in DOMAIN w : n <= j - 1 \/ k <= n BY <1>5, <3>1, <4>1
      <4>3. ~Live(w[j - 1]) BY <2>3, <4>1, <4>2 DEF Fresh
      <4> QED BY <1>2, <4>1, <4>3
    <3> QED BY <1>4, <2>1, <2>2, <2>3, <3>1 DEF Fresh
  <2>4. ASSUME Fresh(v, o, k + 1) PROVE Fresh(w, r, k)
    <3>1. ASSUME NEW j \in DOMAIN w, j < k, \A n \in DOMAIN w : n <= j \/ k <= n PROVE ~Live(w[j])
      <4>1. j \in Nat /\ j + 1 \in DOMAIN v /\ w[j] = v[j + 1] /\ j + 1 < k + 1 BY <1>2, <3>1
      <4>2. \A n \in DOMAIN v : n <= j + 1 \/ k + 1 <= n BY <1>5, <3>1, <4>1
      <4> QED BY <2>4, <4>1, <4>2 DEF Fresh
    <3> QED BY <1>4, <2>1, <2>2, <2>4, <3>1 DEF Fresh
  <2> QED BY <2>3, <2>4
<1> QED BY <1>9, <1>10

\* The head goes: each dial was where it is or one place further back.
LEMMA DialsShift ==
    ASSUME Dialled, queue \in Queues, queue # <<>>, queue' = Tail(queue), ~busy', UNCHANGED env,
           \A s \in Slots, i \in Indexes :
               Remembers(View(queue, s, i), details[s][i], details'[s][i]),
           \A s \in Slots : There(calls'[s][InitIndex]) =>
               /\ calls'[s][InitIndex].st = "DIALING"
               /\ \E o \in {0, 1} :
                     /\ Dial(s, o) /\ calls'[s][InitIndex].num = DialNum(s, o)
                     /\ o = 0 => /\ \/ IsList(Head(queue)) \/ Head(queue).slot # s
                                    \/ Head(queue).st # "DISCONNECTED"
                                 /\ \A i \in Indexes : FreshAt(s, i, 1) => Done(s, i)
    PROVE  Dialled'
<1>1. /\ Len(queue) \in Nat /\ Len(queue') \in Nat /\ Len(queue) = Len(queue') + 1
      /\ \A k \in 1..Len(queue') : queue'[k] = queue[k + 1] /\ k + 1 \in 1..Len(queue)
      /\ \A k \in 1..Len(queue) : k # 1 => k - 1 \in 1..Len(queue') /\ queue'[k - 1] = queue[k]
      /\ Head(queue) = queue[1]
  BY DEF Queues
<1>2. ASSUME NEW s \in Slots, NEW i \in Indexes, NEW k \in Nat \ {0}
      PROVE  /\ FreshAt(s, i, k)' <=> FreshAt(s, i, k + 1)
             /\ FreshAt(s, i, k + 1) => View(queue', s, i)[k] = View(queue, s, i)[k + 1]
  <2>1. Shifts(View(queue, s, i), View(queue', s, i)) BY ViewShifts
  <2>2. Fresh(View(queue', s, i), details'[s][i], k) <=> Fresh(View(queue, s, i), details[s][i], k + 1)
    BY <2>1, FreshShifts
  <2> QED BY <2>1, <2>2 DEF FreshAt, Fresh, Shifts
<1>3. ASSUME NEW s \in Slots, NEW p \in Nat, Dial(s, p)'
      PROVE  \E o \in Nat :
                /\ Dial(s, o) /\ DialNum(s, p)' = DialNum(s, o) /\ o \in {0, p + 1}
                /\ o = 0 => /\ p = 0
                            /\ \/ IsList(Head(queue)) \/ Head(queue).slot # s
                               \/ Head(queue).st # "DISCONNECTED"
                            /\ \A i \in Indexes : FreshAt(s, i, 1) => Done(s, i)
  <2>1. CASE p = 0
    <3>1. There(calls'[s][InitIndex]) BY <1>3, <2>1 DEF Dial
    <3> QED BY <2>1, <3>1 DEF DialNum
  <2>2. CASE p # 0
    <3>1. p \in 1..Len(queue') /\ ~IsList(queue'[p]) /\ queue'[p].st = "DIALING" /\ queue'[p].slot = s
      BY <1>3, <2>2 DEF Dial
    <3>2. Dial(s, p + 1) /\ DialNum(s, p)' = DialNum(s, p + 1) /\ p + 1 \in Nat /\ p + 1 # 0
      BY <1>1, <2>2, <3>1 DEF Dial, DialNum
    <3> QED BY <3>2
  <2> QED BY <2>1, <2>2
<1>4. ASSUME NEW s \in Slots, NEW p \in Nat, Dial(s, p)' PROVE DialOK(s, p)'
  <2>1. PICK o \in Nat :
            /\ Dial(s, o) /\ DialNum(s, p)' = DialNum(s, o) /\ o \in {0, p + 1}
            /\ o = 0 => /\ p = 0
                        /\ \/ IsList(Head(queue)) \/ Head(queue).slot # s
                           \/ Head(queue).st # "DISCONNECTED"
                        /\ \A i \in Indexes : FreshAt(s, i, 1) => Done(s, i)
    BY <1>3, <1>4
  <2>2. Matches(s, o) /\ Owed(s, o) BY <2>1 DEF Dialled, DialOK
  <2>3. UNCHANGED <<dialReq, up, clearing>> BY DEF env
  <2>4. Matches(s, p)'
    <3>1. ASSUME NEW i \in Indexes, NEW k \in 1..Len(queue'), k > p, FreshAt(s, i, k)'
          PROVE  View(queue', s, i)[k].num = DialNum(s, p)'
      <4>1. k \in Nat \ {0} /\ k + 1 \in 1..Len(queue) /\ k + 1 > o BY <1>1, <2>1, <3>1
      <4>2. FreshAt(s, i, k + 1) /\ View(queue', s, i)[k] = View(queue, s, i)[k + 1]
        BY <1>2, <3>1, <4>1
      <4> QED BY <2>1, <2>2, <4>1, <4>2 DEF Matches
    <3>2. \A t \in Slots : dialReq'[t] # 0 => s = t /\ DialNum(s, p)' = dialReq'[t]
      BY <2>1, <2>2, <2>3 DEF Matches
    <3> QED BY <3>1, <3>2 DEF Matches
  <2>5. ASSUME EndReported(s, o) PROVE EndReported(s, p)'
    <3>1. PICK k \in 1..Len(queue) :
              k > o /\ ~IsList(queue[k]) /\ queue[k].st = "DISCONNECTED" /\ queue[k].slot = s
      BY <2>5 DEF EndReported
    <3>2. k # 1 BY <1>1, <2>1, <3>1
    <3>3. k - 1 \in 1..Len(queue') /\ queue'[k - 1] = queue[k] /\ k - 1 > p
      BY <1>1, <2>1, <3>1, <3>2
    <3> QED BY <3>1, <3>3 DEF EndReported
  <2>6. ASSUME Listed(s, o) PROVE Listed(s, p)'
    <3>1. PICK i \in Indexes, k \in 1..Len(queue) : k > o /\ FreshAt(s, i, k) /\ ~(k = 1 /\ Done(s, i))
      BY <2>6 DEF Listed
    <3>2. k # 1 BY <2>1, <3>1
    <3>3. k - 1 \in 1..Len(queue') /\ k - 1 > p /\ k - 1 \in Nat \ {0} /\ (k - 1) + 1 = k
      BY <1>1, <2>1, <3>1, <3>2
    <3>4. FreshAt(s, i, k - 1)' BY <1>2, <3>1, <3>3
    <3>5. ~Done(s, i)' BY DEF Done, Here
    <3> QED BY <3>3, <3>4, <3>5 DEF Listed
  <2>7. Owed(s, p)' BY <2>1, <2>2, <2>3, <2>5, <2>6 DEF Owed
  <2> QED BY <2>4, <2>7 DEF DialOK
<1> QED BY <1>3, <1>4, DialsCarried

\* FinishCallsReportInfo: the calls the list has are done with, dialled ones too.
LEMMA DialsFinish ==
    ASSUME ListsInv, Following, Dialled, FinishCallsReportInfo PROVE Dialled'
<1>1. /\ queue # <<>> /\ IsList(Head(queue)) /\ queue' = Tail(queue) /\ ~busy'
      /\ UNCHANGED <<calls, env>> /\ \A i \in Indexes : Done(Head(queue).slot, i)
      /\ \A s \in Slots, i \in Indexes : Remembers(View(queue, s, i), details[s][i], details'[s][i])
  BY FinishIs
<1>2. queue \in Queues BY Expand DEF ListsInv, Managers, Queues
<1>3. ASSUME NEW s \in Slots, There(calls'[s][InitIndex])
      PROVE  /\ calls'[s][InitIndex].st = "DIALING"
             /\ \E o \in {0, 1} :
                   /\ Dial(s, o) /\ calls'[s][InitIndex].num = DialNum(s, o)
                   /\ o = 0 => /\ \/ IsList(Head(queue)) \/ Head(queue).slot # s
                                  \/ Head(queue).st # "DISCONNECTED"
                               /\ \A i \in Indexes : FreshAt(s, i, 1) => Done(s, i)
  <2>1. calls' = calls /\ Dial(s, 0) /\ calls'[s][InitIndex].num = DialNum(s, 0)
    BY <1>1, <1>3 DEF Dial, DialNum
  <2>2. ASSUME NEW i \in Indexes, FreshAt(s, i, 1) PROVE Done(s, i)
    <3>1. 1 \in DOMAIN View(queue, s, i) BY <2>2 DEF FreshAt, Fresh
    <3>2. s = Head(queue).slot BY <1>2, <3>1, ViewIs
    <3> QED BY <1>1, <3>2
  <2> QED BY <1>1, <1>3, <2>1, <2>2 DEF Dialled
<1> QED BY <1>1, <1>2, <1>3, DialsShift

\* HandleSingleReport brings a dial into the table, or takes it out.
LEMMA DialsSingle ==
    ASSUME ListsInv, Following, Dialled, HandleSingleReport PROVE Dialled'
<1>1. /\ queue # <<>> /\ ~IsList(Head(queue)) /\ queue' = Tail(queue) /\ ~busy /\ busy' = busy
      /\ Head(queue).st \in {"DIALING", "DISCONNECTED"} /\ UNCHANGED <<details, env>>
      /\ DialBecomes(Manager, Manager', Head(queue))
  BY SingleIs
<1>2. queue \in Queues BY Expand DEF ListsInv, Managers, Queues
<1>3. ASSUME NEW s \in Slots, NEW i \in Indexes
      PROVE  /\ 1 \notin DOMAIN View(queue, s, i)
             /\ Remembers(View(queue, s, i), details[s][i], details'[s][i])
             /\ ~FreshAt(s, i, 1)
  <2>1. 1 \notin DOMAIN View(queue, s, i) BY <1>1, <1>2, ViewIs
  <2> QED BY <1>1, <2>1 DEF Remembers, FreshAt, Fresh
<1>4. ASSUME NEW s \in Slots, There(calls'[s][InitIndex])
      PROVE  /\ calls'[s][InitIndex].st = "DIALING"
             /\ \E o \in {0, 1} :
                   /\ Dial(s, o) /\ calls'[s][InitIndex].num = DialNum(s, o)
                   /\ o = 0 => /\ \/ IsList(Head(queue)) \/ Head(queue).slot # s
                                  \/ Head(queue).st # "DISCONNECTED"
                               /\ \A i \in Indexes : FreshAt(s, i, 1) => Done(s, i)
  <2>1. CASE s = Head(queue).slot
    <3>1. /\ Head(queue).st = "DIALING" /\ calls'[s][InitIndex].st = "DIALING"
          /\ calls'[s][InitIndex].num = Head(queue).num
      BY <1>1, <1>4, <2>1, Expand DEF DialBecomes
    <3>2. 1 \in 1..Len(queue) /\ queue[1] = Head(queue) BY <1>1, <1>2 DEF Queues
    <3>3. Dial(s, 1) /\ DialNum(s, 1) = Head(queue).num BY <1>1, <2>1, <3>1, <3>2 DEF Dial, DialNum
    <3> QED BY <3>1, <3>3
  <2>2. CASE s # Head(queue).slot
    <3>1. calls'[s][InitIndex] = calls[s][InitIndex] BY <1>1, <2>2, Expand DEF DialBecomes
    <3>2. Dial(s, 0) /\ calls'[s][InitIndex].num = DialNum(s, 0) BY <1>4, <3>1 DEF Dial, DialNum
    <3> QED BY <1>3, <1>4, <2>2, <3>1, <3>2 DEF Dialled
  <2> QED BY <2>1, <2>2
<1> QED BY <1>1, <1>2, <1>3, <1>4, DialsShift

\* One more list at the end: its entry begins a dialled call where the modem takes one up.
LEMMA FreshExtends ==
    ASSUME NEW v, NEW w, NEW n, NEW o, NEW d, NEW e, NEW open,
           Extends(v, w, n, e), LastOK(v, o, d, open)
    PROVE  /\ Fresh(w, o, n) => Dials(e) /\ w[n] = e /\ ~Live(d)
           /\ Dials(e) /\ ~Live(d) /\ open => Fresh(w, o, n)
<1>1. n \in Nat \ {0} /\ DOMAIN v \subseteq 1..(n - 1) /\ n - 1 \in Nat
      /\ DOMAIN w = DOMAIN v \cup {n} /\ \A k \in DOMAIN v : w[k] = v[k] /\ k < n /\ k \in Nat
  BY DEF Extends
<1>2. (Live(e) => w[n] = e) /\ (Live(w[n]) => Live(e)) BY DEF Extends
<1>3. \A c : Dials(c) => Live(c) BY DEF Dials, Live
<1>4. ASSUME Fresh(w, o, n) PROVE Dials(e) /\ w[n] = e /\ ~Live(d)
  <2>1. Dials(w[n]) BY <1>4 DEF Fresh
  <2>2. w[n] = e BY <1>2, <1>3, <2>1
  <2>3. CASE DOMAIN v = {}
    <3>1. \A m \in DOMAIN w : n <= m BY <1>1, <2>3
    <3>2. ~Live(o) BY <1>4, <3>1 DEF Fresh
    <3> QED BY <2>1, <2>2, <2>3, <3>2 DEF LastOK, FinalOK
  <2>4. ASSUME NEW x \in DOMAIN v PROVE ~Live(d)
    <3>1. PICK k \in DOMAIN v : x <= k /\ \A m \in DOMAIN v : m <= k BY <1>1, LastEntry
    <3>2. \A m \in DOMAIN w : m <= k \/ n <= m BY <1>1, <3>1
    <3>3. ~Live(v[k]) BY <1>1, <1>4, <3>1, <3>2 DEF Fresh
    <3> QED BY <3>1, <3>3 DEF LastOK, FinalOK
  <2> QED BY <2>1, <2>2, <2>3, <2>4
<1>5. ASSUME Dials(e), ~Live(d), open PROVE Fresh(w, o, n)
  <2>1. n \in DOMAIN w /\ Dials(w[n]) BY <1>1, <1>2, <1>3, <1>5
  <2>2. ASSUME \A m \in DOMAIN w : n <= m PROVE ~Live(o)
    <3>1. DOMAIN v = {}
      <4>1. ASSUME NEW m \in DOMAIN v PROVE FALSE
        <5>1. m < n /\ m \in Nat /\ n \in Nat /\ m \in DOMAIN w BY <1>1
        <5>2. n <= m BY <2>2, <5>1
        <5> QED BY <5>1, <5>2
      <4> QED BY <4>1
    <3> QED BY <1>5, <3>1 DEF LastOK, FinalOK
  <2>3. ASSUME NEW j \in DOMAIN w, j < n, \A m \in DOMAIN w : m <= j \/ n <= m PROVE ~Live(w[j])
    <3>1. j \in DOMAIN v /\ w[j] = v[j] BY <1>1, <2>3
    <3>2. \A m \in DOMAIN v : m <= j
      <4>1. \A m \in DOMAIN v : m < n /\ m \in Nat /\ (m <= j \/ n <= m) BY <1>1, <2>3
      <4> QED BY <1>1, <4>1
    <3>3. FinalOK(v[j], d, open) BY <3>1, <3>2 DEF LastOK
    <3> QED BY <1>5, <3>1, <3>3 DEF FinalOK
  <2> QED BY <2>1, <2>2, <2>3 DEF Fresh
<1> QED BY <1>4, <1>5

\* A list is put at the queue's end, perhaps behind reports: the entries that are new.
LEMMA FreshPosted ==
    ASSUME ListsInv, Following, NEW s \in Slots, NEW q \in Queues, Grown(queue, q),
           NEW l \in Lists, l.slot = s, queue' = Append(q, l), details' = details,
           NEW cs \in [Indexes -> ModemCalls], NEW t \in Slots, NEW i \in Indexes,
           (Live(cs[i]) => l.calls[i] = cs[i]) /\ (Live(l.calls[i]) => Live(cs[i])),
           NEW k \in 1..Len(queue'), k \notin 1..Len(queue)
    PROVE  /\ FreshAt(t, i, k)' => /\ t = s /\ Dials(cs[i]) /\ ~Live(modem[s][i])
                                   /\ View(queue', s, i)[k] = cs[i]
           /\ k = Len(q) + 1 /\ Dials(cs[i]) /\ ~Live(modem[s][i]) /\ Open(s, i) => FreshAt(s, i, k)'
<1>1. queue \in Queues BY Expand DEF ListsInv, Managers, Queues
<1>2. /\ Len(queue) \in Nat /\ Len(q) \in Nat /\ Len(queue') = Len(q) + 1 /\ queue'[Len(q) + 1] = l
      /\ (\A j \in 1..Len(q) : queue'[j] = q[j]) /\ queue' \in Queues
  BY <1>1 DEF Queues
<1>3. k = Len(q) + 1 \/ (k \in 1..Len(q) /\ k > Len(queue)) BY <1>1, <1>2
<1>4. CASE k # Len(q) + 1
  <2>1. queue'[k] \in SoundReports BY <1>2, <1>3, <1>4 DEF Grown
  <2>2. ~IsList(queue'[k]) BY <2>1, QueueTypes
  <2>3. k \notin DOMAIN View(queue', t, i) BY <1>2, <2>2, ViewIs
  <2>4. ~FreshAt(t, i, k)' BY <2>3 DEF FreshAt, Fresh
  <2> QED BY <1>4, <2>4
<1>5. CASE k = Len(q) + 1
  <2> DEFINE v == View(queue, s, i)
             w == View(queue', s, i)
             o == details[s][i]
             d == modem[s][i]
  <2>1. View(q, s, i) = v BY <1>1, ViewGrown
  <2>2. Extends(v, w, k, cs[i]) BY <1>5, <2>1, ViewExtends
  <2>3. LastOK(v, o, d, Open(s, i)) BY DEF Following, PlaceOK, Fits, Ordered
  <2> HIDE DEF v, w, o, d
  <2>4. /\ Fresh(w, o, k) => Dials(cs[i]) /\ w[k] = cs[i] /\ ~Live(d)
        /\ Dials(cs[i]) /\ ~Live(d) /\ Open(s, i) => Fresh(w, o, k)
    BY <2>2, <2>3, FreshExtends
  <2>5. FreshAt(s, i, k)' <=> Fresh(w, o, k) BY DEF FreshAt, w, o
  <2>6. FreshAt(t, i, k)' => t = s
    <3>1. queue'[k].slot = s /\ queue' \in Queues BY <1>2, <1>5
    <3>2. \A m : m \in DOMAIN View(queue', t, i) <=>
                 m \in 1..Len(queue') /\ IsList(queue'[m]) /\ queue'[m].slot = t
      BY <3>1, ViewIs, ZenonT(40)
    <3> QED BY <3>1, <3>2 DEF FreshAt, Fresh
  <2> QED BY <2>4, <2>5, <2>6 DEF w, d
<1> QED BY <1>4, <1>5

\* Such a list keeps Dialled.
LEMMA DialsPosted ==
    ASSUME ListsInv, Following, Dialled, NEW s \in Slots, NEW q \in Queues, Grown(queue, q),
           Ending(queue, q), NEW l \in Lists, l.slot = s, queue' = Append(q, l),
           UNCHANGED <<calls, details, work, busy, up>>, NEW cs \in [Indexes -> ModemCalls],
           \A i \in Indexes : (Live(cs[i]) => l.calls[i] = cs[i]) /\ (Live(l.calls[i]) => Live(cs[i])),
           \A i \in Indexes : ~Live(modem[s][i]) /\ Dials(cs[i]) =>
               dialReq[s] # 0 /\ cs[i].num = dialReq[s],
           \A t \in Slots : dialReq'[t] # 0 => dialReq'[t] = dialReq[t],
           \A t \in Slots, p \in Nat : Dial(t, p) /\ dialReq[t] # 0 => Owed(t, p)',
           \A t \in Slots : <<t, InitIndex>> \in clearing => Owed(t, 0)'
    PROVE  Dialled'
<1>1. queue \in Queues BY Expand DEF ListsInv, Managers, Queues
<1>2. /\ Len(queue) \in Nat /\ Len(q) \in Nat /\ Len(queue) <= Len(q) /\ Len(queue') = Len(q) + 1
      /\ queue'[Len(q) + 1] = l /\ (\A j \in 1..Len(q) : queue'[j] = q[j]) /\ queue' \in Queues
      /\ \A j \in 1..Len(queue) : q[j] = queue[j]
  BY <1>1 DEF Queues, Grown
<1>3. Longer(queue, queue') BY <1>2 DEF Longer
<1>4. ASSUME NEW k \in 1..Len(queue')
      PROVE  k \in 1..Len(queue) \/ IsList(queue'[k]) \/ queue'[k].st # "DIALING"
  <2>1. CASE k = Len(q) + 1 BY <1>2, <2>1, QueueTypes
  <2>2. CASE k # Len(q) + 1
    <3>1. k \in 1..Len(q) /\ queue'[k] = q[k] BY <1>2, <2>2
    <3> QED BY <3>1 DEF Ending
  <2> QED BY <2>1, <2>2
<1>5. ASSUME NEW t \in Slots, NEW i \in Indexes, NEW k \in 1..Len(queue'),
             k \notin 1..Len(queue), FreshAt(t, i, k)'
      PROVE  dialReq[t] # 0 /\ View(queue', t, i)[k].num = dialReq[t]
  <2>1. (Live(cs[i]) => l.calls[i] = cs[i]) /\ (Live(l.calls[i]) => Live(cs[i])) OBVIOUS
  <2>2. queue' = Append(q, l) /\ details' = details OBVIOUS
  <2>3. FreshAt(t, i, k)' => /\ t = s /\ Dials(cs[i]) /\ ~Live(modem[s][i])
                             /\ View(queue', s, i)[k] = cs[i]
    BY <1>5, <2>1, <2>2, FreshPosted, SMTT(30)
  <2>4. t = s /\ Dials(cs[i]) /\ ~Live(modem[s][i]) /\ View(queue', s, i)[k] = cs[i]
    BY <1>5, <2>3
  <2> QED BY <2>4
<1>6. queue # <<>> => Head(queue') = Head(queue) BY <1>1, <1>2, <1>3 DEF Queues, Longer
<1>7. ASSUME NEW t \in Slots, NEW p \in Nat, Dial(t, p), Owed(t, p) PROVE Owed(t, p)'
  <2>1. \A i \in Indexes : queue # <<>> /\ 1 > p /\ FreshAt(t, i, 1) /\ Done(t, i)' => Done(t, i)
    BY <1>6 DEF Done, Here
  <2>2. \A i \in Indexes : details'[t][i] = details[t][i] OBVIOUS
  <2>3. dialReq[t] # 0 => Owed(t, p)' BY <1>7
  <2>4. ~up => ~up' OBVIOUS
  <2>5. p = 0 /\ <<t, InitIndex>> \in clearing => Owed(t, p)' OBVIOUS
  <2> QED BY <1>1, <1>2, <1>3, <1>7, <2>1, <2>2, <2>3, <2>4, <2>5, OwedStill
<1>8. \A t \in Slots : SameCall(calls[t][InitIndex], calls'[t][InitIndex]) BY DEF SameCall
<1> QED BY <1>1, <1>2, <1>3, <1>4, <1>5, <1>7, <1>8, DialsGrow

\* The modem moves on; the dial it takes up, it lists.
LEMMA DialsModem ==
    ASSUME ListsInv, ListsInv', Following, Dialled, Races = {}, NEW s \in Slots, ModemMoves(s)
    PROVE  Dialled'
<1>1. PICK cs \in [Indexes -> ModemCalls] :
          /\ ModemBecomes(s, cs)
          /\ \A i \in Indexes : ~Live(modem[s][i]) /\ Dials(cs[i]) =>
                 dialReq[s] # 0 /\ cs[i].num = dialReq[s]
          /\ \/ dialReq' = dialReq
             \/ /\ up /\ clearing = {} /\ dialReq' = [dialReq EXCEPT ![s] = 0]
                /\ \E i \in Indexes : ~Live(modem[s][i]) /\ Dials(cs[i])
  BY DEF ModemMoves
<1>2. UNCHANGED <<calls, details, work, busy, up, clearing>> BY <1>1 DEF ModemBecomes
<1>3. /\ queue \in Queues /\ queue' \in Queues /\ dialReq \in [Slots -> Nums \cup {0}] /\ up \in BOOLEAN
  BY Expand DEF ListsInv, Managers, Queues, EnvOK
<1>4. CASE up
  <2>1. PICK l \in ListsOf(s, cs) : queue' = OnUpdateCallsReportInfo(queue, [slot |-> s, calls |-> l])
    BY <1>1, <1>4 DEF ModemBecomes
  <2> DEFINE x == [slot |-> s, calls |-> l]
  <2>2. x \in Lists /\ x.slot = s BY ListsOfType
  <2>3. PICK named \in SUBSET {i \in Indexes : There(modem[s][i]) /\ ~There(cs[i])} :
           l = [i \in Indexes |-> IF i \in named THEN Ended ELSE cs[i]]
    BY DEF ListsOf
  <2>4. \E i \in Indexes : There(l[i]) BY DEF ListsOf
  <2>5. queue' = Append(queue, x) BY <2>1, <2>4 DEF OnUpdateCallsReportInfo
  <2>6. ASSUME NEW i \in Indexes
        PROVE  (Live(cs[i]) => x.calls[i] = cs[i]) /\ (Live(x.calls[i]) => Live(cs[i]))
    <3>1. CASE i \in named
      <4>1. x.calls[i] = Ended /\ ~There(cs[i]) BY <2>3, <3>1
      <4> QED BY <4>1, StepFacts DEF Ended, Live
    <3>2. CASE i \notin named BY <2>3, <3>2
    <3> QED BY <3>1, <3>2
  <2>7. Grown(queue, queue) /\ Ending(queue, queue) BY <1>3, GrownSame DEF Ending
  <2> HIDE DEF x
  <2>8. ASSUME NEW t \in Slots, NEW p \in Nat, Dial(t, p), dialReq[t] # 0 PROVE Owed(t, p)'
    <3>1. CASE dialReq' = dialReq BY <2>8, <3>1 DEF Owed
    <3>2. CASE dialReq' # dialReq
      <4>1. PICK i \in Indexes : ~Live(modem[s][i]) /\ Dials(cs[i]) BY <1>1, <3>2
      <4>2. dialReq[s] # 0 /\ clearing = {} BY <1>1, <3>2, <4>1
      <4>3. t = s BY <2>8, <4>2 DEF Dialled, DialOK, Matches
      <4>4. Open(s, i) BY <1>4, <4>2 DEF Open
      <4>0. PICK n : n = Len(queue) + 1 OBVIOUS
      <4>5. n \in 1..Len(queue') /\ n \notin 1..Len(queue) /\ n > p
        <5>1. p = 0 \/ p \in 1..Len(queue) BY <2>8 DEF Dial
        <5>2. Len(queue) \in Nat /\ Len(queue') = Len(queue) + 1 BY <1>3, <2>5 DEF Queues
        <5> QED BY <4>0, <5>1, <5>2
      <4>6. FreshAt(s, i, n)'
        <5>1. details' = details BY <1>2
        <5>2. (Live(cs[i]) => x.calls[i] = cs[i]) /\ (Live(x.calls[i]) => Live(cs[i])) BY <2>6
        <5>3. n = Len(queue) + 1 /\ Dials(cs[i]) /\ ~Live(modem[s][i]) /\ Open(s, i) => FreshAt(s, i, n)'
          BY <1>3, <2>2, <2>5, <2>7, <4>5, <5>1, <5>2, FreshPosted
        <5> QED BY <4>0, <4>1, <4>4, <5>3
      <4>7. ~(n = 1 /\ Done(s, i)')
        <5>1. n = 1 => queue = <<>> BY <1>3, <4>0 DEF Queues
        <5>2. queue = <<>> => ~busy BY DEF ListsInv, AtWork
        <5> QED BY <1>2, <5>1, <5>2 DEF Done, Here
      <4>8. Listed(s, p)' BY <4>5, <4>6, <4>7 DEF Listed
      <4> QED BY <4>3, <4>8 DEF Owed
    <3> QED BY <3>1, <3>2
  <2>9. \A t \in Slots : dialReq'[t] # 0 => dialReq'[t] = dialReq[t] BY <1>1, <1>3
  <2>10. \A t \in Slots : <<t, InitIndex>> \in clearing => Owed(t, 0)' BY <1>2 DEF Owed
  <2>11. \A i \in Indexes : ~Live(modem[s][i]) /\ Dials(cs[i]) => dialReq[s] # 0 /\ cs[i].num = dialReq[s]
    BY <1>1
  <2>12. \A t \in Slots, p \in Nat : Dial(t, p) /\ dialReq[t] # 0 => Owed(t, p)' BY <2>8
  <2>13. \A i \in Indexes : (Live(cs[i]) => x.calls[i] = cs[i]) /\ (Live(x.calls[i]) => Live(cs[i]))
    BY <2>6
  <2>14. UNCHANGED <<calls, details, work, busy, up>> BY <1>2
  <2> QED BY <1>3, <2>2, <2>5, <2>7, <2>9, <2>10, <2>11, <2>12, <2>13, <2>14, DialsPosted, SMTT(30)
<1>5. CASE ~up
  <2>1. queue' = queue /\ dialReq' = dialReq /\ ~up' BY <1>1, <1>2, <1>5 DEF ModemBecomes
  <2>2. Longer(queue, queue') BY <1>3, <2>1 DEF Longer, Queues
  <2>3. \A t \in Slots, p \in Nat : Owed(t, p)' BY <2>1 DEF Owed
  <2>4. \A t \in Slots : SameCall(calls[t][InitIndex], calls'[t][InitIndex]) BY <1>2 DEF SameCall
  <2> QED BY <1>2, <1>3, <2>1, <2>2, <2>3, <2>4, DialsGrow
<1> QED BY <1>3, <1>4, <1>5

\* ClearAllCalls: the dial of the slot is reported as ended, and no call begins.
LEMMA DialsClear ==
    ASSUME ListsInv, Following, Dialled, ClearReport = "list", ClearAllCalls PROVE Dialled'
<1>1. /\ UNCHANGED <<calls, details, work, busy, up, dialReq>> BY DEF ClearAllCalls
<1>2. PICK s \in Slots, cs \in [Indexes -> ModemCalls], q \in Queues, l \in Lists :
               /\ l.slot = s /\ Grown(queue, q)
               /\ \A i \in Indexes : Cleared(s, i, cs[i], l.calls[i])
               /\ queue' = OnUpdateCallsReportInfo(q, l)
               /\ clearing' = {p \in clearing : p[1] # s}
               /\ Ending(queue, q)
               /\ <<s, InitIndex>> \in clearing =>
                      /\ Len(q) = Len(queue) + 1 /\ ~IsList(q[Len(q)])
                      /\ q[Len(q)].st = "DISCONNECTED" /\ q[Len(q)].slot = s
  BY ClearIs
<1>3. queue \in Queues /\ queue' \in Queues
  <2>1. ListsInv' BY StepClear DEF Sound
  <2> QED BY <2>1, Expand DEF ListsInv, Managers, Queues
<1>4. /\ Len(queue) \in Nat /\ Len(q) \in Nat /\ Len(queue) <= Len(q)
      /\ \A k \in 1..Len(queue) : q[k] = queue[k]
      /\ \A k \in 1..Len(q) : k \in 1..Len(queue') /\ queue'[k] = q[k]
  BY <1>2, <1>3 DEF OnUpdateCallsReportInfo, Queues, Grown
<1>5. \A t \in Slots : <<t, InitIndex>> \in clearing => Owed(t, 0)'
  <2> SUFFICES ASSUME NEW t \in Slots, <<t, InitIndex>> \in clearing PROVE Owed(t, 0)'
    OBVIOUS
  <2>1. CASE t # s
    <3>1. <<t, InitIndex>> \in clearing' BY <1>2, <2>1
    <3> QED BY <3>1 DEF Owed
  <2>2. CASE t = s
    <3>1. Len(q) \in 1..Len(q) /\ Len(q) > 0 BY <1>2, <1>4, <2>2
    <3>2. EndReported(t, 0)' BY <1>2, <1>4, <2>2, <3>1 DEF EndReported
    <3> QED BY <3>2 DEF Owed
  <2> QED BY <2>1, <2>2
<1>6. \A t \in Slots, p \in Nat : Dial(t, p) /\ dialReq[t] # 0 => Owed(t, p)' BY <1>1 DEF Owed
<1>7. CASE \E i \in Indexes : There(l.calls[i])
  <2>1. queue' = Append(q, l) BY <1>2, <1>7 DEF OnUpdateCallsReportInfo
  <2>2. ~Live(NoCall) /\ ~Live(Ended) /\ \A c : Dials(c) => Live(c)
    BY DEF Live, NoCall, Ended, Dials
  <2>3. \A i \in Indexes : (Live(cs[i]) => l.calls[i] = cs[i]) /\ (Live(l.calls[i]) => Live(cs[i]))
    BY <1>2, <2>2 DEF Cleared
  <2>4. \A i \in Indexes : ~Live(modem[s][i]) => ~Dials(cs[i]) BY <1>2, <2>2 DEF Cleared
  <2> QED BY <1>1, <1>2, <1>5, <1>6, <2>1, <2>3, <2>4, DialsPosted, SMTT(30)
<1>8. CASE \A i \in Indexes : ~There(l.calls[i])
  <2>1. queue' = q BY <1>2, <1>8 DEF OnUpdateCallsReportInfo
  <2>2. Longer(queue, queue') BY <1>4, <2>1 DEF Longer
  <2>3. \A k \in 1..Len(queue') : k \in 1..Len(queue) \/ IsList(queue'[k]) \/ queue'[k].st # "DIALING"
    BY <1>2, <2>1 DEF Ending
  <2>4. ASSUME NEW t \in Slots, NEW i \in Indexes, NEW k \in 1..Len(queue'), k \notin 1..Len(queue)
        PROVE  ~FreshAt(t, i, k)'
    <3>1. queue'[k] \in SoundReports
      <4>1. k > Len(queue) BY <1>4, <2>4
      <4> QED BY <1>2, <2>1, <4>1 DEF Grown
    <3>2. k \notin DOMAIN View(queue', t, i) BY <1>3, <3>1, QueueTypes, ViewIs
    <3> QED BY <3>2 DEF FreshAt, Fresh
  <2>5. queue # <<>> => Head(queue') = Head(queue) BY <1>3, <2>2 DEF Queues, Longer
  <2>6. ASSUME NEW t \in Slots, NEW p \in Nat, Dial(t, p), Owed(t, p) PROVE Owed(t, p)'
    <3>1. \A i \in Indexes : queue # <<>> /\ 1 > p /\ FreshAt(t, i, 1) /\ Done(t, i)' => Done(t, i)
      BY <1>1, <2>5 DEF Done, Here
    <3>2. \A i \in Indexes : details'[t][i] = details[t][i] BY <1>1
    <3>3. dialReq[t] # 0 => Owed(t, p)' BY <1>6, <2>6
    <3>4. ~up => ~up' BY <1>1
    <3>5. p = 0 /\ <<t, InitIndex>> \in clearing => Owed(t, p)' BY <1>5
    <3> QED BY <1>3, <2>2, <2>6, <3>1, <3>2, <3>3, <3>4, <3>5, OwedStill
  <2>7. \A t \in Slots : SameCall(calls[t][InitIndex], calls'[t][InitIndex]) BY <1>1 DEF SameCall
  <2>8. \A t \in Slots : dialReq'[t] # 0 => dialReq'[t] = dialReq[t] BY <1>1
  <2>9. details' = details BY <1>1
  <2> QED BY <1>3, <2>2, <2>3, <2>4, <2>6, <2>7, <2>8, <2>9, DialsGrow
<1> QED BY <1>7, <1>8
-----------------------------------------------------------------------------
(* The other steps *)

\* Nothing happens to the queue or to the calls.
LEMMA SettledStill ==
    ASSUME ListsInv, ListsInv', Settled, UNCHANGED <<queue, details, screened, work, busy, env>>,
           Keeps(Manager, Manager')
    PROVE  Settled'
<1>1. UNCHANGED <<modem, dialReq, up, clearing, reported>> BY DEF env
<1>2. queue \in Queues BY Expand DEF ListsInv, Managers, Queues
<1>3. Truth'
  <2>1. Grown(queue, queue') BY <1>2, GrownSame
  <2>2. reported' \subseteq reported /\ (~up' => reported' = {}) BY <1>1 DEF Settled, Truth
  <2> QED BY <1>1, <2>1, <2>2, TruthStill DEF Settled
<1>4. Dialled'
  <2>1. Longer(queue, queue') /\ queue' \in Queues BY <1>2 DEF Longer, Queues
  <2>2. ASSUME NEW t \in Slots, NEW p \in Nat, Owed(t, p) PROVE Owed(t, p)'
    <3>1. \A i \in Indexes : queue # <<>> /\ 1 > p /\ FreshAt(t, i, 1) /\ Done(t, i)' => Done(t, i)
      BY DEF Done, Here
    <3>2. \A i \in Indexes : details'[t][i] = details[t][i] OBVIOUS
    <3>3. dialReq[t] # 0 => Owed(t, p)' BY <1>1 DEF Owed
    <3>4. ~up => ~up' BY <1>1
    <3>5. p = 0 /\ <<t, InitIndex>> \in clearing => Owed(t, p)' BY <1>1 DEF Owed
    <3> QED BY <1>2, <2>1, <2>2, <3>1, <3>2, <3>3, <3>4, <3>5, OwedStill
  <2>3. ASSUME NEW t \in Slots PROVE SameCall(calls[t][InitIndex], calls'[t][InitIndex])
    BY PlaceTypes, Expand DEF Keeps
  <2>4. \A k \in 1..Len(queue') : k \in 1..Len(queue) OBVIOUS
  <2> QED BY <1>1, <1>2, <2>1, <2>2, <2>3, <2>4, DialsGrow DEF Settled
<1> QED BY <1>3, <1>4 DEF Settled

\* Fraud detection.
LEMMA SettledDetection ==
    ASSUME ListsInv, ListsInv', Settled, Races = {}, Detection PROVE Settled'
<1>1. UNCHANGED <<work, busy, env>> BY DetectionIs
<1>2. PICK m : Untouched(Manager, m) /\ Become(m) BY DetectionIs
<1>3. /\ queue' = queue /\ details' = details /\ screened' = screened /\ calls' = m.calls
  BY <1>2, Expand DEF Untouched, Become
<1>4. Keeps(Manager, Manager') BY <1>2, <1>3, Expand DEF Untouched, Keeps
<1> QED BY <1>1, <1>3, <1>4, SettledStill

\* HandleCallsReportInfo: a call that begins differs, so it is to be reported.
LEMMA SettledCallsReport ==
    ASSUME ListsInv, ListsInv', Settled, HandleCallsReportInfo PROVE Settled'
<1> DEFINE l == Head(queue)
<1>1. queue \in Queues BY Expand DEF ListsInv, Managers, Queues
<1>2. /\ ~busy /\ queue # <<>> /\ IsList(l) /\ l \in Lists /\ work' = Differences(l, details[l.slot])
      /\ UNCHANGED <<calls, queue, details, screened, env>>
  BY <1>1, HeadTypes DEF HandleCallsReportInfo, manager, Queues
<1> HIDE DEF l
<1>3. \A i \in Indexes : (\A k \in DOMAIN work' : work'[k].idx # i) =>
          Look(l.calls[i]) = Look(details[l.slot][i])
  BY <1>2, DifferencesTell
<1>4. UNCHANGED <<modem, dialReq, up, clearing, reported>> BY <1>2 DEF env
<1>5. Truth'
  <2>1. Grown(queue, queue') BY <1>1, <1>2, GrownSame
  <2>2. Keeps(Manager, Manager') BY <1>2, Expand DEF Keeps, SameCall
  <2>3. reported' \subseteq reported /\ (~up' => reported' = {}) BY <1>4 DEF Settled, Truth
  <2> QED BY <1>2, <1>4, <2>1, <2>2, <2>3, TruthStill DEF Settled
<1>6. Dialled'
  <2>1. Longer(queue, queue') /\ queue' \in Queues BY <1>1, <1>2 DEF Longer, Queues
  <2>2. ASSUME NEW t \in Slots, NEW i \in Indexes, FreshAt(t, i, 1), Done(t, i)' PROVE FALSE
    <3> DEFINE v == View(queue, t, i)
    <3>1. t = l.slot /\ \A k \in DOMAIN work' : work'[k].idx # i BY <1>2, <2>2 DEF Done, Here, l
    <3>2. 1 \in DOMAIN v /\ Dials(v[1]) /\ ((\A n \in DOMAIN v : 1 <= n) => ~Live(details[t][i]))
      BY <2>2 DEF FreshAt, Fresh
    <3>3. v[1] = l.calls[i] /\ \A n \in DOMAIN v : n \in Nat \ {0} BY <1>1, <3>2, ViewIs DEF l
    <3> HIDE DEF v
    <3>4. ~Live(details[t][i]) BY <3>2, <3>3
    <3>5. Live(l.calls[i]) BY <3>2, <3>3 DEF Dials, Live
    <3> QED BY <1>3, <3>1, <3>4, <3>5, LookFacts
  <2>3. ASSUME NEW t \in Slots, NEW p \in Nat, Owed(t, p) PROVE Owed(t, p)'
    <3>1. \A i \in Indexes : queue # <<>> /\ 1 > p /\ FreshAt(t, i, 1) /\ Done(t, i)' => Done(t, i)
      BY <2>2
    <3>2. \A i \in Indexes : details'[t][i] = details[t][i] BY <1>2
    <3>3. dialReq[t] # 0 => Owed(t, p)' BY <1>4 DEF Owed
    <3>4. ~up => ~up' BY <1>4
    <3>5. p = 0 /\ <<t, InitIndex>> \in clearing => Owed(t, p)' BY <1>4 DEF Owed
    <3> QED BY <1>1, <2>1, <2>3, <3>1, <3>2, <3>3, <3>4, <3>5, OwedStill
  <2>4. \A t \in Slots : SameCall(calls[t][InitIndex], calls'[t][InitIndex]) BY <1>2 DEF SameCall
  <2>5. \A k \in 1..Len(queue') : k \in 1..Len(queue) BY <1>2
  <2>6. \A t \in Slots : dialReq'[t] # 0 => dialReq'[t] = dialReq[t] BY <1>4
  <2>7. details' = details BY <1>2
  <2> QED BY <1>1, <2>1, <2>3, <2>4, <2>5, <2>6, <2>7, DialsGrow DEF Settled
<1> QED BY <1>5, <1>6 DEF Settled

\* UserDials: there was no dial, now there is one.
LEMMA SettledUserDials ==
    ASSUME ListsInv, ListsInv', Settled, NEW s \in Slots, UserDials(s) PROVE Settled'
<1> DEFINE r == Report(s, InitIndex, "DIALING", "IMS", used.calls + 1)
<1>1. /\ UNCHANGED <<calls, details, screened, modem, up, clearing, reported>>
      /\ queue' = Append(queue, r) /\ dialReq' = [dialReq EXCEPT ![s] = used.calls + 1]
      /\ ~DialQueued /\ \A t \in Slots : dialReq[t] = 0
  BY DEF UserDials
<1>2. queue \in Queues /\ queue' \in Queues BY Expand DEF ListsInv, Managers, Queues
<1>3. /\ used.calls \in Nat /\ used.calls + 1 \in Nums /\ dialReq \in [Slots -> Nums \cup {0}]
  <2>1. used.calls \in 0..MaxCalls /\ used.calls < MaxCalls /\ dialReq \in [Slots -> Nums \cup {0}]
    BY DEF UserDials, ListsInv, EnvOK
  <2> QED BY <2>1, ListsAssumption DEF Nums
<1>4. r \in SoundReports
  BY <1>3, PlaceTypes DEF SoundReports, Reports, Report, States, Types
<1>5. Truth'
  <2>1. Grown(queue, queue') BY <1>1, <1>2, <1>4, GrownOne
  <2>2. Keeps(Manager, Manager') BY <1>1, Expand DEF Keeps, SameCall
  <2>3. reported' \subseteq reported /\ (~up' => reported' = {}) BY <1>1 DEF Settled, Truth
  <2> QED BY <1>1, <2>1, <2>2, <2>3, TruthStill DEF Settled
<1>6. ASSUME NEW t \in Slots PROVE ~There(calls[t][InitIndex])
  <2> SUFFICES ASSUME There(calls[t][InitIndex]) PROVE FALSE OBVIOUS
  <2>1. calls[t][InitIndex].st = "DIALING" BY DEF Settled, Dialled
  <2>2. <<t, InitIndex>> \in {p \in Slots \X (0..MaxIdx) : There(calls[p[1]][p[2]])} BY PlaceTypes
  <2>3. \A p \in {p \in Slots \X (0..MaxIdx) : There(calls[p[1]][p[2]])} :
            calls[p[1]][p[2]].st # "DIALING"
    BY DEF UserDials
  <2> QED BY <2>1, <2>2, <2>3
<1>7. r.st = "DIALING" /\ r.slot = s /\ r.num = used.calls + 1 BY DEF Report
<1> HIDE DEF r
<1>8. /\ Len(queue) \in Nat /\ Len(queue') = Len(queue) + 1 /\ queue'[Len(queue) + 1] = r
      /\ \A k \in 1..Len(queue) : queue'[k] = queue[k]
  BY <1>1, <1>2 DEF Queues
<1>9. ASSUME NEW t \in Slots, NEW p \in Nat, Dial(t, p)'
      PROVE  p = Len(queue') /\ t = s /\ DialNum(t, p)' = used.calls + 1
  <2>1. p # 0
    <3>1. ~There(calls'[t][InitIndex]) BY <1>1, <1>6
    <3> QED BY <1>8, <1>9, <3>1 DEF Dial
  <2>2. p \in 1..Len(queue') /\ ~IsList(queue'[p]) /\ queue'[p].st = "DIALING" /\ queue'[p].slot = t
    BY <1>9, <2>1 DEF Dial
  <2>3. p \notin 1..Len(queue) BY <1>1, <1>2, <1>8, <2>2 DEF DialQueued, Queues
  <2>4. p = Len(queue') /\ queue'[p] = r BY <1>8, <2>2, <2>3
  <2> QED BY <1>7, <2>1, <2>2, <2>4 DEF DialNum
<1>10. ASSUME NEW t \in Slots, NEW p \in Nat, Dial(t, p)' PROVE DialOK(t, p)'
  <2>1. p = Len(queue') /\ t = s /\ DialNum(t, p)' = used.calls + 1 BY <1>9, <1>10
  <2>2. \A u \in Slots : dialReq'[u] # 0 => t = u /\ DialNum(t, p)' = dialReq'[u]
    BY <1>1, <1>3, <2>1
  <2>3. \A k \in 1..Len(queue') : ~(k > p) BY <1>8, <2>1
  <2>4. Matches(t, p)' BY <2>2, <2>3 DEF Matches
  <2>5. dialReq'[t] # 0 BY <1>1, <1>3, <2>1
  <2> QED BY <2>4, <2>5 DEF DialOK, Owed
<1>11. \A t \in Slots : ~There(calls'[t][InitIndex]) BY <1>1, <1>6
<1>12. Dialled' BY <1>9, <1>10, <1>11 DEF Dialled
<1> QED BY <1>5, <1>12 DEF Settled

\* ModemRefusesDial: the end of the dial is reported.
LEMMA SettledRefusesDial ==
    ASSUME ListsInv, ListsInv', Settled, NEW s \in Slots, ModemRefusesDial(s) PROVE Settled'
<1> DEFINE r == Report(s, InitIndex, "DISCONNECTED", "IMS", dialReq[s])
<1>1. /\ UNCHANGED <<calls, details, screened, modem, up, clearing, reported, work, busy>>
      /\ queue' = Append(queue, r) /\ dialReq' = [dialReq EXCEPT ![s] = 0] /\ dialReq[s] # 0
  BY DEF ModemRefusesDial
<1>2. queue \in Queues /\ queue' \in Queues BY Expand DEF ListsInv, Managers, Queues
<1>3. dialReq \in [Slots -> Nums \cup {0}] BY DEF ListsInv, EnvOK
<1>4. r \in SoundReports BY <1>3, PlaceTypes DEF SoundReports, Reports, Report, Types
<1>5. Truth'
  <2>1. Grown(queue, queue') BY <1>1, <1>2, <1>4, GrownOne
  <2>2. Keeps(Manager, Manager') BY <1>1, Expand DEF Keeps, SameCall
  <2>3. reported' \subseteq reported /\ (~up' => reported' = {}) BY <1>1 DEF Settled, Truth
  <2> QED BY <1>1, <2>1, <2>2, <2>3, TruthStill DEF Settled
<1>6. r.st = "DISCONNECTED" /\ r.slot = s /\ ~IsList(r)
  <2>1. ~IsList(r) BY <1>4, QueueTypes
  <2> QED BY <2>1 DEF Report
<1> HIDE DEF r
<1>7. /\ Len(queue) \in Nat /\ Len(queue') = Len(queue) + 1 /\ queue'[Len(queue) + 1] = r
      /\ \A k \in 1..Len(queue) : queue'[k] = queue[k]
  BY <1>1, <1>2 DEF Queues
<1>8. Longer(queue, queue') BY <1>7 DEF Longer
<1>9. ASSUME NEW k \in 1..Len(queue'), k \notin 1..Len(queue)
      PROVE  /\ queue'[k].st # "DIALING"
             /\ \A t \in Slots, i \in Indexes : ~FreshAt(t, i, k)'
  <2>1. queue'[k] = r BY <1>7, <1>9
  <2>2. ASSUME NEW t \in Slots, NEW i \in Indexes PROVE k \notin DOMAIN View(queue', t, i)
    BY <1>2, <1>6, <2>1, ViewIs
  <2> QED BY <1>6, <2>1, <2>2 DEF FreshAt, Fresh
<1>10. ASSUME NEW t \in Slots, NEW p \in Nat, Dial(t, p), Owed(t, p) PROVE Owed(t, p)'
  <2>1. queue # <<>> => Head(queue') = Head(queue) BY <1>2, <1>7 DEF Queues
  <2>2. \A i \in Indexes : queue # <<>> /\ 1 > p /\ FreshAt(t, i, 1) /\ Done(t, i)' => Done(t, i)
    BY <1>1, <2>1 DEF Done, Here
  <2>3. t = s BY <1>1, <1>10 DEF Settled, Dialled, DialOK, Matches
  <2>4. p = 0 \/ p \in 1..Len(queue) BY <1>10 DEF Dial
  <2>5. Len(queue) + 1 \in 1..Len(queue') /\ Len(queue) + 1 > p BY <1>7, <2>4
  <2>6. EndReported(t, p)' BY <1>6, <1>7, <2>3, <2>5 DEF EndReported
  <2> QED BY <2>6 DEF Owed
<1>11. Dialled'
  <2>1. \A t \in Slots : SameCall(calls[t][InitIndex], calls'[t][InitIndex]) BY <1>1 DEF SameCall
  <2>2. \A t \in Slots : dialReq'[t] # 0 => dialReq'[t] = dialReq[t] BY <1>1, <1>3
  <2>3. details' = details BY <1>1
  <2>4. \A k \in 1..Len(queue') : k \in 1..Len(queue) \/ IsList(queue'[k]) \/ queue'[k].st # "DIALING"
    BY <1>9
  <2>5. \A t \in Slots, i \in Indexes, k \in 1..Len(queue') :
            k \notin 1..Len(queue) /\ FreshAt(t, i, k)' =>
                dialReq[t] # 0 /\ View(queue', t, i)[k].num = dialReq[t]
    BY <1>9
  <2>6. \A t \in Slots, p \in Nat : Dial(t, p)' /\ Dial(t, p) /\ Owed(t, p) => Owed(t, p)' BY <1>10
  <2> QED BY <1>2, <1>8, <2>1, <2>2, <2>3, <2>4, <2>5, <2>6, DialsGrow DEF Settled
<1> QED BY <1>5, <1>11 DEF Settled

\* OnRemoveSystemAbility: nothing is owed any more, until the calls are cleared.
LEMMA SettledRemove ==
    ASSUME ListsInv, ListsInv', Settled, OnRemoveSystemAbility PROVE Settled'
<1>1. /\ UNCHANGED <<calls, queue, details, screened, modem>> /\ ~up' /\ reported' = {}
      /\ dialReq' = [s \in Slots |-> 0]
  BY DEF OnRemoveSystemAbility, manager
<1>2. queue \in Queues BY Expand DEF ListsInv, Managers, Queues
<1>3. Truth'
  <2>1. Grown(queue, queue') BY <1>1, <1>2, GrownSame
  <2>2. Keeps(Manager, Manager') BY <1>1, Expand DEF Keeps, SameCall
  <2> QED BY <1>1, <2>1, <2>2, TruthStill DEF Settled
<1>4. Dialled'
  <2>1. Longer(queue, queue') /\ queue' \in Queues BY <1>1, <1>2 DEF Longer, Queues
  <2>2. \A t \in Slots, p \in Nat : Owed(t, p)' BY <1>1 DEF Owed
  <2>3. \A t \in Slots : SameCall(calls[t][InitIndex], calls'[t][InitIndex]) BY <1>1 DEF SameCall
  <2>4. \A k \in 1..Len(queue') : k \in 1..Len(queue) BY <1>1
  <2>5. \A t \in Slots : dialReq'[t] = 0 BY <1>1
  <2>6. details' = details BY <1>1
  <2> QED BY <1>2, <2>1, <2>2, <2>3, <2>4, <2>5, <2>6, DialsGrow DEF Settled
<1> QED BY <1>3, <1>4 DEF Settled

\* OnAddSystemAbility: a dial in the table is to be cleared.
LEMMA SettledAdd ==
    ASSUME ListsInv, ListsInv', Settled, Races = {}, OnAddSystemAbility PROVE Settled'
<1>1. /\ UNCHANGED <<calls, queue, details, screened, modem, dialReq, reported>> /\ up'
      /\ queue = <<>>
      /\ clearing' = {p \in Slots \X (0..MaxIdx) : There(calls[p[1]][p[2]])}
  BY DEF OnAddSystemAbility, manager
<1>2. queue \in Queues BY Expand DEF ListsInv, Managers, Queues
<1>3. Truth'
  <2>1. Grown(queue, queue') BY <1>1, <1>2, GrownSame
  <2>2. Keeps(Manager, Manager') BY <1>1, Expand DEF Keeps, SameCall
  <2>3. reported' \subseteq reported /\ (~up' => reported' = {}) BY <1>1
  <2> QED BY <1>1, <2>1, <2>2, <2>3, TruthStill DEF Settled
<1>4. Dialled'
  <2>1. Longer(queue, queue') /\ queue' \in Queues BY <1>1, <1>2 DEF Longer, Queues
  <2>2. ASSUME NEW t \in Slots, NEW p \in Nat, Dial(t, p) PROVE Owed(t, p)'
    <3>1. 1..Len(queue) = {} BY <1>1
    <3>2. p = 0 /\ There(calls[t][InitIndex]) BY <2>2, <3>1 DEF Dial
    <3>3. <<t, InitIndex>> \in clearing' BY <1>1, <3>2, PlaceTypes
    <3> QED BY <3>2, <3>3 DEF Owed
  <2>3. \A t \in Slots : SameCall(calls[t][InitIndex], calls'[t][InitIndex]) BY <1>1 DEF SameCall
  <2>4. \A k \in 1..Len(queue') : k \in 1..Len(queue) BY <1>1
  <2>5. \A t \in Slots : dialReq'[t] # 0 => dialReq'[t] = dialReq[t] BY <1>1
  <2>6. details' = details BY <1>1
  <2> QED BY <1>2, <2>1, <2>2, <2>3, <2>4, <2>5, <2>6, DialsGrow DEF Settled
<1> QED BY <1>3, <1>4 DEF Settled

\* HandleListedCall: a dialled call that is listed takes the dial out of index 0.
LEMMA DialsListed ==
    ASSUME ListsInv, ListsInv', Following, Dialled, HandleListedCall, Races = {} PROVE Dialled'
<1>1. PICK s, i : s = Head(work).slot /\ i = Head(work).idx OBVIOUS
<1> DEFINE r == Head(work)
           c == calls[s][i]
           h == Head(queue).calls[i]
<1>2. /\ s \in Slots /\ i \in Indexes /\ 1 \in DOMAIN View(queue, s, i) /\ View(queue, s, i)[1] = h
      /\ Told(r, Head(queue)) /\ Agrees(details[s][i], c, Hidden(s, i)) /\ queue \in Queues
      /\ c.st \in States \cup {"NONE"} /\ queue # <<>>
  BY <1>1, ListedAt
<1>3. PICK show \in BOOLEAN :
         /\ IF Rings(r) THEN DoesRing(Manager, Manager', r, show) ELSE Does(Manager, Manager', r)
         /\ details' = details /\ Grown(queue, queue')
  BY <1>1, ListedCallIs
<1>4. UNCHANGED <<busy, env>> BY DEF HandleListedCall
<1>5. UNCHANGED <<modem, dialReq, up, clearing>> BY <1>4 DEF env
<1>6. queue' \in Queues BY Expand DEF ListsInv, Managers, Queues
<1>7. Longer(queue, queue') BY <1>3, GrownLonger
<1>8. Manager.calls[r.slot][r.idx] = c BY <1>1, Expand
<1>9. /\ \A t \in Slots : calls'[t][InitIndex] \in {calls[t][InitIndex], NoCall}
      /\ Ending(queue, queue')
  <2> HIDE DEF r, c
  <2>1. CASE Rings(r)
    <3>1. DoesRing(Manager, Manager', r, show) BY <1>3, <2>1
    <3> QED BY <3>1, Expand DEF DoesRing
  <2>2. CASE ~Rings(r)
    <3>1. Does(Manager, Manager', r) BY <1>3, <2>2
    <3>2. queue' = queue BY <3>1, Expand DEF Does, Plain
    <3>3. NoNewDial(Manager, Manager') BY <3>1 DEF Does, Recalls
    <3> QED BY <3>2, <3>3, Expand DEF NoNewDial, Ending
  <2> QED BY <2>1, <2>2
<1>10. queue # <<>> /\ Head(queue') = Head(queue) BY <1>2, <1>6, <1>7 DEF Longer, Queues
<1>11. ASSUME NEW t \in Slots, NEW j \in Indexes, FreshAt(t, j, 1), Done(t, j)', ~Done(t, j),
              Dial(t, 0), Dial(t, 0)'
       PROVE  FALSE
  <2>1. Here(t) /\ \A k \in DOMAIN work' : work'[k].idx # j BY <1>4, <1>10, <1>11 DEF Done, Here
  <2>2. j = i
    <3>1. \E k \in DOMAIN work : work[k].idx = j BY <1>11, <2>1 DEF Done
    <3> QED BY <1>1, <2>1, <3>1, WorkFacts
  <2>3. t = s BY <1>1, <1>2, <2>1 DEF Here, Told
  <2>4. Dials(h) /\ ~Live(details[s][i])
    <3>1. \A n \in DOMAIN View(queue, s, i) : 1 <= n BY <1>2, ViewIs
    <3> QED BY <1>2, <1>11, <2>2, <2>3, <3>1 DEF FreshAt, Fresh
  <2>5. There(h) /\ r.st = h.st /\ ~Rings(r) /\ r.st \in {"DIALING", "ALERTING"}
    <3>1. There(h) /\ h.st \in {"DIALING", "ALERTING"} BY <2>4 DEF Dials, There
    <3>2. r.st = h.st BY <1>1, <1>2, <3>1 DEF Told
    <3> QED BY <3>1, <3>2 DEF Rings, RingingStates
  <2>6. ~There(c)
    <3>1. There(c) => Live(c) BY <1>2 DEF There, Live, States
    <3> QED BY <1>2, <2>4, <3>1, LookFacts DEF Agrees
  <2>7. There(calls[s][InitIndex]) /\ There(calls'[s][InitIndex]) BY <1>11, <2>3 DEF Dial
  <2>8. Recalls(Manager, Manager', r, c, Manager'.calls[r.slot][r.idx])
    BY <1>3, <1>8, <2>5 DEF Does
  <2>9. There(Manager.calls[r.slot][InitIndex]) BY <1>1, <2>7, Expand
  <2>10. Numbers(Manager, Manager', r, Manager'.calls[r.slot][r.idx].num)
    BY <2>5, <2>6, <2>8, <2>9 DEF Recalls
  <2>11. PICK u \in Slots : There(calls[u][InitIndex]) /\ calls'[u][InitIndex] = NoCall
    BY <2>10, Expand DEF Numbers, InitSlots
  <2>12. u = s BY <1>2, <2>7, <2>11 DEF Dialled, Dial
  <2> QED BY <2>7, <2>11, <2>12, CallTypes
<1>12. ASSUME NEW t \in Slots, NEW p \in Nat, Dial(t, p)', Dial(t, p), Owed(t, p) PROVE Owed(t, p)'
  <2>1. ASSUME NEW j \in Indexes, queue # <<>>, 1 > p, FreshAt(t, j, 1), Done(t, j)' PROVE Done(t, j)
    <3>1. p = 0 BY <2>1
    <3> QED BY <1>11, <1>12, <2>1, <3>1
  <2>2. \A j \in Indexes : details'[t][j] = details[t][j] BY <1>3
  <2>3. dialReq[t] # 0 => Owed(t, p)' BY <1>5 DEF Owed
  <2>4. ~up => ~up' BY <1>5
  <2>5. p = 0 /\ <<t, InitIndex>> \in clearing => Owed(t, p)' BY <1>5 DEF Owed
  <2>6. \A j \in Indexes : queue # <<>> /\ 1 > p /\ FreshAt(t, j, 1) /\ Done(t, j)' => Done(t, j)
    BY <2>1
  <2> QED BY <1>2, <1>6, <1>7, <1>12, <2>2, <2>3, <2>4, <2>5, <2>6, OwedStill
<1>13. ASSUME NEW t \in Slots
       PROVE  SameCall(calls[t][InitIndex], calls'[t][InitIndex]) \/ ~There(calls'[t][InitIndex])
  BY <1>9, CallTypes DEF SameCall
<1>14. ASSUME NEW k \in 1..Len(queue'), k \notin 1..Len(queue)
       PROVE  /\ queue'[k].st # "DIALING"
              /\ \A t \in Slots, j \in Indexes : ~FreshAt(t, j, k)'
  <2>1. queue'[k].st = "DISCONNECTED" BY <1>9, <1>14 DEF Ending
  <2>2. queue'[k] \in SoundReports
    <3>1. Len(queue) \in Nat /\ k > Len(queue) BY <1>2, <1>14 DEF Queues
    <3> QED BY <1>3, <3>1 DEF Grown
  <2>3. ~IsList(queue'[k]) BY <2>2, QueueTypes
  <2>4. ASSUME NEW t \in Slots, NEW j \in Indexes PROVE k \notin DOMAIN View(queue', t, j)
    BY <1>6, <2>3, ViewIs
  <2> QED BY <2>1, <2>4 DEF FreshAt, Fresh
<1>15. \A k \in 1..Len(queue') : k \in 1..Len(queue) \/ IsList(queue'[k]) \/ queue'[k].st # "DIALING"
  BY <1>14
<1>16. \A t \in Slots, j \in Indexes, k \in 1..Len(queue') :
           k \notin 1..Len(queue) /\ FreshAt(t, j, k)' =>
               dialReq[t] # 0 /\ View(queue', t, j)[k].num = dialReq[t]
  BY <1>14
<1>17. \A t \in Slots : dialReq'[t] # 0 => dialReq'[t] = dialReq[t] BY <1>5
<1>18. details' = details BY <1>3
<1> QED BY <1>2, <1>6, <1>7, <1>12, <1>13, <1>15, <1>16, <1>17, <1>18, DialsGrow
-----------------------------------------------------------------------------
(* When all is quiet *)

\* At the start there is nothing to settle.
LEMMA SettledInit == ASSUME Init PROVE Settled
<1>1. /\ calls = [s \in Slots |-> [i \in 0..MaxIdx |-> NoCall]]
      /\ details = [s \in Slots |-> [i \in Indexes |-> NoCall]]
      /\ modem = [s \in Slots |-> [i \in Indexes |-> NoCall]]
      /\ queue = <<>> /\ screened = {} /\ up
  BY DEF Init
<1>2. ~There(NoCall) /\ ~Live(NoCall) BY DEF There, Live, NoCall
<1>3. ASSUME NEW s \in Slots, NEW i \in Indexes PROVE PlaceTrue(s, i)
  <2>1. details[s][i] = NoCall /\ modem[s][i] = NoCall BY <1>1
  <2>2. DOMAIN View(queue, s, i) = {} BY <1>1 DEF View
  <2> QED BY <1>2, <2>1, <2>2 DEF PlaceTrue, LastSays, NumFits, ChainNum
<1>4. \A s \in Slots : ~There(calls[s][InitIndex]) BY <1>1, <1>2, PlaceTypes
<1>5. \A s \in Slots, p \in Nat : ~Dial(s, p)
  <2>1. 1..Len(queue) = {} BY <1>1
  <2> QED BY <1>4, <2>1 DEF Dial
<1>6. Truth BY <1>1, <1>3 DEF Truth
<1>7. Dialled BY <1>4, <1>5 DEF Dialled
<1> QED BY <1>6, <1>7 DEF Settled

\* What every step keeps.
LEMMA SettledStep ==
    ASSUME ListsInv, Following, Settled, Races = {}, ClearReport = "list", [Next]_vars
    PROVE  Settled'
<1>1. ListsInv' BY ListsStep DEF Sound
<1>2. CASE UNCHANGED vars
  <2>1. UNCHANGED <<calls, queue, details, screened, work, busy, env>>
    BY <1>2 DEF vars, manager
  <2>2. Keeps(Manager, Manager') BY <2>1, Expand DEF Keeps, SameCall
  <2> QED BY <1>1, <2>1, <2>2, SettledStill
<1>3. CASE HandleCallsReportInfo BY <1>1, <1>3, SettledCallsReport
<1>4. CASE HandleListedCall BY <1>1, <1>4, TruthListed, DialsListed DEF Settled
<1>5. CASE FinishCallsReportInfo BY <1>5, TruthFinish, DialsFinish DEF Settled
<1>6. CASE HandleSingleReport BY <1>6, TruthSingle, DialsSingle DEF Settled
<1>7. CASE Detection BY <1>1, <1>7, SettledDetection
<1>8. ASSUME NEW s \in Slots, ModemMoves(s) PROVE Settled'
  BY <1>1, <1>8, TruthModem, DialsModem DEF Settled
<1>9. CASE Modem
  BY <1>1, <1>8, <1>9, SettledUserDials, SettledRefusesDial, AcceptsDialMoves, RingsMoves,
     ChangesMoves, HandsOverMoves DEF Modem
<1>10. CASE OnRemoveSystemAbility BY <1>1, <1>10, SettledRemove
<1>11. CASE OnAddSystemAbility BY <1>1, <1>11, SettledAdd
<1>12. CASE ClearAllCalls BY <1>12, TruthClear, DialsClear DEF Settled
<1> QED BY <1>2, <1>3, <1>4, <1>5, <1>6, <1>7, <1>9, <1>10, <1>11, <1>12 DEF Next, ReportQueue, Service

\* With nothing queued, the table shows callDetailsInfo_, and that shows the modem's calls.
LEMMA QuietTable ==
    ASSUME ListsInv, Following, Settled PROVE QuietTableMatches
<1> SUFFICES ASSUME Quiet, NEW s \in reported, NEW i \in Indexes
             PROVE  \/ /\ Look(calls[s][i]) = Look(modem[s][i])
                       /\ There(modem[s][i]) => calls[s][i].num = modem[s][i].num
                    \/ /\ ~There(calls[s][i])
                       /\ [place |-> <<s, i>>, num |-> modem[s][i].num] \in screened
  BY DEF QuietTableMatches
<1> DEFINE c == calls[s][i]
           d == modem[s][i]
           o == details[s][i]
           v == View(queue, s, i)
<1>1. s \in Slots /\ i \in 0..MaxIdx BY PlaceTypes DEF ListsInv, EnvOK
<1>2. c \in TableCalls /\ d \in ModemCalls /\ screened \subseteq [place: Places, num: Nums]
  <2>1. calls \in Tables /\ screened \subseteq [place: Places, num: Nums]
    BY Expand DEF ListsInv, Managers
  <2>2. d \in ModemCalls BY <1>1 DEF ListsInv, EnvOK
  <2> QED BY <1>1, <2>1, <2>2 DEF Tables
<1>3. DOMAIN v = {}
  <2>1. 1..Len(queue) = {} BY DEF Quiet
  <2> QED BY <2>1 DEF View
<1>4. PlaceTrue(s, i) BY <1>1 DEF Settled, Truth
<1>5. Look(o) = Look(d) BY <1>3, <1>4 DEF PlaceTrue, LastSays
<1>6. Live(d) => \A n \in Called(s, i) : n = d.num BY <1>3, <1>4 DEF PlaceTrue, ChainNum, Through
<1>7. Agrees(o, c, Hidden(s, i))
  <2>1. PlaceOK(s, i) BY <1>1 DEF Following
  <2>2. ~Done(s, i) BY DEF Quiet, Done, Here
  <2> QED BY <2>1, <2>2 DEF PlaceOK, Lastly
<1>8. There(d) => Live(d) BY <1>2 DEF ModemCalls, There, Live, NoCall, States
<1>9. There(c) => c.num \in Nums BY <1>2, CallTypes
<1>10. CASE Look(c) = Look(o)
  <2>1. ASSUME There(d) PROVE c.num = d.num
    <3>1. Live(d) /\ Live(c) BY <1>5, <1>8, <1>10, <2>1, LookFacts
    <3>2. There(c) BY <3>1, StepFacts
    <3>3. c.num \in Called(s, i) BY <1>9, <3>2 DEF Called
    <3> QED BY <1>6, <3>1, <3>3
  <2> QED BY <1>5, <1>10, <2>1
<1>11. CASE ~There(c) /\ Live(o) /\ Hidden(s, i)
  <2>1. Live(d) BY <1>5, <1>11, LookFacts
  <2>2. PICK x \in screened : x.place = <<s, i>> BY <1>11 DEF Hidden
  <2>3. x \in [place: Places, num: Nums] BY <1>2, <2>2
  <2>4. x = [place |-> <<s, i>>, num |-> x.num] /\ x.num \in Nums BY <2>2, <2>3
  <2>5. x.num \in Called(s, i) BY <2>2, <2>4 DEF Called
  <2>6. x.num = d.num BY <1>6, <2>1, <2>5
  <2> QED BY <1>11, <2>2, <2>4, <2>6
<1> QED BY <1>7, <1>10, <1>11 DEF Agrees

\* Nothing is on its way that would take a dial out of the table but the modem's answer.
LEMMA QuietDial == ASSUME Settled PROVE DialIsOwedAnAnswer
<1> SUFFICES ASSUME Quiet, NEW s \in Slots, There(calls[s][InitIndex]) PROVE dialReq[s] # 0
  BY DEF DialIsOwedAnAnswer
<1>1. Dial(s, 0) BY DEF Dial
<1>2. Owed(s, 0) BY <1>1 DEF Settled, Dialled, DialOK
<1>3. 1..Len(queue) = {} BY DEF Quiet
<1> QED BY <1>2, <1>3 DEF Owed, EndReported, Listed, Quiet

\* The lists tell the truth of the modem and every dial is owed something, in every state.
THEOREM SettledInvariant ==
    ASSUME Races = {}, ClearReport = "list" PROVE Spec => []Settled
<1>1. Init => Settled BY SettledInit
<1>2. ListsInv /\ Following /\ Settled /\ [Next]_vars => Settled' BY SettledStep
<1> QED BY <1>1, <1>2, ListsInvariant, ListsFit, PTL DEF Spec

\* Once every report is worked off, the table has exactly the calls the modem has, the
\* very same ones, in the same state and of the same type, but for refused ones: the
\* comparison of lists loses no call and keeps none, however many slots, calls, queued
\* lists, dials and restarts of cellular_call there were.
THEOREM TableSettles ==
    ASSUME Races = {}, ClearReport = "list" PROVE Spec => []QuietTableMatches
<1>1. ListsInv /\ Following /\ Settled => QuietTableMatches BY QuietTable
<1> QED BY <1>1, ListsInvariant, ListsFit, SettledInvariant, PTL

\* When all is quiet a dial is in the table under index 0 only while the modem owes an
\* answer to it: none is stranded, whatever took it out.
THEOREM DialsSettle ==
    ASSUME Races = {}, ClearReport = "list" PROVE Spec => []DialIsOwedAnAnswer
<1>1. Settled => DialIsOwedAnAnswer BY QuietDial
<1> QED BY <1>1, SettledInvariant, PTL
=============================================================================
