------------------------- MODULE ListReportsProofs --------------------------
(***************************************************************************)
(* What the queued lists tell of one call, and what one step of the report *)
(* queue does to the calls and to the queue.                               *)
(*                                                                         *)
(* The table follows a list only because the list fits what came before.   *)
(* Handlers of a call that is not in the table do nothing or take the dial *)
(* for it, RefreshOldCall leaves a known call's state alone, DialingHandle *)
(* too: the reports must come in an order of a call's life.  So the        *)
(* invariant of CallMirrorProofs follows each place, a slot and an index,  *)
(* through the queue: its View is what the queued lists say of it, in the  *)
(* order they will be handled, between callDetailsInfo_ in front and the   *)
(* modem behind.  The first part is what that invariant says of one place, *)
(* and that it survives what can happen to a view: an entry more at its    *)
(* end, a modem that moves on unheard, the first entry at work, and taken  *)
(* off.  The second part reduces the queue's operations to such changes of *)
(* the views and of CallMirror's inbox, and the handlers of reports to     *)
(* what they do to the one call they are about and to the dial.            *)
(***************************************************************************)
EXTENDS CallListsProofs


Rings(c) == c.st \in RingingStates

\* What the queued lists say of the call at index i of slot s.
View(q, s, i) ==
    [k \in {n \in 1..Len(q) : IsList(q[n]) /\ q[n].slot = s} |-> q[k].calls[i]]

\* The modem's call d is the entry behind all others; its position is 0.
At(v, d, k) == IF k = 0 THEN d ELSE v[k]
Positions(v) == DOMAIN v \cup {0}

\* The place has a call in every list from j up to k.
Through(v, j, k) == \A n \in DOMAIN v : j <= n /\ (k = 0 \/ n <= k) => Live(v[n])

\* The list that says c may follow the one that says o.
StepOK(o, c) ==
    Live(c) => /\ Rings(c) => ~Live(o) \/ Rings(o)
               /\ c.st = "DIALING" => ~Live(o) \/ o.st = "DIALING"
               /\ c.st = "ALERTING" => o.st \in {"DIALING", "ALERTING"}
               /\ c.st \in {"ACTIVE", "HOLDING", "DISCONNECTING"} => Live(o)

\* Successive lists fit; the first one fits callDetailsInfo_ (o), or is at work or
\* special (fa); the last one, or o, fits the modem's call.
PairOK(v) ==
    \A j, k \in DOMAIN v :
        j < k /\ (\A n \in DOMAIN v : n <= j \/ k <= n) => StepOK(v[j], v[k])
FirstOK(v, o, fa) ==
    \A k \in DOMAIN v : (\A n \in DOMAIN v : k <= n) => StepOK(o, v[k]) \/ (k = 1 /\ fa)
FinalOK(o, d, open) ==
    /\ Live(d) => Live(o) /\ StepOK(o, d)
    /\ open /\ Live(o) => Live(d)
LastOK(v, o, d, open) ==
    /\ DOMAIN v = {} => FinalOK(o, d, open)
    /\ \A k \in DOMAIN v : (\A n \in DOMAIN v : n <= k) => FinalOK(v[k], d, open)

\* A call listed throughout does not begin to ring, and stops ringing only if the
\* table has it: nobody answers a call that is not shown.
RingOK(v, c, d) ==
    \A j \in DOMAIN v, k \in Positions(v) :
        (k = 0 \/ j < k) /\ Through(v, j, k) /\ Live(At(v, d, k)) =>
            /\ Rings(At(v, d, k)) => Rings(v[j])
            /\ Rings(v[j]) /\ ~Rings(At(v, d, k)) => Rings(c) /\ Through(v, 1, k)

\* The modem's call is in every list since the first that has it, and in all of
\* them if the table shows it ringing.
NumOK(v, c, d) ==
    Live(d) => /\ Rings(c) /\ c.num = d.num => Through(v, 1, 0)
               /\ \A k \in DOMAIN v : Live(v[k]) /\ v[k].num = d.num => Through(v, k, 0)

\* All these calls are among the calls U the modem has had.
UsedOK(v, c, d, U) ==
    /\ Rings(c) => c.num \in U
    /\ \A k \in Positions(v) : Live(At(v, d, k)) => At(v, d, k).num \in U

\* A refused call is in no list but as a ringing one, and not in the table.
ScreenOK(v, o, c, d, scr, here) ==
    scr => /\ ~There(c)
           /\ Live(o) \/ (here /\ 1 \in DOMAIN v /\ Live(v[1]))
           /\ \A k \in Positions(v) :
                 Through(v, 1, k) /\ Live(At(v, d, k)) => Rings(At(v, d, k))

\* The table shows what was listed, unless the call is refused.
Agrees(h, c, scr) == Look(c) = Look(h) \/ (~There(c) /\ Live(h) /\ scr)

Ordered(v, o, d, c, open, fa) ==
    PairOK(v) /\ FirstOK(v, o, fa) /\ LastOK(v, o, d, open) /\ RingOK(v, c, d) /\ NumOK(v, c, d)
-----------------------------------------------------------------------------
(* One place *)

\* The order of a call's life is reflexive, and transitive while the call lives.
LEMMA StepFacts ==
    /\ \A c : Rings(c) => Live(c) /\ There(c)
    /\ \A c : Live(c) => There(c)
    /\ \A c : StepOK(c, c)
    /\ \A o, c, d : Live(o) /\ Live(c) /\ StepOK(o, c) /\ StepOK(c, d) => StepOK(o, d)
    /\ \A o, c : ~Live(c) => StepOK(o, c)
  BY DEF Rings, RingingStates, Live, There, StepOK

\* Views have a last entry.
LEMMA LastEntry ==
    ASSUME NEW n \in Nat, NEW S \in SUBSET (1..n), NEW j \in S
    PROVE  \E k \in S : j <= k /\ \A m \in S : m <= k
<1> DEFINE T == {n - k : k \in S}
<1>1. T \in SUBSET Nat /\ T # {}
  OBVIOUS
<1>2. PICK x \in T : \A y \in T : x <= y
  BY <1>1, LeastMember
<1>3. PICK k \in S : x = n - k
  OBVIOUS
<1>4. \A m \in S : n - m \in T
  OBVIOUS
<1>5. \A m \in S : m <= k
  <2> HIDE DEF T
  <2>1. \A m \in S : n - k <= n - m
    BY <1>2, <1>3, <1>4
  <2> QED BY <2>1
<1> QED BY <1>5

\* The modem's call moves on or ends, or, where open, a call comes.
Moves(c, d, e, open, U) ==
    Live(e) => \/ /\ Live(d) /\ StepOK(d, e) /\ e.num = d.num
                  /\ Rings(d) /\ ~Rings(e) => Rings(c) /\ c.num = d.num
               \/ ~Live(d) /\ open /\ e.num \notin U

\* w is v with one more entry, n, for the modem's call e.
Extends(v, w, n, e) ==
    /\ n \in Nat \ {0} /\ DOMAIN v \subseteq 1..(n - 1) /\ DOMAIN w = DOMAIN v \cup {n}
    /\ \A k \in DOMAIN v : w[k] = v[k]
    /\ Live(e) => w[n] = e
    /\ Live(w[n]) => Live(e)

\* A call that was listed to the last is still there: no other begins in its place.
LEMMA StillLive ==
    ASSUME NEW n \in Nat, NEW v, DOMAIN v \subseteq 1..n, NEW o, NEW d, NEW open, open,
           LastOK(v, o, d, open), NEW j \in DOMAIN v, Through(v, j, 0)
    PROVE  Live(d)
<1>1. PICK k \in DOMAIN v : j <= k /\ \A m \in DOMAIN v : m <= k
  BY LastEntry
<1>2. FinalOK(v[k], d, open) /\ Live(v[k])
  BY <1>1 DEF LastOK, Through
<1> QED BY <1>2 DEF FinalOK

\* Runs of a call through the lists, when one more list is queued.
LEMMA ExtendThrough ==
    ASSUME NEW v, NEW w, NEW n, NEW e, Extends(v, w, n, e)
    PROVE  /\ \A j \in Nat, k \in DOMAIN v : Through(w, j, k) <=> Through(v, j, k)
           /\ \A j \in Nat : Through(w, j, n) <=> Through(w, j, 0)
           /\ \A j \in Nat : Through(w, j, 0) => Through(v, j, 0)
           /\ \A j \in Nat : Live(e) /\ Through(v, j, 0) => Through(w, j, 0)
<1>1. \A k \in DOMAIN v : k \in Nat /\ k < n /\ k # 0 /\ k # n /\ k \in DOMAIN w
  BY DEF Extends
<1>2. n \in Nat /\ n # 0
  BY DEF Extends
<1>3. ASSUME NEW j \in Nat, NEW k \in DOMAIN v PROVE Through(w, j, k) <=> Through(v, j, k)
  BY <1>1, <1>2 DEF Through, Extends
<1>4. ASSUME NEW j \in Nat PROVE Through(w, j, n) <=> Through(w, j, 0)
  BY <1>1, <1>2 DEF Through, Extends
<1>5. ASSUME NEW j \in Nat PROVE Through(w, j, 0) => Through(v, j, 0)
  BY <1>1, <1>2 DEF Through, Extends
<1>6. ASSUME NEW j \in Nat, Live(e), Through(v, j, 0) PROVE Through(w, j, 0)
  BY <1>1, <1>2, <1>6 DEF Through, Extends
<1> QED BY <1>3, <1>4, <1>5, <1>6

\* One more list keeps RingOK,
LEMMA ExtendRing ==
    ASSUME NEW v, NEW w, NEW n, NEW o, NEW c, NEW d, NEW e, NEW open, NEW U,
           Extends(v, w, n, e), Moves(c, d, e, open, U), LastOK(v, o, d, open),
           RingOK(v, c, d), NumOK(v, c, d)
    PROVE  RingOK(w, c, e)
<1> SUFFICES ASSUME NEW j \in DOMAIN w, NEW k \in Positions(w), k = 0 \/ j < k,
                    Through(w, j, k), Live(At(w, e, k))
             PROVE  /\ Rings(At(w, e, k)) => Rings(w[j])
                    /\ Rings(w[j]) /\ ~Rings(At(w, e, k)) => Rings(c) /\ Through(w, 1, k)
  BY DEF RingOK
<1>1. /\ n \in Nat /\ n # 0 /\ j \in Nat /\ 1 \in Nat /\ DOMAIN v \subseteq 1..(n - 1)
      /\ \A m \in DOMAIN v : m \in Nat /\ m < n /\ m # 0 /\ w[m] = v[m]
      /\ DOMAIN w = DOMAIN v \cup {n}
  BY DEF Extends
<1>2. CASE k \in DOMAIN v
  <2>1. j \in DOMAIN v
    BY <1>1, <1>2
  <2>2. At(w, e, k) = At(v, d, k) /\ Through(v, j, k) /\ k \in Positions(v)
    BY <1>1, <1>2, ExtendThrough DEF At, Positions
  <2> QED BY <1>1, <1>2, <2>1, <2>2, ExtendThrough DEF RingOK
<1>3. CASE k \notin DOMAIN v
  <2>1. k \in {0, n} /\ At(w, e, k) = e /\ Live(e)
    BY <1>1, <1>3 DEF Positions, At, Extends
  <2>2. CASE j = n
    BY <1>1, <2>1, <2>2 DEF Extends
  <2>3. CASE j \in DOMAIN v
    <3>1. Through(v, j, 0)
      BY <1>1, <2>1, ExtendThrough
    <3>2. Live(d)
      BY <1>1, <2>1, <2>3, <3>1, StillLive DEF Moves
    <3>3. /\ StepOK(d, e) /\ e.num = d.num
          /\ Rings(d) /\ ~Rings(e) => Rings(c) /\ c.num = d.num
      BY <2>1, <3>2 DEF Moves
    <3>4. /\ Rings(d) => Rings(v[j])
          /\ Rings(v[j]) /\ ~Rings(d) => Rings(c) /\ Through(v, 1, 0)
      <4>1. 0 \in Positions(v) /\ At(v, d, 0) = d
        BY DEF Positions, At
      <4> QED BY <2>3, <3>1, <3>2, <4>1 DEF RingOK
    <3>5. Rings(e) => Rings(d)
      BY <2>1, <3>2, <3>3 DEF StepOK
    <3>6. Rings(v[j]) /\ ~Rings(e) => Rings(c) /\ Through(v, 1, 0)
      BY <3>2, <3>3, <3>4 DEF NumOK
    <3>7. Through(v, 1, 0) => Through(w, 1, k)
      BY <1>1, <2>1, ExtendThrough
    <3> QED BY <1>1, <2>1, <2>3, <3>4, <3>5, <3>6, <3>7
  <2> QED BY <1>1, <2>2, <2>3
<1> QED BY <1>2, <1>3

\* and NumOK,
LEMMA ExtendNum ==
    ASSUME NEW v, NEW w, NEW n, NEW c, NEW d, NEW e, NEW open, NEW U,
           Extends(v, w, n, e), Moves(c, d, e, open, U), NumOK(v, c, d), UsedOK(v, c, d, U)
    PROVE  NumOK(w, c, e)
<1> SUFFICES ASSUME Live(e)
             PROVE  /\ Rings(c) /\ c.num = e.num => Through(w, 1, 0)
                    /\ \A k \in DOMAIN w : Live(w[k]) /\ w[k].num = e.num => Through(w, k, 0)
  BY DEF NumOK
<1>1. /\ n \in Nat /\ n # 0 /\ 1 \in Nat
      /\ \A m \in DOMAIN v : m \in Nat /\ m < n /\ m # 0 /\ w[m] = v[m]
      /\ DOMAIN w = DOMAIN v \cup {n}
  BY DEF Extends
<1>2. Through(w, n, 0)
  BY <1>1 DEF Through, Extends
<1>3. CASE Live(d)
  <2>1. e.num = d.num
    BY <1>3 DEF Moves
  <2>2. Rings(c) /\ c.num = e.num => Through(w, 1, 0)
    BY <1>1, <1>3, <2>1, ExtendThrough DEF NumOK
  <2>3. ASSUME NEW k \in DOMAIN v, Live(w[k]), w[k].num = e.num PROVE Through(w, k, 0)
    BY <1>1, <1>3, <2>1, <2>3, ExtendThrough DEF NumOK
  <2> QED BY <1>1, <1>2, <2>2, <2>3
<1>4. CASE ~Live(d)
  <2>1. e.num \notin U
    BY <1>4 DEF Moves
  <2>2. ASSUME NEW k \in DOMAIN v, Live(w[k]) PROVE w[k].num # e.num
    <3>1. k \in Positions(v) /\ At(v, d, k) = w[k]
      BY <1>1 DEF Positions, At
    <3> QED BY <2>1, <2>2, <3>1 DEF UsedOK
  <2> QED BY <1>1, <1>2, <2>1, <2>2 DEF UsedOK
<1> QED BY <1>3, <1>4

\* and the whole order,
LEMMA ExtendOrdered ==
    ASSUME NEW v, NEW w, NEW n, NEW o, NEW c, NEW d, NEW e, NEW open, NEW more, NEW fa, NEW fb, NEW U,
           Extends(v, w, n, e), Moves(c, d, e, open, U),
           ~Live(d) => StepOK(NoCall, e) \/ (n = 1 /\ fb), fa => fb,
           Ordered(v, o, d, c, open, fa), UsedOK(v, c, d, U)
    PROVE  Ordered(w, o, e, c, more, fb)
<1>1. /\ n \in Nat /\ n # 0
      /\ \A m \in DOMAIN v : m \in Nat /\ m < n /\ m # 0 /\ m # n /\ w[m] = v[m]
      /\ DOMAIN w = DOMAIN v \cup {n}
  BY DEF Extends
<1>2. \A x : FinalOK(x, d, open) => StepOK(x, w[n]) \/ (n = 1 /\ fb)
  <2> SUFFICES ASSUME NEW x, FinalOK(x, d, open), Live(e) PROVE StepOK(x, e) \/ (n = 1 /\ fb)
    BY StepFacts DEF Extends
  <2>1. CASE Live(d)
    BY <2>1, StepFacts DEF FinalOK, Moves
  <2>2. CASE ~Live(d)
    <3>1. ~Live(x)
      BY <2>2 DEF FinalOK, Moves
    <3>2. ~Live(x) /\ StepOK(NoCall, e) => StepOK(x, e)
      BY DEF StepOK, NoCall, Live, Rings, RingingStates
    <3> QED BY <2>2, <3>1, <3>2
  <2> QED BY <2>1, <2>2
<1>3. PairOK(w)
  <2> SUFFICES ASSUME NEW j \in DOMAIN w, NEW k \in DOMAIN w, j < k,
                      \A m \in DOMAIN w : m <= j \/ k <= m
               PROVE  StepOK(w[j], w[k])
    BY DEF PairOK
  <2>1. j \in DOMAIN v
    BY <1>1
  <2>2. CASE k \in DOMAIN v
    BY <1>1, <2>1, <2>2 DEF PairOK, Ordered
  <2>3. CASE k = n
    <3>1. \A m \in DOMAIN v : m <= j
      BY <1>1, <2>1, <2>3
    <3>2. FinalOK(v[j], d, open) /\ n # 1
      BY <1>1, <2>1, <3>1 DEF LastOK, Ordered
    <3> QED BY <1>1, <1>2, <2>1, <2>3, <3>2
  <2> QED BY <1>1, <2>2, <2>3
<1>4. FirstOK(w, o, fb)
  <2> SUFFICES ASSUME NEW k \in DOMAIN w, \A m \in DOMAIN w : k <= m
               PROVE  StepOK(o, w[k]) \/ (k = 1 /\ fb)
    BY DEF FirstOK
  <2>1. CASE k \in DOMAIN v
    <3>1. (\A m \in DOMAIN v : k <= m) /\ w[k] = v[k]
      BY <1>1, <2>1
    <3>2. StepOK(o, w[k]) \/ (k = 1 /\ fa)
      BY <2>1, <3>1 DEF FirstOK, Ordered
    <3>3. CASE StepOK(o, w[k])
      BY <3>3
    <3>4. CASE k = 1 /\ fa
      BY <3>4, Zenon
    <3> QED BY <3>2, <3>3, <3>4
  <2>2. CASE k = n
    <3>1. DOMAIN v = {}
      <4> SUFFICES ASSUME NEW m \in DOMAIN v PROVE FALSE
        OBVIOUS
      <4>1. m \in DOMAIN w /\ m \in Nat /\ m < n /\ n \in Nat
        BY <1>1
      <4>2. n <= m
        BY <2>2, <4>1
      <4> QED BY <4>1, <4>2
    <3>2. FinalOK(o, d, open)
      BY <3>1 DEF LastOK, Ordered
    <3> QED BY <1>2, <2>2, <3>2
  <2> QED BY <1>1, <2>1, <2>2
<1>5. LastOK(w, o, e, more)
  <2>1. DOMAIN w # {}
    BY <1>1
  <2>2. ASSUME NEW k \in DOMAIN w, \A m \in DOMAIN w : m <= k PROVE k = n
    BY <1>1, <2>2
  <2>3. FinalOK(w[n], e, more)
    BY StepFacts DEF FinalOK, Extends
  <2> QED BY <2>1, <2>2, <2>3 DEF LastOK
<1>6. RingOK(w, c, e) /\ NumOK(w, c, e)
  BY ExtendRing, ExtendNum DEF Ordered
<1> QED BY <1>3, <1>4, <1>5, <1>6 DEF Ordered

\* and the calls in use,
LEMMA ExtendUsed ==
    ASSUME NEW v, NEW w, NEW n, NEW c, NEW d, NEW e, NEW U, NEW X,
           Extends(v, w, n, e), UsedOK(v, c, d, U), U \subseteq X, Live(e) => e.num \in X
    PROVE  UsedOK(w, c, e, X)
<1>1. /\ \A m \in DOMAIN v : m # 0 /\ w[m] = v[m]
      /\ DOMAIN w = DOMAIN v \cup {n} /\ n # 0
  BY DEF Extends
<1>2. ASSUME NEW k \in Positions(w), Live(At(w, e, k)) PROVE At(w, e, k).num \in X
  <2>1. CASE k \in DOMAIN v
    BY <1>1, <1>2, <2>1 DEF UsedOK, Positions, At
  <2>2. CASE k \notin DOMAIN v
    BY <1>1, <1>2, <2>2 DEF Extends, Positions, At
  <2> QED BY <2>1, <2>2
<1> QED BY <1>2 DEF UsedOK

\* and what is said of a refused call.
LEMMA ExtendScreen ==
    ASSUME NEW v, NEW w, NEW n, NEW o, NEW c, NEW d, NEW e, NEW open, NEW U, NEW scr, NEW here,
           Extends(v, w, n, e), Moves(c, d, e, open, U), LastOK(v, o, d, open),
           ScreenOK(v, o, c, d, scr, here)
    PROVE  ScreenOK(w, o, c, e, scr, here)
<1> SUFFICES ASSUME scr
             PROVE  /\ ~There(c)
                    /\ Live(o) \/ (here /\ 1 \in DOMAIN w /\ Live(w[1]))
                    /\ \A k \in Positions(w) :
                          Through(w, 1, k) /\ Live(At(w, e, k)) => Rings(At(w, e, k))
  BY DEF ScreenOK
<1>1. /\ n \in Nat /\ n # 0 /\ 1 \in Nat /\ DOMAIN v \subseteq 1..(n - 1) /\ n - 1 \in Nat
      /\ \A m \in DOMAIN v : m \in Nat /\ 1 <= m /\ m < n /\ m # 0 /\ w[m] = v[m]
      /\ DOMAIN w = DOMAIN v \cup {n}
  BY DEF Extends
<1>2. /\ ~There(c)
      /\ Live(o) \/ (here /\ 1 \in DOMAIN v /\ Live(v[1]))
      /\ \A k \in Positions(v) : Through(v, 1, k) /\ Live(At(v, d, k)) => Rings(At(v, d, k))
  BY DEF ScreenOK
<1>3. ASSUME NEW k \in Positions(w), Through(w, 1, k), Live(At(w, e, k)) PROVE Rings(At(w, e, k))
  <2>1. CASE k \in DOMAIN v
    <3>1. Through(v, 1, k)
      BY <1>1, <1>3, <2>1, ExtendThrough
    <3>2. k \in Positions(v) /\ At(w, e, k) = At(v, d, k)
      BY <1>1, <2>1 DEF Positions, At
    <3>3. Through(v, 1, k) /\ Live(At(v, d, k)) => Rings(At(v, d, k))
      BY <1>2, <3>2, Zenon
    <3> QED BY <1>3, <3>1, <3>2, <3>3
  <2>2. CASE k \notin DOMAIN v
    <3>1. Live(e) /\ At(w, e, k) = e /\ Through(v, 1, 0)
      <4>1. k = 0 \/ k = n
        BY <1>1, <2>2 DEF Positions
      <4>2. At(w, e, k) = e /\ Live(e)
        BY <1>1, <1>3, <4>1 DEF At, Extends
      <4>3. Through(w, 1, 0)
        BY <1>1, <1>3, <4>1, ExtendThrough
      <4> QED BY <1>1, <4>2, <4>3, ExtendThrough
    <3>2. Live(d)
      <4>1. CASE DOMAIN v = {}
        BY <1>2, <3>1, <4>1 DEF LastOK, FinalOK, Moves
      <4>2. CASE DOMAIN v # {}
        <5>1. PICK j \in DOMAIN v : TRUE
          BY <4>2
        <5>2. Through(v, j, 0)
          BY <1>1, <3>1 DEF Through
        <5> QED BY <1>1, <3>1, <5>1, <5>2, StillLive DEF Moves
      <4> QED BY <4>1, <4>2
    <3>3. Rings(d)
      BY <1>2, <3>1, <3>2 DEF Positions, At
    <3> QED BY <1>2, <3>1, <3>2, <3>3, StepFacts DEF Moves
  <2> QED BY <2>1, <2>2
<1> QED BY <1>1, <1>2, <1>3

\* The modem moves on and nobody is told.
LEMMA SilentMove ==
    ASSUME NEW v, NEW n \in Nat, DOMAIN v \subseteq 1..n,
           NEW o, NEW c, NEW d, NEW e, NEW fa, NEW U, NEW scr, NEW here, NEW X,
           Moves(c, d, e, FALSE, U), Ordered(v, o, d, c, FALSE, fa),
           UsedOK(v, c, d, U), ScreenOK(v, o, c, d, scr, here), U \subseteq X
    PROVE  /\ Ordered(v, o, e, c, FALSE, fa) /\ UsedOK(v, c, e, X)
           /\ ScreenOK(v, o, c, e, scr, here)
<1>1. Live(e) => /\ Live(d) /\ StepOK(d, e) /\ e.num = d.num
                 /\ Rings(d) /\ ~Rings(e) => Rings(c) /\ c.num = d.num
                 /\ Rings(e) => Rings(d)
  BY DEF Moves, StepOK
<1>2. At(v, d, 0) = d /\ At(v, e, 0) = e /\ 0 \in Positions(v) /\ 0 \notin DOMAIN v
      /\ \A k \in DOMAIN v : At(v, d, k) = v[k] /\ At(v, e, k) = v[k] /\ k \in Positions(v)
  BY DEF At, Positions
<1>3. LastOK(v, o, e, FALSE)
  <2>1. \A x : FinalOK(x, d, FALSE) => FinalOK(x, e, FALSE)
    BY <1>1, StepFacts DEF FinalOK
  <2> QED BY <2>1 DEF LastOK, Ordered
<1>4. NumOK(v, c, e)
  BY <1>1 DEF NumOK, Ordered
<1>5. RingOK(v, c, e)
  <2> SUFFICES ASSUME NEW j \in DOMAIN v, NEW k \in Positions(v), k = 0 \/ j < k,
                      Through(v, j, k), Live(At(v, e, k))
               PROVE  /\ Rings(At(v, e, k)) => Rings(v[j])
                      /\ Rings(v[j]) /\ ~Rings(At(v, e, k)) => Rings(c) /\ Through(v, 1, k)
    BY DEF RingOK
  <2>1. CASE k \in DOMAIN v
    BY <1>2, <2>1 DEF RingOK, Ordered
  <2>2. CASE k = 0
    <3>1. Live(d) /\ Live(e)
      BY <1>1, <1>2, <2>2
    <3>2. /\ Rings(d) => Rings(v[j])
          /\ Rings(v[j]) /\ ~Rings(d) => Rings(c) /\ Through(v, 1, 0)
      BY <1>2, <2>2, <3>1 DEF RingOK, Ordered
    <3>3. Rings(c) /\ c.num = d.num => Through(v, 1, 0)
      BY <3>1 DEF NumOK, Ordered
    <3> QED BY <1>1, <1>2, <2>2, <3>1, <3>2, <3>3
  <2> QED BY <2>1, <2>2 DEF Positions
<1>6. UsedOK(v, c, e, X)
  <2>1. Rings(c) => c.num \in X
    BY DEF UsedOK
  <2>2. ASSUME NEW k \in Positions(v), Live(At(v, e, k)) PROVE At(v, e, k).num \in X
    <3>1. CASE k \in DOMAIN v
      BY <1>2, <2>2, <3>1 DEF UsedOK
    <3>2. CASE k = 0
      BY <1>1, <1>2, <2>2, <3>2 DEF UsedOK
    <3> QED BY <3>1, <3>2 DEF Positions
  <2> QED BY <2>1, <2>2 DEF UsedOK
<1>7. ScreenOK(v, o, c, e, scr, here)
  <2> SUFFICES ASSUME scr, NEW k \in Positions(v), Through(v, 1, k), Live(At(v, e, k))
               PROVE  Rings(At(v, e, k))
    BY DEF ScreenOK
  <2>1. ~There(c) /\ (Through(v, 1, k) /\ Live(At(v, d, k)) => Rings(At(v, d, k)))
    BY DEF ScreenOK
  <2>2. CASE k \in DOMAIN v
    BY <1>2, <2>1, <2>2
  <2>3. CASE k = 0
    BY <1>1, <1>2, <2>1, <2>3, StepFacts
  <2> QED BY <2>2, <2>3 DEF Positions
<1> QED BY <1>3, <1>4, <1>5, <1>6, <1>7 DEF Ordered
-----------------------------------------------------------------------------
(* The queue's head goes *)

\* w is v without its first position.
Shifts(v, w) == /\ DOMAIN v \subseteq Nat \ {0}
                /\ \A k : k \in DOMAIN w <=> k \in Nat \ {0} /\ k + 1 \in DOMAIN v
                /\ \A k \in DOMAIN w : w[k] = v[k + 1]

\* The view's first entry, if it was the head, is remembered as r, else r is o.
Remembers(v, o, r) ==
    IF 1 \in DOMAIN v THEN (Live(r) <=> Live(v[1])) /\ (Live(r) => r.st = v[1].st)
    ELSE r = o

\* Runs of a call, when the first list is taken off.
LEMMA ShiftThrough ==
    ASSUME NEW v, NEW w, Shifts(v, w)
    PROVE  /\ \A j \in Nat \ {0}, k \in Nat \ {0} : Through(w, j, k) <=> Through(v, j + 1, k + 1)
           /\ \A j \in Nat \ {0} : Through(w, j, 0) <=> Through(v, j + 1, 0)
           /\ \A k \in Nat \ {0} : Through(v, 1, k + 1) <=>
                  Through(w, 1, k) /\ (1 \in DOMAIN v => Live(v[1]))
           /\ Through(v, 1, 0) <=> Through(w, 1, 0) /\ (1 \in DOMAIN v => Live(v[1]))
<1>1. \A m \in DOMAIN w : m \in Nat \ {0} /\ m + 1 \in DOMAIN v /\ w[m] = v[m + 1]
  BY DEF Shifts
<1>2. \A m \in DOMAIN v : m = 1 \/ (m - 1 \in DOMAIN w /\ w[m - 1] = v[m])
  <2> SUFFICES ASSUME NEW m \in DOMAIN v, m # 1
               PROVE  m - 1 \in DOMAIN w /\ w[m - 1] = v[m]
    OBVIOUS
  <2>1. m - 1 \in Nat \ {0} /\ (m - 1) + 1 = m
    BY DEF Shifts
  <2> QED BY <2>1 DEF Shifts
<1>3. \A m \in DOMAIN v : m \in Nat \ {0}
  BY DEF Shifts
<1>4. ASSUME NEW j \in Nat \ {0}, NEW k \in Nat \ {0}
      PROVE  Through(w, j, k) <=> Through(v, j + 1, k + 1)
  <2>1. ASSUME Through(w, j, k), NEW n \in DOMAIN v, j + 1 <= n, n <= k + 1 PROVE Live(v[n])
    BY <1>2, <1>3, <2>1 DEF Through
  <2>2. ASSUME Through(v, j + 1, k + 1), NEW n \in DOMAIN w, j <= n, n <= k PROVE Live(w[n])
    BY <1>1, <2>2 DEF Through
  <2> QED BY <2>1, <2>2 DEF Through
<1>5. ASSUME NEW j \in Nat \ {0} PROVE Through(w, j, 0) <=> Through(v, j + 1, 0)
  <2>1. ASSUME Through(w, j, 0), NEW n \in DOMAIN v, j + 1 <= n PROVE Live(v[n])
    BY <1>2, <1>3, <2>1 DEF Through
  <2>2. ASSUME Through(v, j + 1, 0), NEW n \in DOMAIN w, j <= n PROVE Live(w[n])
    BY <1>1, <2>2 DEF Through
  <2> QED BY <2>1, <2>2 DEF Through
<1>6. ASSUME NEW k \in Nat \ {0}
      PROVE  Through(v, 1, k + 1) <=> Through(v, 2, k + 1) /\ (1 \in DOMAIN v => Live(v[1]))
  BY <1>3 DEF Through
<1>7. Through(v, 1, 0) <=> Through(v, 2, 0) /\ (1 \in DOMAIN v => Live(v[1]))
  BY <1>3 DEF Through
<1>8. 1 + 1 = 2 /\ 1 \in Nat \ {0}
  OBVIOUS
<1>9. \A k \in Nat \ {0} : Through(w, 1, k) <=> Through(v, 2, k + 1)
  BY <1>4, <1>8
<1>10. Through(w, 1, 0) <=> Through(v, 2, 0)
  BY <1>5, <1>8
<1> QED BY <1>4, <1>5, <1>6, <1>7, <1>9, <1>10

\* Positions of w are those of v one further, but for the modem's.
Onward(k) == IF k = 0 THEN 0 ELSE k + 1

\* Positions, when the first list is taken off.
LEMMA ShiftAt ==
    ASSUME NEW v, NEW w, Shifts(v, w), NEW d, NEW k \in Positions(w)
    PROVE  /\ k \in Nat /\ Onward(k) \in Positions(v) /\ At(w, d, k) = At(v, d, Onward(k))
           /\ \A j \in Nat \ {0} : Through(w, j, k) <=> Through(v, j + 1, Onward(k))
           /\ Through(v, 1, Onward(k)) <=> Through(w, 1, k) /\ (1 \in DOMAIN v => Live(v[1]))
<1>1. CASE k = 0
  BY <1>1, ShiftThrough DEF Onward, Positions, At
<1>2. CASE k # 0
  <2>1. k \in DOMAIN w /\ k \in Nat \ {0} /\ k + 1 \in DOMAIN v /\ w[k] = v[k + 1] /\ k + 1 # 0
    BY <1>2 DEF Positions, Shifts
  <2> QED BY <2>1, ShiftThrough DEF Onward, Positions, At
<1> QED BY <1>1, <1>2

\* The order is kept when the first list is remembered and taken off,
LEMMA ShiftOrdered ==
    ASSUME NEW v, NEW w, NEW o, NEW r, NEW c, NEW d, NEW open, NEW fa, NEW fb,
           Shifts(v, w), Remembers(v, o, r), Ordered(v, o, d, c, open, fa)
    PROVE  Ordered(w, r, d, c, open, fb)
<1>1. /\ \A k \in DOMAIN w : /\ k \in Nat \ {0} /\ k + 1 \in DOMAIN v /\ w[k] = v[k + 1]
                             /\ k + 1 # 1
      /\ \A m \in DOMAIN v : m \in Nat \ {0} /\ (m = 1 \/ m - 1 \in DOMAIN w)
  <2>1. \A m \in DOMAIN v : m \in Nat \ {0}
    BY DEF Shifts
  <2>2. ASSUME NEW m \in DOMAIN v, m # 1 PROVE m - 1 \in DOMAIN w
    <3>1. m - 1 \in Nat \ {0} /\ (m - 1) + 1 = m
      BY <2>1, <2>2
    <3> QED BY <3>1 DEF Shifts
  <2>3. \A k \in DOMAIN w : /\ k \in Nat \ {0} /\ k + 1 \in DOMAIN v /\ w[k] = v[k + 1]
    BY DEF Shifts
  <2> QED BY <2>1, <2>2, <2>3
<1>2. 1 \in DOMAIN v => /\ \A x : StepOK(v[1], x) => StepOK(r, x)
                        /\ FinalOK(v[1], d, open) => FinalOK(r, d, open)
  BY DEF Remembers, StepOK, FinalOK, Live, Rings, RingingStates
<1>3. PairOK(w)
  <2> SUFFICES ASSUME NEW j \in DOMAIN w, NEW k \in DOMAIN w, j < k,
                      \A n \in DOMAIN w : n <= j \/ k <= n
               PROVE  StepOK(w[j], w[k])
    BY DEF PairOK
  <2>1. j + 1 < k + 1 /\ \A m \in DOMAIN v : m <= j + 1 \/ k + 1 <= m
    BY <1>1
  <2> QED BY <1>1, <2>1 DEF PairOK, Ordered
<1>4. FirstOK(w, r, fb)
  <2> SUFFICES ASSUME NEW k \in DOMAIN w, \A n \in DOMAIN w : k <= n
               PROVE  StepOK(r, w[k])
    BY DEF FirstOK
  <2>1. CASE 1 \in DOMAIN v
    <3>1. 1 < k + 1 /\ \A m \in DOMAIN v : m <= 1 \/ k + 1 <= m
      BY <1>1
    <3>2. StepOK(v[1], v[k + 1])
      BY <1>1, <2>1, <3>1 DEF PairOK, Ordered
    <3> QED BY <1>1, <1>2, <2>1, <3>2
  <2>2. CASE 1 \notin DOMAIN v
    <3>1. \A m \in DOMAIN v : k + 1 <= m
      BY <1>1, <2>2
    <3>2. StepOK(o, v[k + 1])
      BY <1>1, <3>1 DEF FirstOK, Ordered
    <3> QED BY <1>1, <2>2, <3>2 DEF Remembers
  <2> QED BY <2>1, <2>2
<1>5. LastOK(w, r, d, open)
  <2>1. ASSUME DOMAIN w = {} PROVE FinalOK(r, d, open)
    <3>1. CASE 1 \in DOMAIN v
      <4>1. \A m \in DOMAIN v : m <= 1
        BY <1>1, <2>1
      <4> QED BY <1>2, <3>1, <4>1 DEF LastOK, Ordered
    <3>2. CASE 1 \notin DOMAIN v
      <4>1. DOMAIN v = {}
        BY <1>1, <2>1, <3>2
      <4> QED BY <3>2, <4>1 DEF LastOK, Ordered, Remembers
    <3> QED BY <3>1, <3>2
  <2>2. ASSUME NEW k \in DOMAIN w, \A n \in DOMAIN w : n <= k PROVE FinalOK(w[k], d, open)
    <3>1. \A m \in DOMAIN v : m <= k + 1
      BY <1>1, <2>2
    <3> QED BY <1>1, <2>2, <3>1 DEF LastOK, Ordered
  <2> QED BY <2>1, <2>2 DEF LastOK
<1>6. RingOK(w, c, d)
  <2> SUFFICES ASSUME NEW j \in DOMAIN w, NEW k \in Positions(w), k = 0 \/ j < k,
                      Through(w, j, k), Live(At(w, d, k))
               PROVE  /\ Rings(At(w, d, k)) => Rings(w[j])
                      /\ Rings(w[j]) /\ ~Rings(At(w, d, k)) => Rings(c) /\ Through(w, 1, k)
    BY DEF RingOK
  <2>1. /\ Onward(k) \in Positions(v) /\ At(w, d, k) = At(v, d, Onward(k))
        /\ Through(v, j + 1, Onward(k)) /\ (Through(v, 1, Onward(k)) => Through(w, 1, k))
    BY <1>1, ShiftAt
  <2>2. Onward(k) = 0 \/ j + 1 < Onward(k)
    BY <1>1, ShiftAt DEF Onward
  <2> QED BY <1>1, <2>1, <2>2 DEF RingOK, Ordered
<1>7. NumOK(w, c, d)
  <2> SUFFICES ASSUME Live(d)
               PROVE  /\ Rings(c) /\ c.num = d.num => Through(w, 1, 0)
                      /\ \A k \in DOMAIN w : Live(w[k]) /\ w[k].num = d.num => Through(w, k, 0)
    BY DEF NumOK
  <2>1. Rings(c) /\ c.num = d.num => Through(w, 1, 0)
    BY ShiftThrough DEF NumOK, Ordered
  <2>2. ASSUME NEW k \in DOMAIN w, Live(w[k]), w[k].num = d.num PROVE Through(w, k, 0)
    <3>1. Through(v, k + 1, 0)
      BY <1>1, <2>2 DEF NumOK, Ordered
    <3> QED BY <1>1, <3>1, ShiftThrough
  <2> QED BY <2>1, <2>2
<1> QED BY <1>3, <1>4, <1>5, <1>6, <1>7 DEF Ordered

\* and the calls in use,
LEMMA ShiftUsed ==
    ASSUME NEW v, NEW w, NEW c, NEW d, NEW U, Shifts(v, w), UsedOK(v, c, d, U)
    PROVE  UsedOK(w, c, d, U)
  BY ShiftAt DEF UsedOK

\* and what is said of a refused call.
LEMMA ShiftScreen ==
    ASSUME NEW v, NEW w, NEW o, NEW r, NEW c, NEW d, NEW scr, NEW scn, NEW here,
           Shifts(v, w), Remembers(v, o, r), ScreenOK(v, o, c, d, scr, here),
           scn => scr /\ (1 \in DOMAIN v => Live(v[1]))
    PROVE  ScreenOK(w, r, c, d, scn, FALSE)
<1> SUFFICES ASSUME scn
             PROVE  /\ ~There(c) /\ Live(r)
                    /\ \A k \in Positions(w) :
                          Through(w, 1, k) /\ Live(At(w, d, k)) => Rings(At(w, d, k))
  BY DEF ScreenOK
<1>1. /\ ~There(c) /\ (1 \in DOMAIN v => Live(v[1]))
      /\ Live(o) \/ (1 \in DOMAIN v /\ Live(v[1]))
      /\ \A k \in Positions(v) : Through(v, 1, k) /\ Live(At(v, d, k)) => Rings(At(v, d, k))
  BY DEF ScreenOK
<1>2. Live(r)
  BY <1>1 DEF Remembers
<1> QED BY <1>1, <1>2, ShiftAt
-----------------------------------------------------------------------------
(* The head is handled *)

\* What the report of entry h does to call c, which becomes e.
RingKept(h, c, e) ==
    /\ Rings(e) => (Rings(c) /\ e.num = c.num) \/ (Rings(h) /\ e.num = h.num)
    /\ Rings(c) /\ Rings(h) => Rings(e)

\* The order is kept when the table takes over the first list's call.
LEMMA HandleOrdered ==
    ASSUME NEW v, NEW o, NEW d, NEW c, NEW e, NEW open, NEW fa, NEW U,
           DOMAIN v \subseteq Nat \ {0}, 1 \in DOMAIN v,
           Ordered(v, o, d, c, open, fa), UsedOK(v, c, d, U), RingKept(v[1], c, e)
    PROVE  Ordered(v, o, d, e, open, TRUE) /\ UsedOK(v, e, d, U)
<1>1. Rings(v[1]) => v[1].num \in U /\ Live(v[1])
  <2>1. 1 \in Positions(v) /\ At(v, d, 1) = v[1]
    BY DEF Positions, At
  <2> QED BY <2>1, StepFacts DEF UsedOK
<1>2. UsedOK(v, e, d, U)
  BY <1>1 DEF UsedOK, RingKept
<1>3. FirstOK(v, o, TRUE)
  BY DEF FirstOK, Ordered
<1>4. NumOK(v, e, d)
  BY <1>1 DEF NumOK, Ordered, RingKept
<1>5. RingOK(v, e, d)
  <2> SUFFICES ASSUME NEW j \in DOMAIN v, NEW k \in Positions(v), k = 0 \/ j < k,
                      Through(v, j, k), Live(At(v, d, k)), Rings(v[j]), ~Rings(At(v, d, k))
               PROVE  Rings(e) /\ Through(v, 1, k)
    BY DEF RingOK, Ordered
  <2>1. Rings(c) /\ Through(v, 1, k)
    BY DEF RingOK, Ordered
  <2>2. Rings(v[1])
    <3>1. CASE j = 1
      BY <3>1
    <3>2. CASE j # 1
      <4>1. j \in Nat /\ 1 < j /\ j # 0 /\ j \in Positions(v) /\ At(v, d, j) = v[j] /\ k \in Nat
        BY <3>2 DEF Positions, At
      <4>2. Through(v, 1, j)
        BY <2>1, <4>1 DEF Through
      <4> QED BY <4>1, <4>2, StepFacts DEF RingOK, Ordered
    <3> QED BY <3>1, <3>2
  <2> QED BY <2>1, <2>2 DEF RingKept
<1> QED BY <1>2, <1>3, <1>4, <1>5 DEF Ordered
-----------------------------------------------------------------------------
(* What is said of a place as a whole *)

Fits(v, o, d, c, open, fa, U, scr, here) ==
    /\ Ordered(v, o, d, c, open, fa)
    /\ UsedOK(v, c, d, U)
    /\ ScreenOK(v, o, c, d, scr, here)

\* A call is the same but for fraud detection.
SameCall(c, e) == e.st = c.st /\ (There(c) => e.type = c.type /\ e.num = c.num)

\* Nothing happens at the place: less is promised of it, or more is known.
LEMMA FitsStill ==
    ASSUME NEW v, NEW o, NEW d, NEW c, NEW e, NEW open, NEW more, NEW fa, NEW fb, NEW U, NEW X,
           NEW scr, NEW scn, NEW here, NEW hers,
           Fits(v, o, d, c, open, fa, U, scr, here), SameCall(c, e),
           more => open, 1 \in DOMAIN v /\ fa => fb, U \subseteq X, scn => scr, here => hers
    PROVE  Fits(v, o, d, e, more, fb, X, scn, hers)
<1>1. (Rings(e) <=> Rings(c)) /\ (There(e) <=> There(c)) /\ (Rings(c) => e.num = c.num)
  BY StepFacts DEF SameCall, Rings, There
<1>2. FirstOK(v, o, fb)
  <2>1. FirstOK(v, o, fa)
    BY DEF Fits, Ordered
  <2> SUFFICES ASSUME NEW k \in DOMAIN v, \A n \in DOMAIN v : k <= n, ~StepOK(o, v[k])
               PROVE  k = 1 /\ fb
    BY Zenon DEF FirstOK
  <2>2. k = 1 /\ fa
    BY <2>1, Zenon DEF FirstOK
  <2> QED BY <2>2, Zenon
<1>3. LastOK(v, o, d, more)
  BY DEF Fits, Ordered, LastOK, FinalOK
<1>4. PairOK(v) /\ RingOK(v, e, d) /\ NumOK(v, e, d)
  BY <1>1 DEF Fits, Ordered, RingOK, NumOK
<1>5. UsedOK(v, e, d, X)
  BY <1>1 DEF Fits, UsedOK
<1>6. ScreenOK(v, o, e, d, scn, hers)
  BY <1>1 DEF Fits, ScreenOK
<1> QED BY <1>2, <1>3, <1>4, <1>5, <1>6 DEF Fits, Ordered

\* What the report of entry h does to call c, which becomes e; inits says that a
\* dialled call waits for its index.
Effect(h, c, e, scr, scn, inits) ==
    IF Rings(h)
    THEN /\ There(c) => /\ scn => scr
                        /\ e.st \in {c.st, h.st} /\ e.type = h.type /\ e.num = c.num
         /\ ~There(c) => \/ ~scn /\ e.st = h.st /\ e.type = h.type /\ e.num = h.num
                         \/ scn /\ e = c
    ELSE /\ scn <=> scr
         /\ Rings(e) => Rings(c) /\ e.num = c.num
         /\ ~Live(h) => ~There(e)
         /\ h.st \in {"ACTIVE", "HOLDING", "DISCONNECTING"} /\ There(c) =>
                e.st = h.st /\ e.type = h.type
         /\ h.st = "ALERTING" /\ (IF There(c) THEN c.st # "DISCONNECTING" ELSE inits) =>
                e.st = "ALERTING" /\ e.type = h.type
         /\ h.st = "DIALING" =>
                e.st = (IF There(c) THEN c.st ELSE "DIALING") /\ e.type = h.type

\* What of a call is compared: whether it lives, its running state and type.
LEMMA LookFacts ==
    /\ \A c : ~Live(c) => Look(c) = NoCall
    /\ \A c : Live(c) => Look(c) # NoCall /\ Look(c) = [run |-> Running(c.st), type |-> c.type]
    /\ \A c, d : Look(c) = Look(d) => (Live(c) <=> Live(d))
    /\ \A c, d : Live(c) /\ Live(d) =>
          (Look(c) = Look(d) <=> Running(c.st) = Running(d.st) /\ c.type = d.type)
    /\ \A st \in RingingStates : Running(st) = "RINGING"
    /\ \A st \in States : Running(st) = "RINGING" => st \in RingingStates
    /\ Running("DIALING") = "DIALING" /\ Running("ALERTING") = "DIALING"
    /\ \A st \in States : Running(st) = "DIALING" => st \in {"DIALING", "ALERTING"}
  BY DEF Look, Live, NoCall, Running, RingingStates, States

\* The head's report brings a call to what the head says, and the order goes on.
LEMMA Handling ==
    ASSUME NEW v, NEW o, NEW d, NEW c, NEW e, NEW open, NEW fa, NEW U, NEW scr, NEW scn, NEW inits,
           NEW here, here, NEW fb, fb,
           DOMAIN v \subseteq Nat \ {0}, 1 \in DOMAIN v,
           c.st \in States \cup {"NONE"}, v[1].st \in States \cup {"NONE", "DISCONNECTED"},
           Fits(v, o, d, c, open, fa, U, scr, here), Agrees(o, c, scr),
           fa => v[1].st = "ALERTING" /\ ~There(o) /\ inits,
           Effect(v[1], c, e, scr, scn, inits)
    PROVE  /\ Agrees(v[1], e, scn)
           /\ Fits(v, o, d, e, open, fb, U, scn, here)
           /\ Look(e) = Look(c) \/ Look(e) = Look(v[1])
<1> DEFINE h == v[1]
<1>1. ScreenOK(v, o, c, d, scr, here) /\ Ordered(v, o, d, c, open, fa) /\ UsedOK(v, c, d, U)
  BY DEF Fits
<1>2. StepOK(o, h) \/ fa
  <2>1. \A n \in DOMAIN v : 1 <= n
    OBVIOUS
  <2> QED BY <1>1, <2>1 DEF Ordered, FirstOK
<1>3. Live(h) => /\ scr => Rings(h)
                 /\ Live(o) /\ ~scr => There(c) /\ Live(c) /\ Running(c.st) = Running(o.st)
  <2>1. Through(v, 1, 1) <=> Live(v[1])
    <3>1. \A n \in DOMAIN v : 1 <= n /\ n <= 1 => n = 1
      OBVIOUS
    <3> QED BY <3>1 DEF Through
  <2>2. 1 \in Positions(v) /\ At(v, d, 1) = v[1]
    BY DEF Positions, At
  <2>3. Live(h) /\ scr => Rings(h)
    BY <1>1, <2>1, <2>2 DEF ScreenOK
  <2>4. ~scr => Look(c) = Look(o)
    BY DEF Agrees
  <2>5. Live(o) /\ ~scr => Live(c) /\ Running(c.st) = Running(o.st)
    BY <2>4, LookFacts
  <2> QED BY <2>3, <2>5, StepFacts
<1>4. There(c) => Live(c)
  BY DEF There, Live, States
<1>5. scr => ~There(c)
  BY <1>1 DEF ScreenOK
<1> HIDE DEF h
<1>6. Rings(c) /\ Rings(h) => Rings(e)
  BY <1>5, StepFacts DEF Effect, h, Rings
<1>7. Agrees(h, e, scn) /\ (Look(e) = Look(c) \/ Look(e) = Look(h)) /\ RingKept(h, c, e)
      /\ (scn => ~There(e)) /\ (scn => scr \/ (Rings(h) /\ ~There(c)))
  <2>1. CASE ~Live(h)
    <3>1. ~Rings(h) /\ ~There(e) /\ (scn <=> scr)
      BY <2>1, StepFacts DEF Effect, h
    <3>2. Look(e) = Look(h)
      BY <2>1, <3>1, StepFacts, LookFacts
    <3> QED BY <1>6, <3>1, <3>2, StepFacts DEF Agrees, RingKept
  <2>2. CASE Rings(h)
    <3>1. ~fa \/ h.st = "ALERTING"
      BY DEF h
    <3>2. StepOK(o, h) /\ Live(h)
      BY <1>2, <2>2, <3>1, StepFacts DEF Rings, RingingStates
    <3>3. CASE There(c)
      <4>1. (scn => scr) /\ e.st \in {c.st, h.st} /\ e.type = h.type /\ e.num = c.num /\ ~scr
        BY <1>5, <2>2, <3>3 DEF Effect, h
      <4>2. Live(o)
        BY <1>4, <3>3, <4>1, LookFacts DEF Agrees
      <4>3. Rings(o)
        BY <2>2, <3>2, <4>2 DEF StepOK
      <4>4. Rings(c)
        BY <1>3, <3>2, <3>3, <4>1, <4>2, <4>3, LookFacts DEF Rings, Live, There
      <4>5. Rings(e) /\ Live(e) /\ Look(e) = Look(h)
        BY <2>2, <3>2, <4>1, <4>4, StepFacts, LookFacts DEF Rings
      <4> QED BY <1>6, <4>1, <4>4, <4>5 DEF Agrees, RingKept
    <3>4. CASE ~There(c) /\ ~scn
      <4>1. e.st = h.st /\ e.type = h.type /\ e.num = h.num
        BY <2>2, <3>4 DEF Effect, h
      <4>2. Live(e) /\ Rings(e)
        BY <2>2, <3>2, <4>1 DEF Live, Rings
      <4>3. Look(e) = Look(h)
        BY <3>2, <4>1, <4>2, LookFacts
      <4> QED BY <1>6, <2>2, <3>4, <4>1, <4>3 DEF Agrees, RingKept
    <3>5. CASE ~There(c) /\ scn
      <4>1. e = c
        BY <2>2, <3>5 DEF Effect, h
      <4> QED BY <1>6, <2>2, <3>2, <3>5, <4>1, StepFacts DEF Agrees, RingKept
    <3> QED BY <3>3, <3>4, <3>5
  <2>3. CASE Live(h) /\ ~Rings(h)
    <3>3. ~scr
      BY <1>3, <2>3
    <3>0. h.st \in {"DIALING", "ALERTING", "ACTIVE", "HOLDING", "DISCONNECTING"}
      BY <2>3 DEF h, Live, Rings, RingingStates, States
    <3>1. scn <=> scr
      BY <2>3 DEF Effect, h
    <3>2. Rings(e) => Rings(c) /\ e.num = c.num
      BY <2>3 DEF Effect, h
    <3>4. Look(c) = Look(o)
      BY <3>3 DEF Agrees
    <3>5. Look(e) = Look(h)
      <4>1. CASE h.st = "DIALING"
        <5>1. e.st = (IF There(c) THEN c.st ELSE "DIALING") /\ e.type = h.type
          BY <2>3, <4>1 DEF Effect, h
        <5>2. Running(e.st) = "DIALING" /\ Live(e)
          <6>1. CASE There(c)
            <7>1. Live(c) /\ Live(o) /\ Running(c.st) = Running(o.st)
              BY <1>4, <3>4, <6>1, LookFacts
            <7>2. o.st = "DIALING"
              BY <1>2, <2>3, <4>1, <7>1 DEF StepOK, h
            <7> QED BY <5>1, <6>1, <7>1, <7>2, LookFacts DEF Live
          <6>2. CASE ~There(c)
            BY <5>1, <6>2, LookFacts DEF Live
          <6> QED BY <6>1, <6>2
        <5> QED BY <2>3, <4>1, <5>1, <5>2, LookFacts
      <4>2. CASE h.st = "ALERTING"
        <5>1. IF There(c) THEN c.st # "DISCONNECTING" ELSE inits
          <6>1. CASE fa
            BY <3>4, <6>1, <1>4, LookFacts, StepFacts
          <6>2. CASE ~fa
            <7>1. o.st \in {"DIALING", "ALERTING"} /\ Live(o)
              BY <1>2, <2>3, <4>2, <6>2 DEF StepOK, Live
            <7>2. Running(o.st) = "DIALING"
              BY <7>1, LookFacts
            <7>3. There(c) /\ Running(c.st) = "DIALING"
              BY <1>3, <2>3, <3>3, <7>1, <7>2
            <7>4. c.st \in {"DIALING", "ALERTING"}
              BY <7>3, LookFacts DEF There
            <7> QED BY <7>3, <7>4
          <6> QED BY <6>1, <6>2
        <5>2. e.st = "ALERTING" /\ e.type = h.type
          BY <2>3, <4>2, <5>1 DEF Effect, h
        <5> QED BY <2>3, <4>2, <5>2, LookFacts DEF Live
      <4>3. CASE h.st \in {"ACTIVE", "HOLDING", "DISCONNECTING"}
        <5>1. Live(o)
          BY <1>2, <2>3, <4>3 DEF StepOK, h
        <5>2. There(c)
          BY <1>3, <2>3, <3>3, <5>1
        <5>3. e.st = h.st /\ e.type = h.type
          BY <2>3, <4>3, <5>2 DEF Effect, h
        <5> QED BY <2>3, <5>3, LookFacts DEF Live
      <4> QED BY <3>0, <4>1, <4>2, <4>3
    <3> QED BY <1>6, <2>3, <3>1, <3>2, <3>3, <3>5 DEF Agrees, RingKept
  <2> QED BY <2>1, <2>2, <2>3
<1>8. Ordered(v, o, d, e, open, fb) /\ UsedOK(v, e, d, U)
  <2>1. Ordered(v, o, d, e, open, TRUE) /\ UsedOK(v, e, d, U)
    BY <1>1, <1>7, HandleOrdered DEF h
  <2> QED BY <2>1, Zenon DEF Ordered, FirstOK
<1>9. ScreenOK(v, o, e, d, scn, here)
  <2>1. CASE scr
    BY <1>1, <1>7, <2>1 DEF ScreenOK
  <2>2. CASE ~scr /\ Rings(h) /\ ~There(c)
    <3> SUFFICES ASSUME scn, NEW k \in Positions(v), Through(v, 1, k), Live(At(v, d, k))
                 PROVE  Rings(At(v, d, k))
      BY <1>7, <2>2, StepFacts DEF ScreenOK, h
    <3>1. k = 1 \/ k = 0 \/ 1 < k
      BY DEF Positions
    <3>2. ~Rings(c) /\ RingOK(v, c, d)
      BY <1>1, <2>2, StepFacts DEF Ordered
    <3>3. CASE k = 1
      BY <2>2, <3>3 DEF At, h
    <3>4. CASE k = 0 \/ 1 < k
      BY <2>2, <3>2, <3>4 DEF RingOK, h
    <3> QED BY <3>1, <3>3, <3>4
  <2>3. CASE ~scn
    BY <2>3 DEF ScreenOK
  <2> QED BY <1>7, <2>1, <2>2, <2>3
<1> QED BY <1>7, <1>8, <1>9 DEF Fits, h
-----------------------------------------------------------------------------
Queues == Seq(Lists \cup SoundReports)

\* The inbox of the mirror.
Entry(l) == [slot |-> l.slot, calls |-> [i \in Indexes |-> Look(l.calls[i])]]
ListsIn(q) == {n \in DOMAIN q : IsList(q[n])}
Inbox(q) == LET at == Ascending(ListsIn(q), Len(q))
            IN [k \in DOMAIN at |-> Entry(q[at[k]])]

-----------------------------------------------------------------------------
(* The lists in the queue *)

\* What Ascending picks from a queue.
LEMMA PickedLists ==
    ASSUME NEW q \in Queues
    PROVE  LET at == Ascending(ListsIn(q), Len(q))
           IN /\ at \in Seq(Nat) /\ Len(at) \in Nat /\ Len(q) \in Nat /\ DOMAIN at = 1..Len(at)
              /\ \A k \in 1..Len(at) : at[k] \in 1..Len(q) /\ IsList(q[at[k]])
<1>1. Len(q) \in Nat /\ DOMAIN q = 1..Len(q)
  BY DEF Queues
<1> DEFINE at == Ascending(ListsIn(q), Len(q))
           S == ListsIn(q) \cap 1..Len(q)
<1>2. Enumerates(at, S)
  BY <1>1, AscendingEnumerates
<1>3. S \subseteq Nat /\ \A n \in S : n \in 1..Len(q) /\ IsList(q[n])
  BY <1>1 DEF ListsIn
<1> HIDE DEF at, S
<1>4. at \in Seq(S)
  BY <1>2 DEF Enumerates
<1>5. Len(at) \in Nat /\ at \in [1..Len(at) -> S]
  BY <1>4
<1>6. at \in [1..Len(at) -> Nat]
  BY <1>3, <1>5
<1>7. at \in Seq(Nat)
  BY <1>5, <1>6
<1> QED BY <1>1, <1>3, <1>5, <1>7 DEF at

\* Reports at the end are not in the inbox.
LEMMA InboxGrown ==
    ASSUME NEW q \in Queues, NEW r \in Queues, Grown(q, r)
    PROVE  Inbox(r) = Inbox(q)
<1>1. /\ Len(q) \in Nat /\ Len(r) \in Nat /\ DOMAIN q = 1..Len(q) /\ DOMAIN r = 1..Len(r)
      /\ Len(q) <= Len(r) /\ \A k \in 1..Len(q) : k \in 1..Len(r) /\ r[k] = q[k]
      /\ \A k \in 1..Len(r) : k > Len(q) => ~IsList(r[k])
  BY QueueTypes DEF Queues, Grown
<1>2. ListsIn(r) \cap 1..Len(q) = ListsIn(q) \cap 1..Len(q)
  BY <1>1 DEF ListsIn
<1>3. Ascending(ListsIn(r), Len(q)) = Ascending(ListsIn(q), Len(q))
  BY <1>1, <1>2, AscendingLocal
<1>4. \A k \in ListsIn(r) : k \in Nat => ~(Len(q) < k /\ k <= Len(r))
  BY <1>1 DEF ListsIn
<1>5. Ascending(ListsIn(r), Len(r)) = Ascending(ListsIn(r), Len(q))
  BY <1>1, <1>4, AscendingIdle
<1> DEFINE at == Ascending(ListsIn(q), Len(q))
<1>6. DOMAIN at = 1..Len(at) /\ \A k \in 1..Len(at) : at[k] \in 1..Len(q)
  BY PickedLists
<1>7. Inbox(r) = [k \in DOMAIN at |-> Entry(r[at[k]])] /\ Inbox(q) = [k \in DOMAIN at |-> Entry(q[at[k]])]
  BY <1>3, <1>5 DEF Inbox
<1> HIDE DEF at
<1> QED BY <1>1, <1>6, <1>7

\* A list at the end comes last.
LEMMA InboxAppend ==
    ASSUME NEW q \in Queues, NEW l \in Lists
    PROVE  /\ Inbox(Append(q, l)) = Append(Inbox(q), Entry(l))
           /\ Inbox(q) \in Seq({Entry(x) : x \in Lists})
<1> DEFINE r == Append(q, l)
           at == Ascending(ListsIn(q), Len(q))
           bt == Ascending(ListsIn(r), Len(r))
<1>1. /\ Len(q) \in Nat /\ Len(r) = Len(q) + 1 /\ DOMAIN q = 1..Len(q) /\ DOMAIN r = 1..(Len(q) + 1)
      /\ r[Len(q) + 1] = l /\ IsList(l) /\ (\A k \in 1..Len(q) : r[k] = q[k])
      /\ \A k \in 1..Len(q) : IsList(q[k]) => q[k] \in Lists
  BY QueueTypes DEF Queues
<1> HIDE DEF r
<1>2. ListsIn(r) \cap 1..Len(q) = ListsIn(q) \cap 1..Len(q) /\ Len(q) + 1 \in ListsIn(r)
  BY <1>1 DEF ListsIn
<1>3. Ascending(ListsIn(r), Len(q)) = at
  BY <1>1, <1>2, AscendingLocal
<1>4. bt = Append(at, Len(q) + 1)
  BY <1>1, <1>2, <1>3, AscendingStep
<1>5. at \in Seq(Nat) /\ Len(at) \in Nat /\ DOMAIN at = 1..Len(at)
      /\ \A k \in 1..Len(at) : at[k] \in 1..Len(q) /\ IsList(q[at[k]])
  BY PickedLists
<1>6. Inbox(r) = [k \in DOMAIN bt |-> Entry(r[bt[k]])] /\ Inbox(q) = [k \in DOMAIN at |-> Entry(q[at[k]])]
  BY DEF Inbox
<1> HIDE DEF at, bt
<1>7. DOMAIN bt = 1..(Len(at) + 1) /\ bt[Len(at) + 1] = Len(q) + 1
      /\ \A k \in 1..Len(at) : bt[k] = at[k]
  BY <1>1, <1>4, <1>5
<1> DEFINE X == {Entry(x) : x \in Lists}
<1>8. \A k \in 1..Len(at) : Entry(q[at[k]]) \in X
  BY <1>1, <1>5
<1>9. Entry(l) \in X
  OBVIOUS
<1> HIDE DEF X
<1>10. Inbox(q) \in Seq(X) /\ Len(Inbox(q)) = Len(at) /\ \A k \in 1..Len(at) : Inbox(q)[k] = Entry(q[at[k]])
  BY <1>5, <1>6, <1>8
<1>11. Append(Inbox(q), Entry(l)) = [k \in 1..(Len(at) + 1) |-> IF k <= Len(at) THEN Entry(q[at[k]]) ELSE Entry(l)]
  <2> DEFINE z == Append(Inbox(q), Entry(l))
  <2>0. Inbox(q) \in Seq(X) /\ Entry(l) \in X /\ Len(Inbox(q)) = Len(at) /\ Len(at) \in Nat
    BY <1>5, <1>9, <1>10
  <2>a. z \in Seq(X) /\ Len(z) = Len(at) + 1 /\ z[Len(at) + 1] = Entry(l)
        /\ \A k \in 1..Len(at) : z[k] = Inbox(q)[k]
    BY <2>0
  <2>b. DOMAIN z = 1..(Len(at) + 1) /\ z = [k \in DOMAIN z |-> z[k]]
    <3> HIDE DEF z
    <3> QED BY <2>0, <2>a
  <2>1. Len(z) = Len(at) + 1 /\ DOMAIN z = 1..(Len(at) + 1) /\ z[Len(at) + 1] = Entry(l)
        /\ z = [k \in DOMAIN z |-> z[k]] /\ \A k \in 1..Len(at) : z[k] = Inbox(q)[k]
    BY <2>a, <2>b
  <2> HIDE DEF z
  <2>2. \A k \in 1..(Len(at) + 1) : z[k] = IF k <= Len(at) THEN Entry(q[at[k]]) ELSE Entry(l)
    <3> TAKE k \in 1..(Len(at) + 1)
    <3>1. CASE k <= Len(at)
      BY <1>5, <1>10, <2>1, <3>1
    <3>2. CASE k = Len(at) + 1
      BY <1>5, <2>1, <3>2
    <3> QED BY <1>5, <3>1, <3>2
  <2> QED BY <2>1, <2>2 DEF z
<1>12. \A k \in 1..(Len(at) + 1) : Entry(r[bt[k]]) = IF k <= Len(at) THEN Entry(q[at[k]]) ELSE Entry(l)
  <2> TAKE k \in 1..(Len(at) + 1)
  <2>1. CASE k <= Len(at)
    BY <1>1, <1>5, <1>7, <2>1
  <2>2. CASE k = Len(at) + 1
    BY <1>1, <1>5, <1>7, <2>2
  <2> QED BY <1>5, <2>1, <2>2
<1> QED BY <1>6, <1>7, <1>10, <1>11, <1>12 DEF r, X

\* The head of the queue, if it is a list, is the inbox's.
LEMMA InboxTail ==
    ASSUME NEW q \in Queues, q # <<>>
    PROVE  IF IsList(Head(q))
           THEN /\ Inbox(q) # <<>> /\ Head(Inbox(q)) = Entry(Head(q))
                /\ Inbox(Tail(q)) = Tail(Inbox(q))
           ELSE Inbox(Tail(q)) = Inbox(q)
<1> DEFINE r == Tail(q)
           n == Len(r)
           S == ListsIn(q)
           T == ListsIn(r)
           b == IF IsList(Head(q)) THEN 1 ELSE 0
           a == Ascending(S, Len(q))
           t == Ascending(T, n)
<1>1. /\ Len(q) \in Nat /\ n \in Nat /\ Len(q) = n + 1 /\ DOMAIN q = 1..(n + 1) /\ DOMAIN r = 1..n
      /\ q[1] = Head(q) /\ (\A k \in 1..n : r[k] = q[k + 1]) /\ r \in Queues
  BY HeadTypes DEF Queues
<1> HIDE DEF r, n
<1>2. \A k \in Nat \ {0} : (k \in T <=> k + 1 \in S)
  BY <1>1 DEF ListsIn
<1>3. Lowered(S, T, b)
  <2>1. b \in {0, 1} /\ (1 \in S <=> b = 1)
    BY <1>1 DEF ListsIn
  <2> QED BY <1>2, <2>1 DEF Lowered
<1> HIDE DEF S, T, b
<1>4. Raised(a, t, b)
  <2>1. a = Ascending(S, n + 1)
    BY <1>1
  <2> QED BY <1>1, <1>3, <2>1, AscendingShift
<1>5. Inbox(q) = [k \in DOMAIN a |-> Entry(q[a[k]])] /\ Inbox(r) = [k \in DOMAIN t |-> Entry(r[t[k]])]
  BY DEF Inbox, S, T, n
<1>6. \A k \in 1..Len(t) : t[k] \in 1..n
  BY <1>1, PickedLists DEF T, n
<1> HIDE DEF a, t
<1>7. /\ Len(t) \in Nat /\ Len(a) \in Nat /\ DOMAIN a = 1..Len(a) /\ DOMAIN t = 1..Len(t)
      /\ Len(a) = Len(t) + b /\ (b = 1 => a[1] = 1)
  BY <1>4 DEF Raised
<1>8. \A k \in 1..Len(t) : Entry(q[a[k + b]]) = Entry(r[t[k]])
  BY <1>1, <1>4, <1>6 DEF Raised
<1>9. CASE IsList(Head(q))
  <2>1. b = 1
    BY <1>9 DEF b
  <2>2. Len(a) = Len(t) + 1 /\ Entry(q[a[1]]) = Entry(Head(q))
    BY <1>1, <1>7, <2>1
  <2>3. Inbox(q) # <<>> /\ Head(Inbox(q)) = Entry(Head(q)) /\ Len(Inbox(q)) = Len(t) + 1
    BY <1>5, <1>7, <2>2
  <2>4. Tail(Inbox(q)) = [k \in 1..Len(t) |-> Entry(q[a[k + 1]])]
    BY <1>5, <1>7, <2>2, <2>3
  <2>5. Tail(Inbox(q)) = Inbox(r)
    BY <1>5, <1>7, <1>8, <2>1, <2>4
  <2> QED BY <1>9, <2>3, <2>5 DEF r
<1>10. CASE ~IsList(Head(q))
  <2>1. b = 0
    BY <1>10 DEF b
  <2>2. Len(a) = Len(t) /\ \A k \in 1..Len(t) : Entry(q[a[k]]) = Entry(r[t[k]])
    BY <1>7, <1>8, <2>1
  <2>3. Inbox(q) = Inbox(r)
    BY <1>5, <1>7, <2>2
  <2> QED BY <1>10, <2>3 DEF r
<1> QED BY <1>9, <1>10
-----------------------------------------------------------------------------
(* The views *)

\* A view: where it is defined, and what it has first.
LEMMA ViewIs ==
    ASSUME NEW q \in Queues, NEW s, NEW i
    PROVE  /\ Len(q) \in Nat /\ DOMAIN View(q, s, i) \subseteq 1..Len(q)
           /\ DOMAIN View(q, s, i) \subseteq Nat \ {0}
           /\ \A k : k \in DOMAIN View(q, s, i) <=> k \in 1..Len(q) /\ IsList(q[k]) /\ q[k].slot = s
           /\ \A k \in DOMAIN View(q, s, i) : View(q, s, i)[k] = q[k].calls[i]
           /\ 1 \in DOMAIN View(q, s, i) <=> q # <<>> /\ IsList(Head(q)) /\ Head(q).slot = s
           /\ 1 \in DOMAIN View(q, s, i) => View(q, s, i)[1] = Head(q).calls[i]
<1>1. Len(q) \in Nat /\ (q # <<>> <=> Len(q) # 0) /\ (q # <<>> => Head(q) = q[1])
  BY DEF Queues
<1>2. DOMAIN View(q, s, i) = {n \in 1..Len(q) : IsList(q[n]) /\ q[n].slot = s}
  BY DEF View
<1>3. \A k \in DOMAIN View(q, s, i) : View(q, s, i)[k] = q[k].calls[i]
  BY DEF View
<1>4. 1 \in 1..Len(q) <=> q # <<>>
  BY <1>1
<1> QED BY <1>1, <1>2, <1>3, <1>4

\* Reports at the end are in no view.
LEMMA ViewGrown ==
    ASSUME NEW q \in Queues, NEW r \in Queues, Grown(q, r), NEW s, NEW i
    PROVE  View(r, s, i) = View(q, s, i)
<1>1. /\ Len(q) \in Nat /\ Len(r) \in Nat
      /\ Len(q) <= Len(r) /\ \A k \in 1..Len(q) : k \in 1..Len(r) /\ r[k] = q[k]
      /\ \A k \in 1..Len(r) : k > Len(q) => ~IsList(r[k])
  BY QueueTypes DEF Queues, Grown
<1>2. {n \in 1..Len(r) : IsList(r[n]) /\ r[n].slot = s} = {n \in 1..Len(q) : IsList(q[n]) /\ q[n].slot = s}
  <2>1. \A n \in 1..Len(r) : IsList(r[n]) => n \in 1..Len(q)
    BY <1>1
  <2> QED BY <1>1, <2>1
<1> QED BY <1>1, <1>2 DEF View

\* Another slot's list is not in the view either.
LEMMA ViewOther ==
    ASSUME NEW q \in Queues, NEW l \in Lists, NEW s, NEW i, l.slot # s
    PROVE  View(Append(q, l), s, i) = View(q, s, i)
<1> DEFINE r == Append(q, l)
<1>1. /\ Len(q) \in Nat /\ Len(r) = Len(q) + 1 /\ r[Len(q) + 1] = l
      /\ \A k \in 1..Len(q) : r[k] = q[k]
  BY DEF Queues
<1> HIDE DEF r
<1>2. {n \in 1..Len(r) : IsList(r[n]) /\ r[n].slot = s} = {n \in 1..Len(q) : IsList(q[n]) /\ q[n].slot = s}
  <2>1. \A n \in 1..Len(r) : n \in 1..Len(q) \/ r[n] = l
    BY <1>1
  <2> QED BY <1>1, <2>1
<1>3. View(r, s, i) = View(q, s, i)
  BY <1>1, <1>2 DEF View
<1> QED BY <1>3 DEF r

\* The slot's own list is its view's last entry.
LEMMA ViewExtends ==
    ASSUME NEW q \in Queues, NEW l \in Lists, NEW i, NEW e,
           Live(e) => l.calls[i] = e, Live(l.calls[i]) => Live(e)
    PROVE  Extends(View(q, l.slot, i), View(Append(q, l), l.slot, i), Len(q) + 1, e)
<1> DEFINE r == Append(q, l)
           s == l.slot
<1>1. /\ Len(q) \in Nat /\ Len(r) = Len(q) + 1 /\ r[Len(q) + 1] = l /\ IsList(l) /\ r \in Queues
      /\ \A k \in 1..Len(q) : r[k] = q[k]
  BY QueueTypes DEF Queues
<1> HIDE DEF r, s
<1>2. r[Len(q) + 1].slot = s
  BY <1>1 DEF s
<1>3. DOMAIN View(r, s, i) = DOMAIN View(q, s, i) \cup {Len(q) + 1}
  <2>1. \A k \in 1..Len(r) : k \in 1..Len(q) \/ k = Len(q) + 1
    BY <1>1
  <2>2. \A k : k \in DOMAIN View(r, s, i) <=> k \in DOMAIN View(q, s, i) \/ k = Len(q) + 1
    BY <1>1, <1>2, <2>1, ViewIs
  <2> QED BY <2>2
<1>4. \A k \in DOMAIN View(q, s, i) : View(r, s, i)[k] = View(q, s, i)[k]
  BY <1>1, <1>3, ViewIs
<1>5. View(r, s, i)[Len(q) + 1] = l.calls[i]
  BY <1>1, <1>3, ViewIs
<1>6. Len(q) + 1 \in Nat \ {0} /\ DOMAIN View(q, s, i) \subseteq 1..((Len(q) + 1) - 1)
  BY <1>1, ViewIs
<1>7. Extends(View(q, s, i), View(r, s, i), Len(q) + 1, e)
  BY <1>3, <1>4, <1>5, <1>6 DEF Extends
<1> QED BY <1>7 DEF r, s

\* The head goes.
LEMMA ViewShifts ==
    ASSUME NEW q \in Queues, q # <<>>, NEW s, NEW i
    PROVE  Shifts(View(q, s, i), View(Tail(q), s, i))
<1> DEFINE r == Tail(q)
<1>1. /\ Len(q) \in Nat /\ Len(r) \in Nat /\ Len(q) = Len(r) + 1 /\ r \in Queues
      /\ \A k \in 1..Len(r) : r[k] = q[k + 1]
  BY HeadTypes DEF Queues
<1> HIDE DEF r
<1>2. \A k : k \in DOMAIN View(r, s, i) <=> k \in Nat \ {0} /\ k + 1 \in DOMAIN View(q, s, i)
  <2> TAKE k
  <2>1. ASSUME k \in 1..Len(r) PROVE k \in Nat \ {0} /\ k + 1 \in 1..Len(q) /\ r[k] = q[k + 1]
    BY <1>1, <2>1
  <2>2. ASSUME k \in Nat \ {0}, k + 1 \in 1..Len(q) PROVE k \in 1..Len(r)
    BY <1>1, <2>2
  <2>3. k \in DOMAIN View(r, s, i) <=> k \in 1..Len(r) /\ IsList(r[k]) /\ r[k].slot = s
    BY <1>1, ViewIs
  <2>4. k + 1 \in DOMAIN View(q, s, i) <=>
            k + 1 \in 1..Len(q) /\ IsList(q[k + 1]) /\ q[k + 1].slot = s
    BY ViewIs
  <2> QED BY <2>1, <2>2, <2>3, <2>4, Zenon
<1>3. ASSUME NEW k \in DOMAIN View(r, s, i) PROVE View(r, s, i)[k] = View(q, s, i)[k + 1]
  <2>1. k \in 1..Len(r) /\ View(r, s, i)[k] = r[k].calls[i]
    BY <1>1, ViewIs
  <2>2. k + 1 \in DOMAIN View(q, s, i)
    BY <1>2
  <2>3. View(q, s, i)[k + 1] = q[k + 1].calls[i]
    BY <2>2, ViewIs
  <2> QED BY <1>1, <2>1, <2>3
<1> QED BY <1>2, <1>3, ViewIs DEF Shifts, r
-----------------------------------------------------------------------------
(* What the handlers do to the call they are about *)

Plain(m, n) == n.queue = m.queue /\ n.screened = m.screened
Apart(m, n) == Plain(m, n) /\ \A t \in Slots : n.calls[t][InitIndex] = m.calls[t][InitIndex]

\* No dial comes into the table, and that of call x, which r gives its index, leaves it.
NoNewDial(m, n) == \A t \in Slots : n.calls[t][InitIndex] \in {m.calls[t][InitIndex], NoCall}
Numbers(m, n, r, x) ==
    /\ There(m.calls[r.slot][InitIndex])
    /\ \E t \in InitSlots(m) : n.calls[t][InitIndex] = NoCall /\ x = m.calls[t][InitIndex].num

\* What becomes of dials and numbers when a report of c makes e of it.
Recalls(m, n, r, c, e) ==
    /\ NoNewDial(m, n)
    /\ There(c) /\ There(e) => e.num = c.num
    /\ ~There(c) /\ There(e) => e.num = r.num \/ Numbers(m, n, r, e.num)
    /\ r.st \in {"DIALING", "ALERTING"} /\ ~There(c) /\ There(m.calls[r.slot][InitIndex]) =>
           Numbers(m, n, r, e.num)

\* A report of a call that does not ring; c is the call it is about, e what it becomes.
Does(m, n, r) ==
    LET c == m.calls[r.slot][r.idx]
        e == n.calls[r.slot][r.idx]
    IN /\ Plain(m, n)
       /\ There(c) => Apart(m, n)
       /\ Rings(e) => Rings(c) /\ e.num = c.num
       /\ r.st = "DISCONNECTED" => ~There(e)
       /\ r.st \in {"ACTIVE", "HOLDING", "DISCONNECTING"} /\ There(c) =>
              e.st = r.st /\ e.type = r.type
       /\ r.st = "ALERTING" /\ (IF There(c) THEN c.st # "DISCONNECTING" ELSE InitSlots(m) # {}) =>
              e.st = "ALERTING" /\ e.type = r.type
       /\ r.st = "DIALING" =>
              e.st = (IF There(c) THEN c.st ELSE "DIALING") /\ e.type = r.type
       /\ Recalls(m, n, r, c, e)

\* Reports in no list are about calls without an index.
Singles(q) == \A k \in 1..Len(q) : ~IsList(q[k]) => q[k].idx = InitIndex

\* What is new in the queue ends calls.
Ending(q, r) == \A k \in 1..Len(r) : k \in 1..Len(q) \/ r[k].st = "DISCONNECTED"

\* A report of a ringing call.
DoesRing(m, n, r, show) ==
    LET c == m.calls[r.slot][r.idx]
        e == n.calls[r.slot][r.idx]
        place == <<r.slot, r.idx>>
    IN /\ \A t \in Slots : n.calls[t][InitIndex] = m.calls[t][InitIndex]
       /\ Singles(m.queue) => Singles(n.queue)
       /\ Ending(m.queue, n.queue)
       /\ There(c) => /\ n.screened = m.screened
                      /\ e.st \in {c.st, r.st} /\ e.type = r.type /\ e.num = c.num
       /\ ~There(c) /\ show => /\ n.screened = {x \in m.screened : x.place # place}
                               /\ e.st = r.st /\ e.type = r.type /\ e.num = r.num
       /\ ~There(c) /\ ~show =>
              n.screened = m.screened \cup {[place |-> place, num |-> r.num]} /\ e = c

\* A change of one entry leaves the others as they were.
LEMMA WriteApart ==
    ASSUME NEW m \in Managers, NEW s \in Slots, NEW i \in Indexes, NEW c \in TableCalls
    PROVE  /\ Apart(m, Write(m, s, i, c)) /\ Write(m, s, i, c) \in Managers
           /\ Write(m, s, i, c).calls[s][i] = c
<1>1. i \in 0..MaxIdx /\ \A t \in Slots : InitIndex \in 0..MaxIdx /\ <<t, InitIndex>> # <<s, i>>
  BY PlaceTypes
<1>2. \A t \in Slots : Write(m, s, i, c).calls[t][InitIndex] = m.calls[t][InitIndex]
  BY <1>1, WriteIs
<1> QED BY <1>1, <1>2, WriteIs DEF Apart, Plain

\* The place of a listed call's report.
LEMMA ApartTypes ==
    ASSUME NEW r \in SoundReports, r.idx \in Indexes, NEW m \in Managers
    PROVE  /\ r.slot \in Slots /\ r.idx \in 0..MaxIdx /\ r.type \in Types /\ r.idx # InitIndex
           /\ m.calls[r.slot][r.idx] \in TableCalls
<1>1. /\ r.slot \in Slots /\ r.idx \in 0..MaxIdx /\ r.type \in Types /\ r.idx # InitIndex
  BY ReportTypes, PlaceTypes
<1>2. m.calls \in [Slots -> [0..MaxIdx -> TableCalls]]
  BY DEF Managers, Tables
<1> QED BY <1>1, <1>2

\* A known call is refreshed and changes its state.
LEMMA ChangeDoes ==
    ASSUME NEW m \in Managers, NEW r \in SoundReports, r.idx \in Indexes, Known(m, r),
           NEW st \in States
    PROVE  LET c == m.calls[r.slot][r.idx]
               q == RefreshCallIfNecessary(m, r)
               d == q.calls[r.slot][r.idx]
               n == SetState(q, r, st)
               e == n.calls[r.slot][r.idx]
           IN /\ Apart(m, q) /\ d.st = c.st /\ d.type = r.type /\ d.num = c.num /\ q \in Managers
              /\ Apart(m, n) /\ e.st = st /\ e.type = r.type /\ e.num = c.num /\ n \in Managers
<1> DEFINE c == m.calls[r.slot][r.idx]
<1>1. /\ r.slot \in Slots /\ r.type \in Types /\ c \in TableCalls /\ There(c)
      /\ c.st \in States
  BY ApartTypes, CallTypes DEF Known
<1>3. Changes(c, r.type, c.st) = Retyped(c, r.type)
  BY <1>1, CallTypes DEF Changes, Retyped
<1>4. /\ RefreshCallIfNecessary(m, r) = Write(m, r.slot, r.idx, Changes(c, r.type, c.st))
      /\ SetState(RefreshCallIfNecessary(m, r), r, st)
            = Write(m, r.slot, r.idx, Changes(c, r.type, st))
  BY <1>3, OneCall
<1>5. ASSUME NEW x \in States
      PROVE  LET e == Changes(c, r.type, x)
                 n == Write(m, r.slot, r.idx, e)
             IN /\ Apart(m, n) /\ n \in Managers /\ n.calls[r.slot][r.idx] = e
                /\ e.st = x /\ e.type = r.type /\ e.num = c.num
  <2>1. Changes(c, r.type, x) \in TableCalls
    BY <1>1, ChangesType
  <2>2. /\ Changes(c, r.type, x).st = x /\ Changes(c, r.type, x).type = r.type
        /\ Changes(c, r.type, x).num = c.num
    BY <1>1, ChangesType
  <2> DEFINE e == Changes(c, r.type, x)
  <2> HIDE DEF c, e
  <2>3. LET n == Write(m, r.slot, r.idx, e)
        IN Apart(m, n) /\ n \in Managers /\ n.calls[r.slot][r.idx] = e
    BY <1>1, <2>1, WriteApart DEF e
  <2> QED BY <2>2, <2>3, Zenon DEF e
<1> DEFINE q == RefreshCallIfNecessary(m, r)
           n == SetState(q, r, st)
<1>6. Apart(m, q) /\ q \in Managers /\ q.calls[r.slot][r.idx].st = c.st
      /\ q.calls[r.slot][r.idx].type = r.type /\ q.calls[r.slot][r.idx].num = c.num
  <2> HIDE DEF c, q
  <2> QED BY <1>1, <1>4, <1>5 DEF q
<1>7. Apart(m, n) /\ n \in Managers /\ n.calls[r.slot][r.idx].st = st
      /\ n.calls[r.slot][r.idx].type = r.type /\ n.calls[r.slot][r.idx].num = c.num
  <2> HIDE DEF c, n
  <2> QED BY <1>1, <1>4, <1>5 DEF n
<1> HIDE DEF c, q, n
<1> QED BY <1>6, <1>7 DEF c, q, n

\* A new call is put into the table.
LEMMA PutDoes ==
    ASSUME NEW m \in Managers, NEW r \in SoundReports, r.idx \in Indexes, r.num \in Nums,
           NEW st \in States
    PROVE  LET n == Put(m, r, st)
               e == n.calls[r.slot][r.idx]
           IN /\ Apart(m, n) /\ e.st = st /\ e.type = r.type /\ e.num = r.num
              /\ n \in Managers
<1> DEFINE d == [st |-> st, type |-> r.type, num |-> r.num, af |-> "DEFAULT"]
<1>1. d \in TableCalls /\ r.slot \in Slots
  BY ApartTypes DEF TableCalls, AfStates
<1>2. Put(m, r, st) = Write(m, r.slot, r.idx, d)
  BY DEF Put, Write
<1>3. d.st = st /\ d.type = r.type /\ d.num = r.num
  OBVIOUS
<1> HIDE DEF d
<1> QED BY <1>1, <1>2, <1>3, WriteApart

\* The dialled call gets its index.
LEMMA NumberDoes ==
    ASSUME NEW m \in Managers, NEW r \in SoundReports, r.idx \in Indexes,
           ~Known(m, r), There(m.calls[r.slot][InitIndex])
    PROVE  LET n == UpdateDialingCallInfo(m, r)
               e == n.calls[r.slot][r.idx]
           IN /\ Plain(m, n) /\ e.st = "DIALING" /\ e.type = r.type /\ n \in Managers
              /\ NoNewDial(m, n) /\ Numbers(m, n, r, e.num)
<1> DEFINE s == CHOOSE s \in InitSlots(m) : TRUE
           c == m.calls[s][InitIndex]
           d == [c EXCEPT !.st = "DIALING", !.type = r.type]
           q == Write(m, s, InitIndex, NoCall)
<1>1. s \in InitSlots(m)
  BY ApartTypes DEF InitSlots
<1>2. s \in Slots /\ There(c)
  BY <1>1 DEF InitSlots
<1> HIDE DEF s
<1>3. /\ r.slot \in Slots /\ r.idx \in 0..MaxIdx /\ InitIndex \in 0..MaxIdx /\ r.type \in Types
      /\ c \in TableCalls
  <2>1. m.calls \in [Slots -> [0..MaxIdx -> TableCalls]]
    BY DEF Managers, Tables
  <2>2. InitIndex \in 0..MaxIdx
    BY PlaceTypes
  <2>3. c \in TableCalls
    BY <1>2, <2>1, <2>2
  <2> QED BY <2>2, <2>3, ApartTypes
<1>4. UpdateDialingCallInfo(m, r) = Write(q, r.slot, r.idx, d)
  <2>1. UpdateDialingCallInfo(m, r) =
           [m EXCEPT !.calls[s][InitIndex] = NoCall, !.calls[r.slot][r.idx] = d]
    BY DEF UpdateDialingCallInfo, s
  <2> QED BY <2>1 DEF Write, Managers, Tables
<1>5. d \in TableCalls /\ d.st = "DIALING" /\ d.type = r.type /\ d.num = c.num
  BY <1>2, <1>3, CallTypes DEF TableCalls, There, States
<1>6. /\ q \in Managers /\ Plain(m, q) /\ q.calls[s][InitIndex] = NoCall
      /\ \A t \in Slots : q.calls[t][InitIndex] \in {m.calls[t][InitIndex], NoCall}
  <2>1. \A t \in Slots : t # s => <<t, InitIndex>> # <<s, InitIndex>>
    OBVIOUS
  <2>2. q \in Managers /\ Plain(m, q) /\ q.calls[s][InitIndex] = NoCall
    BY <1>2, <1>3, CallTypes, WriteIs DEF Plain
  <2>3. \A t \in Slots : t # s => q.calls[t][InitIndex] = m.calls[t][InitIndex]
    BY <1>2, <1>3, <2>1, CallTypes, WriteIs
  <2> QED BY <2>2, <2>3
<1> DEFINE n == UpdateDialingCallInfo(m, r)
<1> HIDE DEF c, d, q, n
<1>7. Apart(q, n) /\ n \in Managers /\ n.calls[r.slot][r.idx] = d
  BY <1>3, <1>4, <1>5, <1>6, WriteApart DEF n
<1>8. NoNewDial(m, n) /\ Plain(m, n)
  BY <1>6, <1>7 DEF NoNewDial, Apart, Plain
<1>9. Numbers(m, n, r, d.num)
  BY <1>1, <1>2, <1>5, <1>6, <1>7 DEF Numbers, Apart, c
<1> QED BY <1>5, <1>7, <1>8, <1>9 DEF n

\* DialingHandle of a listed call: a known one keeps its state.
LEMMA DialingDoes ==
    ASSUME NEW m \in Managers, NEW r \in SoundReports, r.idx \in Indexes, r.num \in Nums
    PROVE  LET n == DialingHandle(m, r)
               c == m.calls[r.slot][r.idx]
               e == n.calls[r.slot][r.idx]
           IN /\ Plain(m, n) /\ e.type = r.type /\ n \in Managers /\ NoNewDial(m, n)
              /\ There(c) => Apart(m, n) /\ e.st = c.st /\ e.num = c.num
              /\ ~There(c) => /\ e.st = "DIALING"
                              /\ IF There(m.calls[r.slot][InitIndex])
                                 THEN Numbers(m, n, r, e.num) ELSE e.num = r.num
<1>1. r.idx > InitIndex
  BY ListsAssumption DEF Indexes, InitIndex
<1>2. CASE Known(m, r)
  <2>1. DialingHandle(m, r) = RefreshCallIfNecessary(m, r)
    BY <1>1, <1>2 DEF DialingHandle, UpdateDialingCallInfo
  <2>2. "DIALING" \in States
    BY DEF States
  <2> DEFINE n == RefreshCallIfNecessary(m, r)
             c == m.calls[r.slot][r.idx]
             e == n.calls[r.slot][r.idx]
  <2>3. /\ Apart(m, n) /\ e.st = c.st /\ e.type = r.type /\ e.num = c.num /\ n \in Managers
    BY <1>2, <2>2, ChangeDoes
  <2> HIDE DEF n
  <2>4. There(c)
    BY <1>2 DEF Known
  <2>5. Plain(m, n) /\ NoNewDial(m, n)
    BY <2>3 DEF Apart, NoNewDial
  <2> QED BY <2>1, <2>3, <2>4, <2>5 DEF n
<1>3. CASE ~Known(m, r) /\ There(m.calls[r.slot][InitIndex])
  <2>1. DialingHandle(m, r) = UpdateDialingCallInfo(m, r)
    BY <1>1, <1>3 DEF DialingHandle
  <2> QED BY <1>3, <2>1, NumberDoes DEF Known
<1>4. CASE ~Known(m, r) /\ ~There(m.calls[r.slot][InitIndex])
  <2>1. DialingHandle(m, r) = Put(m, r, "DIALING")
    BY <1>4 DEF DialingHandle
  <2>2. "DIALING" \in States
    BY DEF States
  <2> QED BY <1>4, <2>1, <2>2, PutDoes DEF Known, Apart, NoNewDial
<1> QED BY <1>2, <1>3, <1>4

\* A later report shows the index of the dialled call.
LEMMA OtherDoes ==
    ASSUME NEW m \in Managers, NEW r \in SoundReports, r.idx \in Indexes, r.num \in Nums
    PROVE  LET n == RefreshDialingStateByOtherState(m, r)
           IN /\ Plain(m, n) /\ n \in Managers /\ NoNewDial(m, n)
              /\ IF Known(m, r) \/ InitSlots(m) = {} THEN n = m
                 ELSE LET e == n.calls[r.slot][r.idx]
                      IN /\ e.st = "DIALING"
                         /\ IF There(m.calls[r.slot][InitIndex])
                            THEN Numbers(m, n, r, e.num) ELSE e.num = r.num
<1>1. CASE Known(m, r) \/ InitSlots(m) = {}
  BY <1>1 DEF RefreshDialingStateByOtherState, Plain, NoNewDial
<1>2. CASE ~(Known(m, r) \/ InitSlots(m) = {})
  <2>1. RefreshDialingStateByOtherState(m, r) = DialingHandle(m, r)
    BY <1>2 DEF RefreshDialingStateByOtherState
  <2> QED BY <1>2, <2>1, DialingDoes DEF Known
<1> QED BY <1>1, <1>2

\* Fraud detection changes nothing that is listed.
LEMMA AfKeeps ==
    ASSUME NEW m \in Managers, NEW n, n = [m EXCEPT !.af = n.af]
    PROVE  Apart(m, n) /\ n.calls = m.calls
  BY DEF Managers, Apart, Plain

\* The stop of a detection changes neither state, type nor number of a call.
LEMMA StopKeeps ==
    ASSUME NEW m \in Managers, FraudInv(m), NEW r \in SoundReports, r.idx \in Indexes,
           NEW answer \in StopAnswers
    PROVE  LET q == StopAntiFraudDetect(m, <<r.slot, r.idx>>, answer)
               c == m.calls[r.slot][r.idx]
               d == q.calls[r.slot][r.idx]
           IN /\ q \in Managers /\ Apart(m, q)
              /\ d.st = c.st /\ (There(c) => d.type = c.type /\ d.num = c.num)
<1> DEFINE q == StopAntiFraudDetect(m, <<r.slot, r.idx>>, answer)
           c == m.calls[r.slot][r.idx]
           d == q.calls[r.slot][r.idx]
<1>1. r.slot \in Slots /\ r.idx \in 0..MaxIdx /\ r.idx # InitIndex /\ c \in TableCalls
  BY ApartTypes
<1>2. /\ Good(m, q) /\ q.af.latch # <<r.slot, r.idx>>
      /\ q = [m EXCEPT !.af = q.af, !.calls[r.slot][r.idx] = d]
      /\ d \in {c, [c EXCEPT !.af = "STOPPED"]}
  <2> DEFINE s == r.slot
             i == r.idx
  <2>1. s \in Slots /\ i \in 0..MaxIdx
    BY <1>1
  <2> HIDE DEF s, i
  <2>2. LET n == StopAntiFraudDetect(m, <<s, i>>, answer)
        IN /\ Good(m, n) /\ n.af.latch # <<s, i>>
           /\ n = [m EXCEPT !.af = n.af, !.calls[s][i] = n.calls[s][i]]
           /\ n.calls[s][i] \in {m.calls[s][i], [m.calls[s][i] EXCEPT !.af = "STOPPED"]}
    BY <2>1, StopGood
  <2> QED BY <2>2, Zenon DEF s, i
<1>3. d.st = c.st /\ (There(c) => d.type = c.type /\ d.num = c.num)
  BY <1>1, <1>2 DEF TableCalls, There, NoCall
<1> HIDE DEF d
<1>4. q.queue = m.queue /\ q.screened = m.screened /\ q.calls = [m.calls EXCEPT ![r.slot][r.idx] = d]
  <2> HIDE DEF q
  <2> QED BY <1>2 DEF Managers
<1>5. \A t \in Slots : q.calls[t][InitIndex] = m.calls[t][InitIndex]
  <2> HIDE DEF q
  <2>1. InitIndex \in 0..MaxIdx
    BY PlaceTypes
  <2> QED BY <1>1, <1>4, <2>1 DEF Managers, Tables
<1> QED BY <1>2, <1>3, <1>4, <1>5 DEF Apart, Plain, Good, d

\* What happens to a dial is not undone by changes of a listed call.
LEMMA DialsThen ==
    ASSUME NEW m, NEW n, NEW k, NEW r, NoNewDial(m, n), Apart(n, k)
    PROVE  NoNewDial(m, k) /\ \A x : Numbers(m, n, r, x) => Numbers(m, k, r, x)
  BY DEF NoNewDial, Numbers, Apart, InitSlots

LEMMA DialsSame == ASSUME NEW m, NEW n, Apart(m, n) PROVE NoNewDial(m, n)
  BY DEF NoNewDial, Apart

\* ActiveHandle brings a known call, or the dial, to what is reported.
LEMMA ActiveDoes ==
    ASSUME NEW m \in Managers, FraudInv(m), NEW r \in SoundReports, r.idx \in Indexes,
           r.st = "ACTIVE", NEW choice \in Choices
    PROVE  Does(m, ActiveHandle(m, r, choice), r)
<1> DEFINE n == RefreshDialingStateByOtherState(m, r)
           a == SetState(RefreshCallIfNecessary(n, r), r, "ACTIVE")
           k == ActiveHandle(m, r, choice)
           p == <<r.slot, r.idx>>
           c == m.calls[r.slot][r.idx]
           e == k.calls[r.slot][r.idx]
<1>1. /\ r.num \in Nums /\ r.slot \in Slots /\ p \in Places /\ "ACTIVE" \in States
  BY ReportTypes, PlaceTypes DEF States
<1>2. Plain(m, n) /\ n \in Managers /\ FraudInv(n) /\ NoNewDial(m, n)
      /\ IF Known(m, r) \/ InitSlots(m) = {} THEN n = m
         ELSE /\ n.calls[r.slot][r.idx].st = "DIALING"
              /\ LET x == n.calls[r.slot][r.idx].num
                 IN IF There(m.calls[r.slot][InitIndex]) THEN Numbers(m, n, r, x) ELSE x = r.num
  BY <1>1, OtherDoes, RefreshHandled DEF Handled, Good
<1>3. k = IF ~Known(n, r) THEN n
          ELSE IF choice.detect THEN SetupAntiFraudService(a, p) ELSE a
  BY DEF ActiveHandle
<1> HIDE DEF n, k, p
<1>4. CASE ~Known(n, r)
  <2>1. k = m /\ ~There(c)
    BY <1>2, <1>3, <1>4 DEF Known, There
  <2> QED BY <1>1, <1>2, <2>1, StepFacts DEF Does, Apart, Plain, Recalls, NoNewDial, k
<1>5. CASE Known(n, r)
  <2>1. Apart(n, a) /\ a.calls[r.slot][r.idx].st = "ACTIVE" /\ a.calls[r.slot][r.idx].type = r.type
        /\ a.calls[r.slot][r.idx].num = n.calls[r.slot][r.idx].num /\ a \in Managers
    BY <1>1, <1>2, <1>5, ChangeDoes
  <2>2. FraudInv(a) /\ There(CallAt(a, p))
    BY <1>1, <1>2, <1>5, <2>1, ChangeHandled DEF Handled, Good, Known, CallAt, p
  <2> HIDE DEF a
  <2>3. Apart(a, k) /\ k.calls = a.calls
    <3>1. CASE choice.detect
      BY <1>1, <1>3, <1>5, <2>1, <2>2, <3>1, SetupGood, AfKeeps
    <3>2. CASE ~choice.detect
      BY <1>3, <1>5, <3>2 DEF Apart, Plain
    <3> QED BY <3>1, <3>2
  <2>4. e.st = "ACTIVE" /\ e.type = r.type /\ Plain(m, k) /\ (There(c) => Apart(m, k))
    BY <1>2, <2>1, <2>3 DEF Apart, Plain, Known
  <2>5. ~Rings(e)
    BY <2>4 DEF Rings, RingingStates
  <2>6. Apart(n, k) /\ e.num = n.calls[r.slot][r.idx].num
    BY <2>1, <2>3 DEF Apart, Plain
  <2>7. Recalls(m, k, r, c, e)
    <3>1. NoNewDial(m, k) /\ \A x : Numbers(m, n, r, x) => Numbers(m, k, r, x)
      BY <1>2, <2>6, DialsThen
    <3> QED BY <1>2, <1>5, <2>6, <3>1 DEF Recalls, Known
  <2> QED BY <1>1, <2>4, <2>5, <2>7 DEF Does, k
<1> QED BY <1>4, <1>5

\* So does AlertHandle,
LEMMA AlertDoes ==
    ASSUME NEW m \in Managers, FraudInv(m), NEW r \in SoundReports, r.idx \in Indexes,
           r.st = "ALERTING"
    PROVE  Does(m, AlertHandle(m, r), r)
<1> DEFINE n == RefreshDialingStateByOtherState(m, r)
           k == AlertHandle(m, r)
           c == m.calls[r.slot][r.idx]
           b == n.calls[r.slot][r.idx]
           e == k.calls[r.slot][r.idx]
<1>1. r.num \in Nums /\ "ALERTING" \in States
  BY ReportTypes DEF States
<1>2. Plain(m, n) /\ n \in Managers /\ NoNewDial(m, n)
      /\ IF Known(m, r) \/ InitSlots(m) = {} THEN n = m
         ELSE /\ b.st = "DIALING"
              /\ IF There(m.calls[r.slot][InitIndex]) THEN Numbers(m, n, r, b.num) ELSE b.num = r.num
  BY <1>1, OtherDoes
<1>3. k = IF ~Known(n, r) \/ b.st = "DISCONNECTING" THEN n
          ELSE SetState(RefreshCallIfNecessary(n, r), r, "ALERTING")
  BY DEF AlertHandle
<1> HIDE DEF n, k
<1>4. CASE ~Known(n, r) \/ b.st = "DISCONNECTING"
  <2>1. k = m
    BY <1>2, <1>3, <1>4 DEF Known, There
  <2>2. IF There(c) THEN c.st = "DISCONNECTING" ELSE InitSlots(m) = {}
    BY <1>2, <1>4 DEF Known, There
  <2>3. Recalls(m, k, r, c, e)
    <3>1. ~There(c) => ~There(m.calls[r.slot][InitIndex])
      BY <2>2, ApartTypes DEF InitSlots
    <3> QED BY <2>1, <3>1 DEF Recalls, NoNewDial
  <2> QED BY <1>1, <2>1, <2>2, <2>3 DEF Does, Apart, Plain, k
<1>5. CASE ~(~Known(n, r) \/ b.st = "DISCONNECTING")
  <2>1. Apart(n, k) /\ e.st = "ALERTING" /\ e.type = r.type /\ e.num = b.num
    <3>1. Known(n, r) /\ n \in Managers
      BY <1>2, <1>5
    <3>2. k = SetState(RefreshCallIfNecessary(n, r), r, "ALERTING")
      BY <1>3, <1>5
    <3> QED BY <1>1, <3>1, <3>2, ChangeDoes
  <2>2. Plain(m, k) /\ (There(c) => Apart(m, k)) /\ ~Rings(e)
    BY <1>2, <2>1 DEF Apart, Plain, Known, Rings, RingingStates
  <2>3. Recalls(m, k, r, c, e)
    <3>1. There(m.calls[r.slot][InitIndex]) => InitSlots(m) # {}
      BY ApartTypes DEF InitSlots
    <3>2. ~There(c) => InitSlots(m) # {}
      BY <1>2, <1>5 DEF Known
    <3> QED BY <1>2, <2>1, <3>1, <3>2, DialsThen DEF Recalls, Known
  <2> QED BY <1>1, <2>1, <2>2, <2>3 DEF Does, k
<1> QED BY <1>4, <1>5

\* HoldingHandle,
LEMMA HoldingDoes ==
    ASSUME NEW m \in Managers, FraudInv(m), NEW r \in SoundReports, r.idx \in Indexes,
           r.st = "HOLDING", NEW choice \in Choices
    PROVE  Does(m, HoldingHandle(m, r, choice), r)
<1> DEFINE q == PauseAntiFraudDetect(m, <<r.slot, r.idx>>, choice.stop)
           k == SetState(RefreshCallIfNecessary(q, r), r, "HOLDING")
           e == k.calls[r.slot][r.idx]
<1>1. r.slot \in Slots /\ r.idx \in 0..MaxIdx /\ choice.stop \in StopAnswers
      /\ "HOLDING" \in States
  BY ApartTypes DEF Choices, States
<1>2. CASE ~Known(m, r)
  <2>1. HoldingHandle(m, r, choice) = m
    BY <1>2 DEF HoldingHandle
  <2> QED BY <1>2, <2>1 DEF Does, Apart, Plain, Known, Recalls, NoNewDial
<1>3. CASE Known(m, r)
  <2>1. q \in Managers /\ q = [m EXCEPT !.af = q.af]
    BY <1>1, PauseGood
  <2> HIDE DEF q
  <2>5. Apart(m, q) /\ q.calls = m.calls
    BY <2>1, AfKeeps
  <2>2. Apart(q, k) /\ e.st = "HOLDING" /\ e.type = r.type
        /\ e.num = m.calls[r.slot][r.idx].num
    <3>1. Known(q, r)
      BY <1>3, <2>5 DEF Known
    <3> QED BY <1>1, <2>1, <2>5, <3>1, ChangeDoes
  <2>3. HoldingHandle(m, r, choice) = k
    BY <1>3 DEF HoldingHandle, q
  <2> HIDE DEF k
  <2>4. Apart(m, k) /\ ~Rings(e)
    BY <2>2, <2>5 DEF Apart, Plain, Rings, RingingStates
  <2>6. Recalls(m, k, r, m.calls[r.slot][r.idx], e)
    BY <1>1, <1>3, <2>2, <2>4, DialsSame DEF Recalls, Known
  <2> QED BY <1>1, <2>2, <2>3, <2>4, <2>6 DEF Does, Apart
<1> QED BY <1>2, <1>3

\* DisconnectingHandle,
LEMMA DisconnectingDoes ==
    ASSUME NEW m \in Managers, FraudInv(m), NEW r \in SoundReports, r.idx \in Indexes,
           r.st = "DISCONNECTING", NEW choice \in Choices
    PROVE  Does(m, DisconnectingHandle(m, r, choice), r)
<1> DEFINE q == StopAntiFraudDetect(m, <<r.slot, r.idx>>, choice.stop)
           k == SetState(RefreshCallIfNecessary(q, r), r, "DISCONNECTING")
           e == k.calls[r.slot][r.idx]
<1>1. choice.stop \in StopAnswers /\ "DISCONNECTING" \in States
  BY DEF Choices, States
<1>2. CASE ~Known(m, r)
  <2>1. DisconnectingHandle(m, r, choice) = m
    BY <1>2 DEF DisconnectingHandle
  <2> QED BY <1>2, <2>1 DEF Does, Apart, Plain, Known, Recalls, NoNewDial
<1>3. CASE Known(m, r)
  <2>1. q \in Managers /\ Apart(m, q) /\ Known(q, r)
        /\ q.calls[r.slot][r.idx].num = m.calls[r.slot][r.idx].num
    BY <1>1, <1>3, StopKeeps DEF Known, There
  <2> HIDE DEF q
  <2>2. Apart(q, k) /\ e.st = "DISCONNECTING" /\ e.type = r.type
        /\ e.num = q.calls[r.slot][r.idx].num
    BY <1>1, <2>1, ChangeDoes
  <2>3. DisconnectingHandle(m, r, choice) = k
    BY <1>3 DEF DisconnectingHandle, q
  <2> HIDE DEF k
  <2>4. Apart(m, k) /\ ~Rings(e)
    BY <2>1, <2>2 DEF Apart, Plain, Rings, RingingStates
  <2>5. Recalls(m, k, r, m.calls[r.slot][r.idx], e)
    BY <1>1, <1>3, <2>1, <2>2, <2>4, DialsSame DEF Recalls, Known
  <2> QED BY <1>1, <2>2, <2>3, <2>4, <2>5 DEF Does, Apart
<1> QED BY <1>2, <1>3

\* DISCONNECTED reports, numbered or not, leave the queue and the refused calls alone.
LEMMA GonePlain ==
    ASSUME NEW m \in Managers, NEW r, NEW choice
    PROVE  Plain(m, DisconnectedHandle(m, r, choice))
<1> DEFINE n == RefreshDialingStateByOtherState(m, r)
           q == StopAntiFraudDetect(n, <<r.slot, r.idx>>, choice.stop)
           k == [q EXCEPT !.calls[r.slot][r.idx] = NoCall]
<1>1. DOMAIN n = DOMAIN m /\ n.queue = m.queue /\ n.screened = m.screened
  BY DEF Managers, RefreshDialingStateByOtherState, DialingHandle, UpdateDialingCallInfo,
         RefreshCallIfNecessary, Put
<1>2. DOMAIN n = {"calls", "queue", "details", "af", "screened"}
  BY <1>1 DEF Managers
<1> HIDE DEF n
<1>3. DOMAIN q = DOMAIN n /\ q.queue = n.queue /\ q.screened = n.screened
  BY <1>2 DEF StopAntiFraudDetect, SetAf, StopAntiFraudService
<1> HIDE DEF q
<1>4. k.queue = n.queue /\ k.screened = n.screened
  BY <1>2, <1>3
<1> QED BY <1>1, <1>4 DEF DisconnectedHandle, Plain, n, q

\* Those of listed calls bring no dial.
LEMMA GoneDials ==
    ASSUME NEW m \in Managers, NEW r \in SoundReports, r.idx \in Indexes, NEW choice
    PROVE  NoNewDial(m, DisconnectedHandle(m, r, choice))
<1> DEFINE Tabled(x) == /\ DOMAIN x = {"calls", "queue", "details", "af", "screened"}
                        /\ DOMAIN x.calls = Slots
                        /\ \A t \in Slots : DOMAIN x.calls[t] = 0..MaxIdx
           n == RefreshDialingStateByOtherState(m, r)
           q == StopAntiFraudDetect(n, <<r.slot, r.idx>>, choice.stop)
           k == [q EXCEPT !.calls[r.slot][r.idx] = NoCall]
<1>1. r.slot \in Slots /\ r.idx \in 0..MaxIdx /\ r.idx # InitIndex /\ InitIndex \in 0..MaxIdx
  BY ApartTypes, PlaceTypes
<1>2. \A x \in Managers : Tabled(x)
  BY DEF Managers, Tables
<1>3. Tabled(n) /\ NoNewDial(m, n)
  <2>1. CASE Known(m, r) \/ InitSlots(m) = {}
    BY <1>2, <2>1 DEF RefreshDialingStateByOtherState, NoNewDial
  <2>2. CASE ~(Known(m, r) \/ InitSlots(m) = {}) /\ There(m.calls[r.slot][InitIndex])
    <3>1. n = UpdateDialingCallInfo(m, r)
      BY <1>1, <2>2, PlaceTypes DEF RefreshDialingStateByOtherState, DialingHandle, InitIndex
    <3> QED BY <1>2, <2>2, <3>1, NumberDoes
  <2>3. CASE ~(Known(m, r) \/ InitSlots(m) = {}) /\ ~There(m.calls[r.slot][InitIndex])
    <3> DEFINE d == [st |-> "DIALING", type |-> r.type, num |-> r.num, af |-> "DEFAULT"]
    <3>1. n = [m EXCEPT !.calls[r.slot][r.idx] = d]
      BY <2>3 DEF RefreshDialingStateByOtherState, DialingHandle, Put
    <3> HIDE DEF n, d
    <3> QED BY <1>1, <3>1 DEF Managers, Tables, NoNewDial
  <2> QED BY <2>1, <2>2, <2>3
<1> HIDE DEF n
<1>4. Tabled(q) /\ \A t \in Slots : q.calls[t][InitIndex] = n.calls[t][InitIndex]
  <2>1. CASE n.af.latch # <<r.slot, r.idx>>
    BY <1>3, <2>1 DEF StopAntiFraudDetect
  <2>2. CASE n.af.latch = <<r.slot, r.idx>>
    <3> DEFINE y == [StopAntiFraudService(n, <<r.slot, r.idx>>, choice.stop) EXCEPT !.af.latch = NoPlace]
    <3>1. q = SetAf(y, <<r.slot, r.idx>>, "STOPPED")
      BY <2>2 DEF StopAntiFraudDetect
    <3>2. Tabled(y) /\ y.calls = n.calls
      BY <1>3 DEF StopAntiFraudService
    <3> HIDE DEF y, q
    <3> QED BY <1>1, <3>1, <3>2 DEF SetAf
  <2> QED BY <2>1, <2>2
<1> HIDE DEF q
<1>5. \A t \in Slots : k.calls[t][InitIndex] = q.calls[t][InitIndex]
  BY <1>1, <1>4
<1>6. DisconnectedHandle(m, r, choice) \in {n, k}
  BY DEF DisconnectedHandle, n, q
<1> HIDE DEF k
<1> QED BY <1>3, <1>4, <1>5, <1>6 DEF NoNewDial

\* and DisconnectedHandle, after which there is no call.
LEMMA DisconnectedDoes ==
    ASSUME NEW m \in Managers, FraudInv(m), NEW r \in SoundReports, r.idx \in Indexes,
           r.st = "DISCONNECTED", NEW choice \in Choices
    PROVE  Does(m, DisconnectedHandle(m, r, choice), r)
<1> DEFINE k == DisconnectedHandle(m, r, choice)
           q == StopAntiFraudDetect(m, <<r.slot, r.idx>>, choice.stop)
           e == k.calls[r.slot][r.idx]
<1>1. Plain(m, k)
  BY GonePlain
<1>2. ~There(e)
  BY DisconnectedHandled DEF Known
<1>3. ASSUME Known(m, r) PROVE Apart(m, k)
  <2>1. choice.stop \in StopAnswers
    BY DEF Choices
  <2>2. RefreshDialingStateByOtherState(m, r) = m
    BY <1>3 DEF RefreshDialingStateByOtherState
  <2>3. k = Write(q, r.slot, r.idx, NoCall)
    BY <1>3, <2>2 DEF DisconnectedHandle, Write
  <2>4. q \in Managers /\ Apart(m, q)
    BY <2>1, StopKeeps
  <2> HIDE DEF k, q
  <2>5. Apart(q, k)
    BY <2>3, <2>4, ApartTypes, CallTypes, WriteApart
  <2> QED BY <2>4, <2>5 DEF Apart, Plain
<1>4. ~Rings(e)
  BY <1>2, StepFacts
<1>5. NoNewDial(m, k)
  BY GoneDials
<1> HIDE DEF k
<1> QED BY <1>1, <1>2, <1>3, <1>4, <1>5 DEF Does, Known, Recalls, k

\* A report of a ringing call; giving up the dial queues a report under index 0.
LEMMA FailDialsDoes ==
    ASSUME NEW m \in Managers, FraudInv(m)
    PROVE  LET n == DealFailDials(m)
           IN /\ n \in Managers /\ FraudInv(n) /\ n.calls = m.calls /\ n.screened = m.screened
              /\ Singles(m.queue) => Singles(n.queue)
              /\ Ending(m.queue, n.queue)
<1> DEFINE n == DealFailDials(m)
           t == CHOOSE t \in InitSlots(m) : TRUE
           c == m.calls[t][InitIndex]
           r == Report(t, InitIndex, "DISCONNECTED", c.type, c.num)
<1>1. n \in Managers /\ FraudInv(n) /\ n.calls = m.calls
  BY FailDialsHandled
<1>2. n.screened = m.screened /\ n.queue \in {m.queue, Append(m.queue, r)}
  BY DEF DealFailDials, Managers
<1>3. r.idx = InitIndex /\ r.st = "DISCONNECTED"
  BY DEF Report
<1> HIDE DEF n, r
<1>4. m.queue \in Seq(Lists \cup SoundReports)
  BY DEF Managers
<1>5. ASSUME n.queue = Append(m.queue, r)
      PROVE  (Singles(m.queue) => Singles(n.queue)) /\ Ending(m.queue, n.queue)
  <2>1. /\ Len(m.queue) \in Nat /\ Len(n.queue) = Len(m.queue) + 1
        /\ n.queue[Len(m.queue) + 1] = r
        /\ \A k \in 1..Len(m.queue) : n.queue[k] = m.queue[k]
    BY <1>4, <1>5
  <2> QED BY <1>3, <2>1 DEF Singles, Ending
<1>6. Ending(m.queue, m.queue)
  BY DEF Ending
<1> QED BY <1>1, <1>2, <1>5, <1>6 DEF n

\* IncomingHandle: the call is put into the table, refreshed or refused.
LEMMA IncomingDoes ==
    ASSUME NEW m \in Managers, FraudInv(m), NEW r \in SoundReports, r.idx \in Indexes,
           r.st \in RingingStates, NEW choice \in Choices
    PROVE  DoesRing(m, IncomingHandle(m, r, choice), r, choice.show)
<1> DEFINE n == DealFailDials(m)
           k == IncomingHandle(m, r, choice)
           p == <<r.slot, r.idx>>
           c == m.calls[r.slot][r.idx]
           e == k.calls[r.slot][r.idx]
           put == Put(n, r, r.st)
<1>1. r.num \in Nums /\ r.st \in States
  BY ReportTypes DEF RingingStates, States
<1>2. n \in Managers /\ FraudInv(n) /\ n.calls = m.calls /\ n.screened = m.screened
      /\ (Singles(m.queue) => Singles(n.queue)) /\ Ending(m.queue, n.queue)
  BY FailDialsDoes
<1>3. k = IF Known(n, r) THEN RefreshOldCall(n, r)
          ELSE IF choice.show
          THEN [put EXCEPT !.screened = {x \in @ : x.place # p}]
          ELSE [n EXCEPT !.screened = @ \cup {[place |-> p, num |-> r.num]}]
  BY DEF IncomingHandle
<1>4. Known(n, r) <=> There(c)
  BY <1>2 DEF Known
<1> HIDE DEF n, k, p
<1>5. CASE There(c)
  <2>1. CASE c.type = r.type
    <3>1. k = n
      BY <1>2, <1>3, <1>4, <1>5, <2>1 DEF RefreshOldCall
    <3> QED BY <1>2, <1>5, <2>1, <3>1 DEF DoesRing, k
  <2>2. CASE c.type # r.type
    <3>1. k = SetState(RefreshCallIfNecessary(n, r), r, r.st)
      BY <1>2, <1>3, <1>4, <1>5, <2>2 DEF RefreshOldCall
    <3>2. /\ Apart(n, SetState(RefreshCallIfNecessary(n, r), r, r.st))
          /\ LET d == SetState(RefreshCallIfNecessary(n, r), r, r.st).calls[r.slot][r.idx]
             IN d.st = r.st /\ d.type = r.type /\ d.num = n.calls[r.slot][r.idx].num
      BY <1>1, <1>2, <1>4, <1>5, ChangeDoes
    <3>3. Apart(n, k) /\ e.st = r.st /\ e.type = r.type /\ e.num = c.num
      BY <1>2, <3>1, <3>2
    <3> QED BY <1>2, <1>5, <3>3 DEF DoesRing, Apart, Plain, k
  <2> QED BY <2>1, <2>2
<1>6. CASE ~There(c) /\ choice.show
  <2>1. /\ Apart(n, put) /\ put \in Managers
        /\ put.calls[r.slot][r.idx].st = r.st /\ put.calls[r.slot][r.idx].type = r.type
        /\ put.calls[r.slot][r.idx].num = r.num
    BY <1>1, <1>2, PutDoes
  <2>2. k = [put EXCEPT !.screened = {x \in @ : x.place # p}]
    BY <1>3, <1>4, <1>6
  <2> HIDE DEF put
  <2>3. k.calls = put.calls /\ k.queue = put.queue /\ k.screened = {x \in put.screened : x.place # p}
    BY <2>1, <2>2 DEF Managers
  <2> QED BY <1>2, <1>6, <2>1, <2>3 DEF DoesRing, Apart, Plain, k, p
<1>7. CASE ~There(c) /\ ~choice.show
  <2>1. k = [n EXCEPT !.screened = @ \cup {[place |-> p, num |-> r.num]}]
    BY <1>3, <1>4, <1>7
  <2>2. k.calls = n.calls /\ k.queue = n.queue
        /\ k.screened = n.screened \cup {[place |-> p, num |-> r.num]}
    BY <1>2, <2>1 DEF Managers
  <2> QED BY <1>2, <1>7, <2>2 DEF DoesRing, k, p
<1> QED BY <1>5, <1>6, <1>7

\* What any report of a listed call does.
LEMMA ReportDoes ==
    ASSUME NEW m \in Managers, FraudInv(m), NEW r \in SoundReports, r.idx \in Indexes,
           NEW choice \in Choices
    PROVE  IF Rings(r) THEN DoesRing(m, HandleCallReportInfo(m, r, choice), r, choice.show)
           ELSE Does(m, HandleCallReportInfo(m, r, choice), r)
<1>1. r.st \in States \cup {"DISCONNECTED"}
  BY ReportTypes
<1>2. CASE r.st = "ACTIVE"
  BY <1>2, ActiveDoes DEF HandleCallReportInfo, RingingStates, Rings
<1>3. CASE r.st = "HOLDING"
  BY <1>3, HoldingDoes DEF HandleCallReportInfo, RingingStates, Rings
<1>4. CASE r.st = "DIALING"
  <2> DEFINE k == DialingHandle(m, r)
             c == m.calls[r.slot][r.idx]
             e == k.calls[r.slot][r.idx]
  <2>1. r.num \in Nums /\ HandleCallReportInfo(m, r, choice) = k
    BY <1>4, ReportTypes DEF HandleCallReportInfo, RingingStates
  <2>2. /\ Plain(m, k) /\ e.type = r.type /\ NoNewDial(m, k)
        /\ There(c) => Apart(m, k) /\ e.st = c.st /\ e.num = c.num
        /\ ~There(c) => /\ e.st = "DIALING"
                        /\ IF There(m.calls[r.slot][InitIndex])
                           THEN Numbers(m, k, r, e.num) ELSE e.num = r.num
    BY <2>1, DialingDoes
  <2> HIDE DEF k
  <2>3. Rings(e) => Rings(c) /\ e.num = c.num
    BY <2>2 DEF Rings, RingingStates
  <2>4. Recalls(m, k, r, c, e)
    BY <2>2 DEF Recalls
  <2> QED BY <1>4, <2>1, <2>2, <2>3, <2>4 DEF Does, Rings, RingingStates
<1>5. CASE r.st = "ALERTING"
  BY <1>5, AlertDoes DEF HandleCallReportInfo, RingingStates, Rings
<1>6. CASE r.st \in RingingStates
  BY <1>6, IncomingDoes DEF HandleCallReportInfo, RingingStates, Rings
<1>7. CASE r.st = "DISCONNECTING"
  BY <1>7, DisconnectingDoes DEF HandleCallReportInfo, RingingStates, Rings
<1>8. CASE r.st = "DISCONNECTED"
  BY <1>8, DisconnectedDoes DEF HandleCallReportInfo, RingingStates, Rings
<1> QED BY <1>1, <1>2, <1>3, <1>4, <1>5, <1>6, <1>7, <1>8 DEF States, RingingStates

\* A report under index 0 is about no listed call.
LEMMA InitReportDoes ==
    ASSUME NEW m \in Managers, NEW r \in SoundReports, r.idx = InitIndex, NEW choice
    PROVE  Plain(m, HandleCallReportInfo(m, r, choice))
<1>1. CASE r.st = "DIALING"
  BY <1>1 DEF HandleCallReportInfo, RingingStates, DialingHandle, InitIndex, Put, Plain, Managers
<1>2. CASE r.st = "DISCONNECTED"
  BY <1>2, GonePlain DEF HandleCallReportInfo, RingingStates
<1> QED BY <1>1, <1>2 DEF SoundReports
=============================================================================
