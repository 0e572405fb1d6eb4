------------------------ MODULE DsdaArbitrationProofs ------------------------
(***************************************************************************)
(* Proofs about DsdaArbitration.  The task, the report handlers and the    *)
(* user's requests all map a desk (the table and the requests sent) to     *)
(* another; each is shown Tidy: it keeps the types and the state of every  *)
(* call.  Which calls and states there are is settled by the reports:      *)
(* Accounts says how the queue makes up for every difference between the   *)
(* table and the modems, and the theorems at the end rest on it.           *)
(***************************************************************************)
EXTENDS DsdaArbitration, AscendingProofs, FiniteSetTheorems, SequenceTheorems

Tables == [Ids -> Calls \cup {NoCall}]
Desks == [calls: Tables, reqs: [Slots -> Seq(Requests)]]
ModemTables == [Ids -> ModemCalls \cup {NoCall}]

\* From k to n no call enters or leaves the table or changes its state.
SameCalls(t, u) == \A c \in Ids : u[c].st = t[c].st
Tidy(k, n) == n \in Desks /\ SameCalls(k.calls, n.calls)
-----------------------------------------------------------------------------
(* Calls, counts and searches *)

\* A place of the table holds a call or NoCall, and There tells which.
LEMMA CallIs ==
  ASSUME NEW t \in Tables, NEW c \in Ids
  PROVE  /\ There(t[c]) => t[c] \in Calls
         /\ ~There(t[c]) => t[c] = NoCall
         /\ t[c].st # "NONE" <=> There(t[c])
  <1>1. t[c] \in Calls \cup {NoCall}
    BY DEF Tables
  <1>2. ~There(NoCall)
    BY DEF There, NoCall
  <1>3. \A x \in Calls : There(x)
    BY DEF Calls, States, RingingStates, There
  <1> QED BY <1>1, <1>2, <1>3 DEF There

\* The same of the modems' tables.
LEMMA ModemCallIs ==
  ASSUME NEW m \in ModemTables, NEW c \in Ids
  PROVE  /\ There(m[c]) => m[c] \in ModemCalls
         /\ ~There(m[c]) => m[c] = NoCall
         /\ m[c].st # "NONE" <=> There(m[c])
  <1>1. m[c] \in ModemCalls \cup {NoCall}
    BY DEF ModemTables
  <1>2. ~There(NoCall)
    BY DEF There, NoCall
  <1>3. \A x \in ModemCalls : There(x)
    BY DEF ModemCalls, There
  <1> QED BY <1>1, <1>2, <1>3 DEF There

\* First picks a member.
LEMMA FirstIn ==
  ASSUME NEW S \in SUBSET Nat, S # {}
  PROVE  First(S) \in S
  <1>1. PICK n \in S : \A m \in S : n <= m
    BY LeastMember
  <1> QED BY <1>1 DEF First, Min

\* A set of numbers up to MaxCalls has a greatest.
LEMMA LastIn ==
  ASSUME NEW S \in SUBSET (0..MaxCalls), S # {}
  PROVE  Max(S) \in S
  <1>1. MaxCalls \in Nat
    BY ArbitrationAssumption
  <1> DEFINE D == {MaxCalls - x : x \in S}
  <1>2. D \in SUBSET Nat /\ D # {}
    <2>1. \A x \in S : x \in 0..MaxCalls
      OBVIOUS
    <2>2. \A x \in S : MaxCalls - x \in Nat
      BY <1>1, <2>1
    <2> QED BY <2>2
  <1>3. PICK d \in D : \A m \in D : d <= m
    BY <1>2, LeastMember
  <1>4. PICK x \in S : d = MaxCalls - x
    BY <1>3
  <1>5. \A y \in S : x >= y
    <2>1. TAKE y \in S
    <2>2. MaxCalls - y \in D
      OBVIOUS
    <2>3. MaxCalls - x <= MaxCalls - y
      BY <1>3, <1>4, <2>2
    <2>4. x \in Int /\ y \in Int
      OBVIOUS
    <2> QED BY <1>1, <2>3, <2>4
  <1> QED BY <1>5 DEF Max

\* HoldCallOf returns a held call, or 0.
LEMMA HoldIs ==
  ASSUME NEW k \in Desks
  PROVE  HoldCallOf(k) # 0 => /\ HoldCallOf(k) \in Ids
                              /\ k.calls[HoldCallOf(k)].st = "HOLDING"
                              /\ There(k.calls[HoldCallOf(k)])
  <1> DEFINE S == {0} \cup {c \in Ids : k.calls[c].st = "HOLDING"}
  <1>1. S \in SUBSET (0..MaxCalls) /\ S # {}
    BY ArbitrationAssumption DEF Ids
  <1>2. HoldCallOf(k) \in S
    BY <1>1, LastIn DEF HoldCallOf
  <1> QED BY <1>2 DEF There

\* A count is at most MaxCalls.
LEMMA CountIs ==
  ASSUME NEW k, NEW st
  PROVE  GetCallNum(k, st) \in 0..MaxCalls
  <1> DEFINE S == {c \in Ids : k.calls[c].st = st}
  <1>1. MaxCalls \in Nat
    BY ArbitrationAssumption
  <1>2. IsFiniteSet(Ids) /\ Cardinality(Ids) = MaxCalls
    BY <1>1, FS_Interval DEF Ids
  <1>3. S \in SUBSET Ids
    OBVIOUS
  <1>4. IsFiniteSet(S) /\ Cardinality(S) <= MaxCalls
    BY <1>2, <1>3, FS_Subset
  <1>5. Cardinality(S) \in Nat
    BY <1>4, FS_CardinalityType
  <1>6. GetCallNum(k, st) = Cardinality(S)
    BY DEF GetCallNum
  <1> QED BY <1>1, <1>4, <1>5, <1>6

\* Listed lists the members of a set of calls, each once.
LEMMA ListedIs ==
  ASSUME NEW S \in SUBSET Ids
  PROVE  /\ Listed(S) \in Seq(S)
         /\ Listed(S) \in Seq(Ids)
         /\ Len(Listed(S)) \in Nat /\ DOMAIN Listed(S) = 1..Len(Listed(S))
         /\ \A i \in 1..Len(Listed(S)) : Listed(S)[i] \in S
  <1>1. S \cap 1..MaxCalls = S /\ MaxCalls \in Nat
    BY ArbitrationAssumption DEF Ids
  <1>2. Listed(S) \in Seq(S)
    BY <1>1, AscendingEnumerates DEF Listed, Enumerates
  <1>3. Listed(S) \in Seq(Ids)
    BY <1>2, SeqMonotonic
  <1> QED BY <1>2, <1>3, LenProperties, ElementOfSeq
-----------------------------------------------------------------------------
(* Desks *)

\* A desk has its types, and no other fields.
LEMMA DeskIs ==
  ASSUME NEW k \in Desks
  PROVE  /\ k.calls \in Tables /\ k.reqs \in [Slots -> Seq(Requests)]
         /\ Tidy(k, k)
  BY DEF Desks, Tidy, SameCalls

\* Tidy composes.
LEMMA TidyTrans ==
  ASSUME NEW k, NEW n, NEW o, Tidy(k, n), Tidy(n, o)
  PROVE  Tidy(k, o)
  BY DEF Tidy, SameCalls

\* Writing another call record where a call is.
LEMMA WriteTidy ==
  ASSUME NEW k \in Desks, NEW c \in Ids, There(k.calls[c]), NEW x \in Calls,
         x.st = k.calls[c].st
  PROVE  Tidy(k, [k EXCEPT !.calls[c] = x])
  <1>2. [k EXCEPT !.calls[c] = x] \in Desks
    BY DEF Desks, Tables
  <1>3. [k EXCEPT !.calls[c] = x].calls = [k.calls EXCEPT ![c] = x]
    BY DEF Desks
  <1>4. \A d \in Ids : [k.calls EXCEPT ![c] = x][d] = IF d = c THEN x ELSE k.calls[d]
    BY DEF Desks, Tables
  <1> QED BY <1>2, <1>3, <1>4 DEF Tidy, SameCalls

\* Writing the requests.
LEMMA RequestsTidy ==
  ASSUME NEW k \in Desks, NEW q \in [Slots -> Seq(Requests)]
  PROVE  Tidy(k, [k EXCEPT !.reqs = q])
  BY DEF Desks, Tidy, SameCalls
-----------------------------------------------------------------------------
(* What the operators of the table do *)

\* A request is sent for a call on its slot.
LEMMA SendTidy ==
  ASSUME NEW k \in Desks, NEW c \in Ids, NEW slot \in Slots,
         NEW op \in {"answer", "hold", "unhold", "hangup", "hangupActive"}
  PROVE  Tidy(k, Send(k, op, c, slot)) /\ Send(k, op, c, slot).calls = k.calls
  <1> DEFINE r == [op |-> op, call |-> c]
             q == [k.reqs EXCEPT ![slot] = Append(@, r)]
  <1>1. r \in Requests
    BY DEF Requests
  <1>2. q \in [Slots -> Seq(Requests)]
    BY <1>1, DeskIs
  <1>3. Send(k, op, c, slot) = [k EXCEPT !.reqs = q]
    BY DEF Send, Desks
  <1>4. [k EXCEPT !.reqs = q].calls = k.calls
    BY DEF Desks
  <1> QED BY <1>2, <1>3, <1>4, RequestsTidy

\* Ending, holding and resuming a call of the table.
LEMMA AskTidy ==
  ASSUME NEW k \in Desks, NEW c \in Ids, There(k.calls[c])
  PROVE  /\ Tidy(k, HangUpCall(k, c)) /\ HangUpCall(k, c).calls = k.calls
         /\ Tidy(k, HoldCall(k, c)) /\ HoldCall(k, c).calls = k.calls
         /\ Tidy(k, UnHoldCall(k, c)) /\ UnHoldCall(k, c).calls = k.calls
  <1>1. k.calls[c].slot \in Slots
    BY DeskIs, CallIs DEF Calls
  <1> QED BY <1>1, SendTidy DEF HangUpCall, HoldCall, UnHoldCall

\* Marking a call, or clearing its mark.
LEMMA MarkTidy ==
  ASSUME NEW k \in Desks, NEW c \in Ids, NEW b \in BOOLEAN
  PROVE  Tidy(k, SetAutoAnswerState(k, c, b))
  <1>1. CASE ~There(k.calls[c])
    BY <1>1, DeskIs DEF SetAutoAnswerState
  <1>2. CASE There(k.calls[c])
    <2>1. /\ [k.calls[c] EXCEPT !.auto = b] \in Calls
          /\ [k.calls[c] EXCEPT !.auto = b].st = k.calls[c].st
      <3>1. k.calls[c] \in Calls
        BY <1>2, DeskIs, CallIs
      <3> QED BY <3>1 DEF Calls
    <2>2. SetAutoAnswerState(k, c, b) = [k EXCEPT !.calls[c] = [k.calls[c] EXCEPT !.auto = b]]
      BY <1>2 DEF SetAutoAnswerState, Desks
    <2> QED BY <1>2, <2>1, <2>2, WriteTidy, ZenonT(40)
  <1> QED BY <1>1, <1>2

\* Answering a call, whether it rings or not.
LEMMA AnswerTidy ==
  ASSUME NEW k \in Desks, NEW c \in Ids
  PROVE  /\ Tidy(k, AnswerCall(k, c))
         /\ Tidy(k, AnswerNow(k, c))
  <1>1. Tidy(k, AnswerCall(k, c))
    <2>1. CASE Rings(k.calls[c])
      <3>1. There(k.calls[c])
        BY <2>1 DEF Rings, RingingStates, There
      <3>2. k.calls[c].slot \in Slots
        BY <3>1, DeskIs, CallIs DEF Calls
      <3> QED BY <2>1, <3>2, SendTidy DEF AnswerCall
    <2>2. CASE ~Rings(k.calls[c])
      BY <2>2, DeskIs DEF AnswerCall
    <2> QED BY <2>1, <2>2
  <1>2. AnswerCall(k, c) \in Desks
    BY <1>1 DEF Tidy
  <1>3. Tidy(AnswerCall(k, c), AnswerNow(k, c))
    BY <1>2, MarkTidy DEF AnswerNow
  <1> QED BY <1>1, <1>3, TidyTrans

\* Ending all calls of a set.
LEMMA HangUpAllTidy ==
  ASSUME NEW k \in Desks, NEW S \in SUBSET Ids
  PROVE  Tidy(k, HangUpAll(k, S))
  <1> DEFINE mine(s) == Listed({c \in S : k.calls[c].slot = s})
             asks(s) == [i \in DOMAIN mine(s) |-> [op |-> "hangup", call |-> mine(s)[i]]]
             q == [s \in Slots |-> k.reqs[s] \o asks(s)]
  <1>1. ASSUME NEW s \in Slots PROVE asks(s) \in Seq(Requests)
    <2>1. {c \in S : k.calls[c].slot = s} \in SUBSET Ids
      OBVIOUS
    <2>2. /\ Len(mine(s)) \in Nat /\ DOMAIN mine(s) = 1..Len(mine(s))
          /\ \A i \in 1..Len(mine(s)) : mine(s)[i] \in Ids
      BY <2>1, ListedIs
    <2> HIDE DEF mine
    <2>3. \A i \in 1..Len(mine(s)) : [op |-> "hangup", call |-> mine(s)[i]] \in Requests
      BY <2>2 DEF Requests
    <2> QED BY <2>2, <2>3
  <1>2. q \in [Slots -> Seq(Requests)]
    <2>1. \A s \in Slots : k.reqs[s] \in Seq(Requests)
      BY DeskIs
    <2> HIDE DEF asks
    <2> QED BY <1>1, <2>1, ConcatProperties
  <1>3. HangUpAll(k, S) = [k EXCEPT !.reqs = q]
    BY DEF HangUpAll
  <1> QED BY <1>2, <1>3, RequestsTidy

\* With three calls the held one loses its right to be resumed.
LEMMA DsdaInfoTidy ==
  ASSUME NEW k \in Desks, NEW slot
  PROVE  Tidy(k, HandleDsdaInfo(k, slot))
  <1> DEFINE hold == HoldCallOf(k)
  <1>1. CASE hold # 0
    <2>1. hold \in Ids /\ There(k.calls[hold])
      BY <1>1, HoldIs
    <2> HIDE DEF hold
    <2>2. /\ [k.calls[hold] EXCEPT !.canUnHold = FALSE] \in Calls
          /\ [k.calls[hold] EXCEPT !.canUnHold = FALSE].st = k.calls[hold].st
      <3>1. k.calls[hold] \in Calls
        BY <2>1, DeskIs, CallIs
      <3> QED BY <3>1 DEF Calls
    <2>3. [k EXCEPT !.calls[hold].canUnHold = FALSE]
            = [k EXCEPT !.calls[hold] = [k.calls[hold] EXCEPT !.canUnHold = FALSE]]
      BY DEF Desks
    <2>4. HandleDsdaInfo(k, slot) \in {k, [k EXCEPT !.calls[hold].canUnHold = FALSE]}
      BY DEF HandleDsdaInfo, hold
    <2>5. Tidy(k, [k EXCEPT !.calls[hold] = [k.calls[hold] EXCEPT !.canUnHold = FALSE]])
      BY <2>1, <2>2, WriteTidy
    <2> QED BY <2>3, <2>4, <2>5, DeskIs
  <1>2. CASE hold = 0
    BY <1>2, DeskIs DEF HandleDsdaInfo
  <1> QED BY <1>1, <1>2
-----------------------------------------------------------------------------
(* The arbitration of one other call *)

\* What the loop knows, and what it returns for one call.
Jobs == [call: Ids, slot: Slots, active: 0..MaxCalls, waiting: 0..MaxCalls,
         held: BOOLEAN, flag: BOOLEAN]
Settles(k, o) == Tidy(k, o.k) /\ o.held \in BOOLEAN /\ o.flag \in BOOLEAN

\* A tidy desk with the flags of the job, or with a hold.
LEMMA ResultSettles ==
  ASSUME NEW k, NEW n, Tidy(k, n), NEW w \in Jobs
  PROVE  Settles(k, Result(n, w))
  <1>1. w.held \in BOOLEAN /\ w.flag \in BOOLEAN
    BY DEF Jobs
  <1> QED BY <1>1 DEF Settles, Result

\* Holding one more call.
LEMMA HoldingSettles ==
  ASSUME NEW k, NEW n, Tidy(k, n), NEW x \in Ids, There(n.calls[x]), NEW w \in Jobs
  PROVE  Settles(k, Holding(n, x, w))
  <1>1. n \in Desks
    BY DEF Tidy
  <1>2. Tidy(k, HoldCall(n, x))
    BY <1>1, AskTidy, TidyTrans
  <1>3. w.flag \in BOOLEAN
    BY DEF Jobs
  <1> QED BY <1>2, <1>3 DEF Settles, Holding

\* The held call, or the dialled one, is ended first.
LEMMA EndedTidy ==
  ASSUME NEW k \in Desks, NEW x \in Ids, There(k.calls[x]), HoldCallOf(k) # 0, NEW b, NEW d
  PROVE  LET ended == IF d THEN HangUpCall(k, x)
                      ELSE IF b THEN HangUpCall(k, HoldCallOf(k)) ELSE k
         IN Tidy(k, ended) /\ ended.calls = k.calls
  <1>1. Tidy(k, HangUpCall(k, x)) /\ HangUpCall(k, x).calls = k.calls
    BY AskTidy
  <1>2. Tidy(k, HangUpCall(k, HoldCallOf(k))) /\ HangUpCall(k, HoldCallOf(k)).calls = k.calls
    BY AskTidy, HoldIs
  <1> QED BY <1>1, <1>2, DeskIs

\* The three cases of the loop, by how many calls are waiting.
LEMMA WaitingZero ==
  ASSUME NEW k \in Desks, NEW x \in Ids, There(k.calls[x]), NEW w \in Jobs
  PROVE  Settles(k, HandleCallWaitingNumZero(k, x, w))
  <1>1. CASE HoldCallOf(k) # 0
    <2> DEFINE ended == IF Dials(k, x) THEN HangUpCall(k, x)
                        ELSE IF w.active > 0 THEN HangUpCall(k, HoldCallOf(k)) ELSE k
    <2>1. Tidy(k, ended) /\ ended.calls = k.calls
      BY <1>1, EndedTidy
    <2>2. HandleCallWaitingNumZero(k, x, w) \in {Holding(ended, x, w), Result(ended, w)}
      BY <1>1 DEF HandleCallWaitingNumZero
    <2> HIDE DEF ended
    <2>3. Settles(k, Holding(ended, x, w))
      BY <2>1, HoldingSettles
    <2>4. Settles(k, Result(ended, w))
      BY <2>1, ResultSettles
    <2> QED BY <2>2, <2>3, <2>4
  <1>2. CASE HoldCallOf(k) = 0
    <2>1. HandleCallWaitingNumZero(k, x, w)
            \in {Result(HangUpCall(k, x), w), Holding(k, x, w),
                 Result(AnswerNow(k, w.call), w), Result(k, w)}
      BY <1>2 DEF HandleCallWaitingNumZero
    <2>2. w.call \in Ids
      BY DEF Jobs
    <2>3. Tidy(k, HangUpCall(k, x)) /\ Tidy(k, AnswerNow(k, w.call)) /\ Tidy(k, k)
      BY <2>2, AskTidy, AnswerTidy, DeskIs
    <2>4. Settles(k, Holding(k, x, w))
      BY <2>3, HoldingSettles
    <2> QED BY <2>1, <2>3, <2>4, ResultSettles
  <1> QED BY <1>1, <1>2

\* One call waits and another is held: the held call gives way.
LEMMA WaitingOneNext ==
  ASSUME NEW k \in Desks, NEW x \in Ids, There(k.calls[x]), NEW w \in Jobs,
         HoldCallOf(k) # 0
  PROVE  Settles(k, HandleCallWaitingNumOneNext(k, x, w))
  <1> DEFINE drop == ~Dials(k, x) /\ GetCallNum(k, "ACTIVE") > 0
             ended == IF Dials(k, x) THEN HangUpCall(k, x)
                      ELSE IF drop THEN HangUpCall(k, HoldCallOf(k)) ELSE k
             v == [w EXCEPT !.flag = @ \/ drop]
  <1>1. Tidy(k, ended) /\ ended.calls = k.calls
    BY EndedTidy
  <1>2. v \in Jobs
    <2>1. (w.flag \/ drop) \in BOOLEAN
      OBVIOUS
    <2> HIDE DEF drop
    <2> QED BY <2>1 DEF Jobs
  <1>3. HandleCallWaitingNumOneNext(k, x, w)
          \in {Result(HangUpCall(ended, x), v), Holding(ended, x, v),
               Result(AnswerNow(ended, w.call), v), Result(ended, v)}
    BY DEF HandleCallWaitingNumOneNext
  <1> HIDE DEF ended, v
  <1>4. ended \in Desks /\ w.call \in Ids
    BY <1>1 DEF Tidy, Jobs
  <1>5. Tidy(k, HangUpCall(ended, x)) /\ Tidy(k, AnswerNow(ended, w.call))
    BY <1>1, <1>4, AskTidy, AnswerTidy, TidyTrans
  <1>6. Settles(k, Holding(ended, x, v))
    BY <1>1, <1>2, HoldingSettles
  <1> QED BY <1>1, <1>2, <1>3, <1>5, <1>6, ResultSettles

\* One call waits.
LEMMA WaitingOne ==
  ASSUME NEW k \in Desks, NEW x \in Ids, There(k.calls[x]), NEW w \in Jobs
  PROVE  Settles(k, HandleCallWaitingNumOne(k, x, w))
  <1> DEFINE v == [w EXCEPT !.flag = FALSE]
  <1>1. v \in Jobs
    BY DEF Jobs
  <1>2. CASE HoldCallOf(k) # 0
    BY <1>2, WaitingOneNext DEF HandleCallWaitingNumOne
  <1>3. HoldCallOf(k) = 0 =>
          HandleCallWaitingNumOne(k, x, w)
            \in {HandleCallWaitingNumZero(k, x, w), Result(k, w), Holding(k, x, v),
                 Result(HangUpCall(k, x), w), Holding(k, x, w)}
    BY DEF HandleCallWaitingNumOne
  <1> HIDE DEF v
  <1>4. Tidy(k, k) /\ Tidy(k, HangUpCall(k, x))
    BY AskTidy, DeskIs
  <1>5. Settles(k, Holding(k, x, v)) /\ Settles(k, Holding(k, x, w))
    BY <1>1, <1>4, HoldingSettles
  <1>6. Settles(k, Result(k, w)) /\ Settles(k, Result(HangUpCall(k, x), w))
    BY <1>4, ResultSettles
  <1> QED BY <1>3, <1>2, <1>5, <1>6, WaitingZero

\* Two calls wait.
LEMMA WaitingTwo ==
  ASSUME NEW k \in Desks, NEW x \in Ids, There(k.calls[x]), NEW w \in Jobs
  PROVE  Settles(k, HandleCallWaitingNumTwo(k, x, w))
  <1> DEFINE ended == IF HoldCallOf(k) # 0 THEN HangUpCall(k, HoldCallOf(k)) ELSE k
  <1>1. Tidy(k, ended) /\ ended.calls = k.calls
    BY AskTidy, HoldIs, DeskIs
  <1>2. HandleCallWaitingNumTwo(k, x, w)
          \in {HandleCallWaitingNumOne(k, x, w), Result(ended, w), Holding(ended, x, w),
               Result(HangUpCall(ended, x), w)}
    BY DEF HandleCallWaitingNumTwo
  <1> HIDE DEF ended
  <1>3. ended \in Desks
    BY <1>1 DEF Tidy
  <1>4. Tidy(k, HangUpCall(ended, x))
    BY <1>1, <1>3, AskTidy, TidyTrans
  <1>5. Settles(k, Holding(ended, x, w))
    BY <1>1, HoldingSettles
  <1> QED BY <1>1, <1>2, <1>4, <1>5, ResultSettles, WaitingOne

\* Whatever the loop does with a call is tidy.
LEMMA ArbitrateSettles ==
  ASSUME NEW k \in Desks, NEW x \in Ids, NEW w \in Jobs
  PROVE  Settles(k, ArbitrateOne(k, x, w))
  <1>1. CASE ~There(k.calls[x])
    BY <1>1, DeskIs, ResultSettles DEF ArbitrateOne
  <1>2. CASE There(k.calls[x])
    <2>1. ArbitrateOne(k, x, w)
            \in {HandleDsdaIncomingCall(k, x, w), HandleCallWaitingNumTwo(k, x, w),
                 HandleCallWaitingNumOne(k, x, w), HandleCallWaitingNumZero(k, x, w)}
      BY <1>2 DEF ArbitrateOne
    <2>2. w.call \in Ids
      BY DEF Jobs
    <2>3. Tidy(k, AnswerNow(k, w.call)) /\ Tidy(k, k)
      BY <2>2, AnswerTidy, DeskIs
    <2>4. Settles(k, HandleDsdaIncomingCall(k, x, w))
      BY <2>3, ResultSettles DEF HandleDsdaIncomingCall
    <2> QED BY <1>2, <2>1, <2>4, WaitingTwo, WaitingOne, WaitingZero
  <1> QED BY <1>1, <1>2
-----------------------------------------------------------------------------
(* What a report's room is used for *)

\* Answering a marked voice call, or forgetting its mark.
LEMMA AutoVoiceTidy ==
  ASSUME NEW k \in Desks, NEW c \in Ids, NEW p
  PROVE  Tidy(k, AutoAnswerForVoiceCall(k, c, p))
  BY AnswerTidy, MarkTidy DEF AutoAnswerForVoiceCall

\* Answering the first marked call that rings.
LEMMA AutoAnswerTidy ==
  ASSUME NEW k \in Desks, NEW a, NEW b
  PROVE  Tidy(k, AutoAnswer(k, a, b))
  <1> DEFINE marked == {c \in Ids : Rings(k.calls[c]) /\ k.calls[c].auto}
  <1>1. marked # {} => First(marked) \in Ids
    <2>1. marked \in SUBSET Nat
      BY DEF Ids
    <2> QED BY <2>1, FirstIn
  <1>2. AutoAnswer(k, a, b) = k
          \/ (marked # {} /\ AutoAnswer(k, a, b) = AnswerNow(k, First(marked)))
    BY DEF AutoAnswer
  <1> HIDE DEF marked
  <1> QED BY <1>1, <1>2, AnswerTidy, DeskIs

\* Resuming a held call, or giving held calls back the right to be resumed.
LEMMA AutoUnHoldTidy ==
  ASSUME NEW k \in Desks, NEW p
  PROVE  Tidy(k, AutoUnHoldForDsda(k, p))
  <1> DEFINE two == GetCurrentCallNum(k) = 2
             held == {c \in Ids : k.calls[c].st = "HOLDING"}
             t == [c \in Ids |-> IF two /\ k.calls[c].st = "HOLDING"
                                 THEN [k.calls[c] EXCEPT !.canUnHold = TRUE] ELSE k.calls[c]]
             n == [k EXCEPT !.calls = t]
  <1>1. AutoUnHoldForDsda(k, p) = n
          \/ \E S \in SUBSET held : S # {} /\ AutoUnHoldForDsda(k, p) = UnHoldCall(k, First(S))
    <2> DEFINE resumable ==
                 {c \in Ids : /\ k.calls[c].st = "HOLDING" /\ k.calls[c].slot # p.slot
                              /\ k.calls[c].canUnHold
                              /\ p.active = 0 /\ GetCallNum(k, "WAITING") = 0
                              /\ GetCallNum(k, "DIALING") = 0
                              /\ p.prior = "DISCONNECTING" \/ (~p.canSwitch /\ two)}
    <2>1. resumable \in SUBSET held
      OBVIOUS
    <2>2. AutoUnHoldForDsda(k, p)
            = IF resumable # {} THEN UnHoldCall(k, First(resumable)) ELSE n
      BY DEF AutoUnHoldForDsda
    <2> HIDE DEF resumable, held, n
    <2> QED BY <2>1, <2>2
  <1>2. ASSUME NEW S \in SUBSET held, S # {}
        PROVE  Tidy(k, UnHoldCall(k, First(S)))
    <2>1. S \in SUBSET Nat
      BY DEF Ids
    <2>2. First(S) \in held
      BY <1>2, <2>1, FirstIn
    <2>3. First(S) \in Ids /\ There(k.calls[First(S)])
      BY <2>2 DEF There
    <2> QED BY <2>3, AskTidy
  <1>3. Tidy(k, n)
    <2>1. ASSUME NEW c \in Ids
          PROVE  t[c] \in Calls \cup {NoCall} /\ t[c].st = k.calls[c].st
      <3>1. CASE two /\ k.calls[c].st = "HOLDING"
        <4>1. There(k.calls[c])
          BY <3>1 DEF There
        <4>2. k.calls[c] \in Calls
          BY <4>1, DeskIs, CallIs
        <4>3. t[c] = [k.calls[c] EXCEPT !.canUnHold = TRUE]
          BY <3>1
        <4>4. t[c] \in Calls
          BY <4>2, <4>3 DEF Calls
        <4>5. t[c].st = k.calls[c].st
          BY <4>2, <4>3 DEF Calls
        <4> QED BY <4>4, <4>5
      <3>2. CASE ~(two /\ k.calls[c].st = "HOLDING")
        <4>1. t[c] = k.calls[c]
          BY <3>2
        <4>2. k.calls[c] \in Calls \cup {NoCall}
          BY DeskIs DEF Tables
        <4> QED BY <4>1, <4>2
      <3> QED BY <3>1, <3>2
    <2>2. t \in Tables
      <3>1. t = [c \in Ids |-> t[c]]
        OBVIOUS
      <3> HIDE DEF t
      <3> QED BY <2>1, <3>1 DEF Tables
    <2> HIDE DEF t
    <2>3. n \in Desks /\ n.calls = t
      BY <2>2 DEF Desks
    <2> QED BY <2>1, <2>3 DEF Tidy, SameCalls
  <1> HIDE DEF n, held
  <1> QED BY <1>1, <1>2, <1>3

\* Both ways of using the room, DSDA and DSDS.
LEMMA RoomTidy ==
  ASSUME NEW k \in Desks, NEW p
  PROVE  Tidy(k, AutoHandleForDsda(k, p)) /\ Tidy(k, AutoHandleForDsds(k, p))
  <1>1. Tidy(k, AutoHandleForDsda(k, p))
    <2> DEFINE room == p.active = 0 /\ NoneDialled(k)
               marked == {c \in GetCarrierCallList(k) :
                            k.calls[c].auto /\ (k.calls[c].kind = "video"
                                                \/ (room /\ Rings(k.calls[c])))}
               c == First(marked)
               n == IF marked = {} THEN k
                    ELSE IF k.calls[c].kind = "video" THEN AutoAnswer(k, p.active, 0)
                    ELSE AutoAnswerForVoiceCall(k, c, p)
    <2>1. marked # {} => c \in Ids
      <3>1. marked \in SUBSET Ids
        BY DEF GetCarrierCallList
      <3> HIDE DEF marked
      <3>2. marked \in SUBSET Nat
        BY <3>1 DEF Ids
      <3> QED BY <3>1, <3>2, FirstIn
    <2>2. AutoHandleForDsda(k, p) = AutoUnHoldForDsda(n, p)
      BY DEF AutoHandleForDsda
    <2> HIDE DEF marked, c
    <2>3. Tidy(k, n)
      <3>1. marked # {} => Tidy(k, AutoAnswerForVoiceCall(k, c, p))
        BY <2>1, AutoVoiceTidy
      <3> QED BY <3>1, AutoAnswerTidy, DeskIs
    <2> HIDE DEF n
    <2>4. n \in Desks
      BY <2>3 DEF Tidy
    <2> QED BY <2>2, <2>3, <2>4, AutoUnHoldTidy, TidyTrans
  <1>2. AutoHandleForDsds(k, p)
          \in {AutoAnswer(k, p.active, 0), AutoAnswer(k, p.active, p.waiting), k}
    BY DEF AutoHandleForDsds
  <1> QED BY <1>1, <1>2, AutoAnswerTidy, DeskIs
-----------------------------------------------------------------------------
(* The report queue accounts for every difference of table and modems *)

New == RingingStates \cup {"DIALING"}
Ending == {"DISCONNECTING", "DISCONNECTED"}

\* The call is in the table, or one of the first n reports introduces it.
Introduced(t, q, c, n) == There(t[c]) \/ \E j \in 1..n : q[j].call = c /\ q[j].st \in New
Absent(t, q, c) == ~There(t[c]) /\ \A i \in 1..Len(q) : q[i].call # c
Lives(q, c) == \A i \in 1..Len(q) : q[i].call = c => q[i].st \notin Ending
Ended(q, c) == \E i \in 1..Len(q) : q[i].call = c /\ q[i].st = "DISCONNECTED"

\* From the i-th report on, all of the call say that it is mt; and so does the table,
\* or there is such a report.
From(q, c, i, mt) == \A j \in i..Len(q) : q[j].call = c => Shows(q[j].st, mt)
Tells(t, q, c, mt) == \/ Shows(t[c].st, mt) /\ From(q, c, 1, mt)
                      \/ \E i \in 1..Len(q) : q[i].call = c /\ From(q, c, i, mt)

\* Every report finds its call, none is made of a call after its end, a live call's
\* last report tells its state, an ended call is gone or its end is reported.
Accounts(t, q, m, n) ==
    /\ \A i \in 1..Len(q) : Introduced(t, q, q[i].call, i)
    /\ \A i, j \in 1..Len(q) : i < j /\ q[i].call = q[j].call => q[i].st # "DISCONNECTED"
    /\ \A c \in Ids : There(m[c]) => /\ Lives(q, c) /\ t[c].st # "DISCONNECTING"
                                     /\ Tells(t, q, c, m[c].st)
    /\ \A c \in Ids : ~There(m[c]) => Absent(t, q, c) \/ Ended(q, c)
    /\ \A c \in Ids : c > n => ~There(m[c]) /\ Absent(t, q, c)

\* Reports are of calls.
LEMMA ReportsOfCalls ==
  ASSUME NEW q \in Seq(Reports)
  PROVE  \A i \in 1..Len(q) : q[i] \in Reports /\ q[i].call \in Ids
  <1>1. \A i \in 1..Len(q) : q[i] \in Reports
    BY ElementOfSeq
  <1>2. \A r \in Reports : r.call \in Ids
    BY DEF Reports
  <1> QED BY <1>1, <1>2

\* A tidy table leaves the accounts as they are.
LEMMA TidyAccounts ==
  ASSUME NEW t, NEW u, SameCalls(t, u), NEW q \in Seq(Reports), NEW m, NEW n,
         Accounts(t, q, m, n)
  PROVE  Accounts(u, q, m, n)
  <1>1. \A c \in Ids : u[c].st = t[c].st
    BY DEF SameCalls
  <1>2. \A i \in 1..Len(q) : q[i].call \in Ids
    BY ReportsOfCalls
  <1>3. \A i \in 1..Len(q) : Introduced(u, q, q[i].call, i)
    BY <1>1, <1>2 DEF Accounts, Introduced, There
  <1>4. \A c \in Ids : Absent(t, q, c) => Absent(u, q, c)
    BY <1>1 DEF Absent, There
  <1>5. \A c \in Ids : Tells(t, q, c, m[c].st) => Tells(u, q, c, m[c].st)
    BY <1>1 DEF Tells
  <1> QED BY <1>1, <1>3, <1>4, <1>5 DEF Accounts

\* Tail without the first report.
LEMMA TailIs ==
  ASSUME NEW S, NEW q \in Seq(S), q # <<>>
  PROVE  /\ Tail(q) \in Seq(S) /\ Head(q) = q[1] /\ Head(q) \in S
         /\ Len(q) \in Nat /\ Len(q) >= 1 /\ Len(Tail(q)) = Len(q) - 1
         /\ \A i \in 1..Len(Tail(q)) : i + 1 \in 1..Len(q) /\ Tail(q)[i] = q[i + 1]
  OBVIOUS

\* Handling a report: the table shows what it says, or shows an ending call still.
LEMMA TailAccounts ==
  ASSUME NEW t, NEW u, NEW q \in Seq(Reports), q # <<>>, NEW m, NEW n,
         Accounts(t, q, m, n),
         \A c \in Ids : c # Head(q).call => u[c].st = t[c].st,
         IF Head(q).st = "DISCONNECTED" THEN ~There(u[Head(q).call])
         ELSE \/ There(u[Head(q).call]) /\ u[Head(q).call].st = Head(q).st
              \/ u[Head(q).call].st = t[Head(q).call].st /\ t[Head(q).call].st = "DISCONNECTING"
  PROVE  Accounts(u, Tail(q), m, n)
  <1> DEFINE r == Head(q)
             d == r.call
             s == Tail(q)
  <1>1. /\ r = q[1] /\ r \in Reports /\ s \in Seq(Reports)
        /\ Len(q) \in Nat /\ Len(q) >= 1 /\ Len(s) = Len(q) - 1
        /\ \A i \in 1..Len(s) : i + 1 \in 1..Len(q) /\ s[i] = q[i + 1]
    BY TailIs
  <1>2. d \in Ids /\ \A i \in 1..Len(q) : q[i].call \in Ids
    BY <1>1, ReportsOfCalls DEF Reports
  <1>3. r.st # "DISCONNECTED" => There(u[d])
    BY DEF There
  <1>4. \A c \in Ids : c # d => u[c].st = t[c].st
    OBVIOUS
  <1>5. \A j \in 2..Len(q) : j - 1 \in 1..Len(s) /\ s[j - 1] = q[j]
    BY <1>1
  <1>6. r.st = "DISCONNECTED" => ~There(u[d])
    OBVIOUS
  <1>7. r.st # "DISCONNECTED" => u[d].st = r.st \/ t[d].st = "DISCONNECTING"
    OBVIOUS
  <1>8. \A i \in 1..Len(s) : s[i].call = d => r.st # "DISCONNECTED"
    BY <1>1 DEF Accounts
  <1> HIDE DEF d, s
  <1>9. \A c \in Ids : Absent(t, q, c) => Absent(u, s, c)
    <2>1. ASSUME NEW c \in Ids, Absent(t, q, c) PROVE Absent(u, s, c)
      <3>1. c # d
        BY <1>1, <2>1 DEF Absent, d
      <3>2. ~There(u[c])
        BY <1>4, <2>1, <3>1 DEF Absent, There
      <3> QED BY <1>1, <2>1, <3>2 DEF Absent
    <2> QED BY <2>1
  <1>10. \A i \in 1..Len(s) : Introduced(u, s, s[i].call, i)
    <2>1. TAKE i \in 1..Len(s)
    <2> DEFINE c == s[i].call
    <2>2. c \in Ids /\ Introduced(t, q, c, i + 1)
      BY <1>1, <1>2 DEF Accounts
    <2>3. c = d => There(u[c])
      BY <1>3, <1>8
    <2> HIDE DEF c
    <2>4. ASSUME c # d PROVE Introduced(u, s, c, i)
      <3>1. CASE There(t[c])
        BY <1>4, <2>2, <2>4, <3>1 DEF Introduced, There
      <3>2. CASE \E j \in 1..(i + 1) : q[j].call = c /\ q[j].st \in New
        <4>1. PICK j \in 1..(i + 1) : q[j].call = c /\ q[j].st \in New
          BY <3>2
        <4>2. j # 1
          BY <1>1, <2>4, <4>1 DEF d
        <4>3. j - 1 \in 1..i /\ s[j - 1] = q[j]
          BY <1>1, <4>2
        <4> QED BY <4>1, <4>3 DEF Introduced
      <3> QED BY <2>2, <3>1, <3>2 DEF Introduced
    <2>5. Introduced(u, s, c, i)
      BY <2>3, <2>4 DEF Introduced
    <2> QED BY <2>5 DEF c
  <1>11. \A i, j \in 1..Len(s) : i < j /\ s[i].call = s[j].call => s[i].st # "DISCONNECTED"
    <2>1. TAKE i, j \in 1..Len(s)
    <2>2. i + 1 \in 1..Len(q) /\ j + 1 \in 1..Len(q) /\ s[i] = q[i + 1] /\ s[j] = q[j + 1]
          /\ (i < j => i + 1 < j + 1)
      BY <1>1, SMTT(30)
    <2> QED BY <2>2 DEF Accounts
  <1>12. ASSUME NEW c \in Ids, There(m[c])
         PROVE  /\ Lives(s, c) /\ u[c].st # "DISCONNECTING"
                /\ Tells(u, s, c, m[c].st)
    <2>1. Lives(q, c) /\ t[c].st # "DISCONNECTING" /\ Tells(t, q, c, m[c].st)
      BY <1>12 DEF Accounts
    <2>2. c = d => r.st \notin Ending /\ u[c].st = r.st
      BY <1>1, <1>7, <2>1 DEF Lives, Ending, d
    <2>3. Lives(s, c)
      BY <1>1, <2>1 DEF Lives
    <2>4. u[c].st # "DISCONNECTING"
      BY <1>4, <2>1, <2>2 DEF Ending
    <2>5. ASSUME NEW i \in 1..Len(q), From(q, c, i, m[c].st)
          PROVE  From(s, c, IF i = 1 THEN 1 ELSE i - 1, m[c].st)
      <3> DEFINE b == IF i = 1 THEN 1 ELSE i - 1
      <3>1. \A j \in b..Len(s) : j \in 1..Len(s) /\ j + 1 \in i..Len(q) /\ s[j] = q[j + 1]
        BY <1>1
      <3> HIDE DEF b
      <3>2. From(s, c, b, m[c].st)
        BY <2>5, <3>1 DEF From
      <3> QED BY <3>2 DEF b
    <2>6. From(q, c, 1, m[c].st) => From(s, c, 1, m[c].st)
      BY <1>1, <2>5
    <2>7. c = d /\ From(q, c, 1, m[c].st) => Shows(u[c].st, m[c].st)
      BY <1>1, <2>2 DEF From, d
    <2>8. ASSUME Shows(t[c].st, m[c].st), From(q, c, 1, m[c].st)
          PROVE  Tells(u, s, c, m[c].st)
      BY <1>4, <2>6, <2>7, <2>8 DEF Tells
    <2>9. ASSUME \E i \in 1..Len(q) : q[i].call = c /\ From(q, c, i, m[c].st)
          PROVE  Tells(u, s, c, m[c].st)
      <3>1. PICK i \in 1..Len(q) : q[i].call = c /\ From(q, c, i, m[c].st)
        BY <2>9
      <3>2. CASE i = 1
        <4>1. c = d
          BY <1>1, <3>1, <3>2 DEF d
        <4> QED BY <2>6, <2>7, <3>1, <3>2, <4>1 DEF Tells
      <3>3. CASE i # 1
        <4>1. i - 1 \in 1..Len(s) /\ s[i - 1] = q[i]
          BY <1>5, <1>1, <3>3
        <4>2. From(s, c, i - 1, m[c].st)
          BY <2>5, <3>1, <3>3
        <4> QED BY <3>1, <4>1, <4>2 DEF Tells
      <3> QED BY <3>2, <3>3
    <2>10. Tells(u, s, c, m[c].st)
      BY <2>1, <2>8, <2>9 DEF Tells
    <2> QED BY <2>3, <2>4, <2>10
  <1>13. ASSUME NEW c \in Ids, ~There(m[c])
         PROVE  Absent(u, s, c) \/ Ended(s, c)
    <2>1. Absent(t, q, c) \/ Ended(q, c)
      BY <1>13 DEF Accounts
    <2>2. CASE Ended(q, c)
      <3>1. PICK i \in 1..Len(q) : q[i].call = c /\ q[i].st = "DISCONNECTED"
        BY <2>2 DEF Ended
      <3>2. CASE i = 1
        <4>1. c = d /\ r.st = "DISCONNECTED"
          BY <1>1, <3>1, <3>2 DEF d
        <4> QED BY <1>6, <1>8, <4>1 DEF Absent
      <3>3. CASE i # 1
        <4>1. i - 1 \in 1..Len(s) /\ s[i - 1] = q[i]
          BY <1>5, <1>1, <3>3
        <4> QED BY <3>1, <4>1 DEF Ended
      <3> QED BY <3>2, <3>3
    <2> QED BY <1>9, <2>1, <2>2
  <1>14. \A c \in Ids : c > n => ~There(m[c]) /\ Absent(u, s, c)
    BY <1>9 DEF Accounts
  <1>15. Accounts(u, s, m, n)
    BY <1>10, <1>11, <1>12, <1>13, <1>14 DEF Accounts
  <1> QED BY <1>15 DEF s
\* The reports of q \o l are those of q and those of l.
LEMMA ConcatIs ==
  ASSUME NEW S, NEW q \in Seq(S), NEW l \in Seq(S)
  PROVE  /\ q \o l \in Seq(S) /\ Len(q) \in Nat /\ Len(l) \in Nat
         /\ Len(q \o l) = Len(q) + Len(l)
         /\ \A i \in 1..Len(q) : (q \o l)[i] = q[i]
         /\ \A i \in 1..Len(l) : Len(q) + i \in 1..Len(q \o l) /\ (q \o l)[Len(q) + i] = l[i]
         /\ \A i \in 1..Len(q \o l) : i \in 1..Len(q)
                                      \/ (i - Len(q) \in 1..Len(l) /\ (q \o l)[i] = l[i - Len(q)])
  OBVIOUS

\* What happens at the modems is reported: reports of calls there are, or that come up,
\* which tell their new states; and an end for each call that goes.
Reported(t, q, l, m, o) ==
    /\ \A i \in 1..Len(l) : There(m[l[i].call]) \/ (l[i].st \in New /\ There(o[l[i].call]))
    /\ \A i, j \in 1..Len(l) : i < j /\ l[i].call = l[j].call => l[i].st # "DISCONNECTED"
    /\ \A c \in Ids : There(o[c]) => /\ Lives(l, c) /\ From(l, c, 1, o[c].st)
                                     /\ There(m[c]) \/ Absent(t, q, c)
                                     /\ \/ There(m[c]) /\ o[c].st = m[c].st
                                        \/ \E i \in 1..Len(l) : l[i].call = c
    /\ \A c \in Ids : There(m[c]) /\ ~There(o[c]) => Ended(l, c)

\* What is reported keeps the accounts.
LEMMA ExtendAccounts ==
  ASSUME NEW t, NEW q \in Seq(Reports), NEW l \in Seq(Reports), NEW m, NEW o,
         NEW n, NEW b, Accounts(t, q, m, n), Reported(t, q, l, m, o),
         \A c \in Ids : c > b => c > n /\ ~There(o[c])
  PROVE  Accounts(t, q \o l, o, b)
  <1> DEFINE s == q \o l
             N == Len(q)
  <1>1. /\ s \in Seq(Reports) /\ N \in Nat /\ Len(l) \in Nat /\ Len(s) = N + Len(l)
        /\ \A i \in 1..N : s[i] = q[i]
        /\ \A i \in 1..Len(l) : N + i \in 1..Len(s) /\ s[N + i] = l[i]
        /\ \A i \in 1..Len(s) : i \in 1..N \/ (i - N \in 1..Len(l) /\ s[i] = l[i - N])
    BY ConcatIs
  <1>2. \A i \in 1..Len(l) : l[i].call \in Ids
    BY ReportsOfCalls
  <1> HIDE DEF s
  <1>3. \A c, k : k \in 1..N /\ Introduced(t, q, c, k) => Introduced(t, s, c, k)
    <2>1. ASSUME NEW c, NEW k \in 1..N, NEW j \in 1..k, q[j].call = c, q[j].st \in New
          PROVE  s[j].call = c /\ s[j].st \in New
      <3>1. j \in 1..N
        BY <1>1
      <3> QED BY <1>1, <2>1, <3>1
    <2> QED BY <2>1 DEF Introduced
  <1>4. ASSUME NEW c \in Ids, There(m[c]) PROVE \A k \in N..Len(s) : Introduced(t, s, c, k)
    <2>1. Tells(t, q, c, m[c].st) /\ m[c].st # "NONE"
      BY <1>4 DEF Accounts, There
    <2>2. CASE Shows(t[c].st, m[c].st)
      <3>1. There(t[c])
        BY <2>1, <2>2 DEF Shows, There, RingingStates
      <3> QED BY <3>1 DEF Introduced
    <2>3. CASE \E i \in 1..N : q[i].call = c
      <3>1. PICK i \in 1..N : q[i].call = c
        BY <2>3
      <3>2. Introduced(t, q, c, i)
        BY <3>1 DEF Accounts
      <3>3. Introduced(t, s, c, i)
        BY <1>3, <3>2
      <3>4. \A k \in N..Len(s), j \in 1..i : j \in 1..k
        BY <1>1
      <3> QED BY <3>3, <3>4 DEF Introduced
    <2> QED BY <2>1, <2>2, <2>3 DEF Tells
  <1>5. \A i \in 1..Len(s) : Introduced(t, s, s[i].call, i)
    <2>1. TAKE i \in 1..Len(s)
    <2>2. CASE i \in 1..N
      <3>1. Introduced(t, q, q[i].call, i)
        BY <2>2 DEF Accounts
      <3> QED BY <1>1, <1>3, <2>2, <3>1
    <2>3. CASE i \notin 1..N
      <3>1. i - N \in 1..Len(l) /\ s[i] = l[i - N]
        BY <1>1, <2>3
      <3>2. s[i].call \in Ids
        BY <1>2, <3>1
      <3>3. CASE There(m[s[i].call])
        <4>1. i \in N..Len(s)
          BY <1>1, <2>3
        <4> QED BY <1>4, <3>2, <3>3, <4>1
      <3>4. CASE ~There(m[s[i].call])
        <4>1. s[i].st \in New /\ i \in 1..i
          BY <3>1, <3>4, <1>1 DEF Reported
        <4> QED BY <4>1 DEF Introduced
      <3> QED BY <3>3, <3>4
    <2> QED BY <2>2, <2>3
  <1>6. \A i, j \in 1..Len(s) : i < j /\ s[i].call = s[j].call => s[i].st # "DISCONNECTED"
    <2>1. SUFFICES ASSUME NEW i \in 1..Len(s), NEW j \in 1..Len(s), i < j,
                          s[i].call = s[j].call
                   PROVE  s[i].st # "DISCONNECTED"
      OBVIOUS
    <2>2. CASE j \in 1..N
      <3>1. i \in 1..N
        BY <1>1, <2>1, <2>2
      <3> QED BY <1>1, <2>1, <2>2, <3>1 DEF Accounts
    <2>3. CASE i \in 1..N /\ j \notin 1..N
      <3> DEFINE c == s[j].call
      <3>1. j - N \in 1..Len(l) /\ s[j] = l[j - N] /\ s[i] = q[i]
        BY <1>1, <2>3
      <3>2. c \in Ids /\ q[i].call = c
        BY <1>2, <2>1, <3>1
      <3>3. There(m[c]) \/ There(o[c])
        BY <3>1 DEF Reported
      <3> HIDE DEF c
      <3>4. ~Absent(t, q, c)
        BY <2>3, <3>2 DEF Absent
      <3>5. There(m[c])
        BY <3>2, <3>3, <3>4 DEF Reported
      <3>6. Lives(q, c)
        BY <3>2, <3>5 DEF Accounts
      <3> QED BY <2>3, <3>1, <3>2, <3>6 DEF Lives, Ending
    <2>4. CASE i \notin 1..N
      <3>1. j \notin 1..N
        BY <1>1, <2>1, <2>4
      <3>2. /\ i - N \in 1..Len(l) /\ s[i] = l[i - N]
            /\ j - N \in 1..Len(l) /\ s[j] = l[j - N]
        BY <1>1, <2>4, <3>1
      <3>3. i - N < j - N
        BY <1>1, <2>1
      <3> QED BY <2>1, <3>2, <3>3 DEF Reported
    <2> QED BY <2>2, <2>3, <2>4
  <1>7. ASSUME NEW c \in Ids, There(o[c])
        PROVE  Lives(s, c) /\ t[c].st # "DISCONNECTING" /\ Tells(t, s, c, o[c].st)
    <2>1. /\ Lives(l, c) /\ From(l, c, 1, o[c].st)
          /\ There(m[c]) \/ Absent(t, q, c)
          /\ \/ There(m[c]) /\ o[c].st = m[c].st
             \/ \E i \in 1..Len(l) : l[i].call = c
      BY <1>7 DEF Reported
    <2>2. There(m[c]) => /\ Lives(q, c) /\ t[c].st # "DISCONNECTING"
                         /\ Tells(t, q, c, m[c].st)
      BY DEF Accounts
    <2>3. Lives(q, c) /\ t[c].st # "DISCONNECTING"
      BY <2>1, <2>2 DEF Lives, Absent, There
    <2>4. Lives(s, c)
      BY <1>1, <2>1, <2>3 DEF Lives
    <2>5. ASSUME NEW i \in 1..Len(l), l[i].call = c PROVE Tells(t, s, c, o[c].st)
      <3>1. N + i \in 1..Len(s) /\ s[N + i].call = c
        BY <1>1, <2>5
      <3>2. \A j \in (N + i)..Len(s) : j - N \in 1..Len(l) /\ s[j] = l[j - N]
        <4>1. \A j \in (N + i)..Len(s) : j \in 1..Len(s) /\ j \notin 1..N
          BY <1>1
        <4> QED BY <1>1, <4>1
      <3>3. From(s, c, N + i, o[c].st)
        BY <2>1, <3>2 DEF From
      <3> QED BY <3>1, <3>3 DEF Tells
    <2>6. ASSUME There(m[c]), o[c].st = m[c].st PROVE Tells(t, s, c, o[c].st)
      <3>1. ASSUME NEW k \in 1..(N + 1), From(q, c, k, m[c].st)
            PROVE  From(s, c, k, o[c].st)
        <4>1. SUFFICES ASSUME NEW j \in k..Len(s), s[j].call = c
                       PROVE  Shows(s[j].st, o[c].st)
          BY DEF From
        <4>2. j \in 1..Len(s) /\ (j \in 1..N => j \in k..N)
          BY <1>1
        <4>3. CASE j \in 1..N
          BY <1>1, <2>6, <3>1, <4>1, <4>2, <4>3 DEF From
        <4>4. CASE j \notin 1..N
          <5>1. j - N \in 1..Len(l) /\ s[j] = l[j - N]
            BY <1>1, <4>2, <4>4
          <5> QED BY <2>1, <4>1, <5>1 DEF From
        <4> QED BY <4>3, <4>4
      <3>2. CASE Shows(t[c].st, m[c].st) /\ From(q, c, 1, m[c].st)
        <4>1. 1 \in 1..(N + 1)
          BY <1>1
        <4> QED BY <2>6, <3>1, <3>2, <4>1 DEF Tells
      <3>3. CASE \E i \in 1..N : q[i].call = c /\ From(q, c, i, m[c].st)
        <4>1. PICK i \in 1..N : q[i].call = c /\ From(q, c, i, m[c].st)
          BY <3>3
        <4>2. i \in 1..(N + 1) /\ i \in 1..Len(s) /\ s[i].call = c
          BY <1>1, <4>1
        <4> QED BY <3>1, <4>1, <4>2 DEF Tells
      <3> QED BY <2>2, <2>6, <3>2, <3>3 DEF Tells
    <2>7. Tells(t, s, c, o[c].st)
      BY <2>1, <2>5, <2>6
    <2> QED BY <2>3, <2>4, <2>7
  <1>8. ASSUME NEW c \in Ids, ~There(m[c]), ~There(o[c]), Absent(t, q, c)
        PROVE  Absent(t, s, c)
    <2>1. \A i \in 1..Len(l) : l[i].call # c
      BY <1>8 DEF Reported
    <2> QED BY <1>1, <1>8, <2>1 DEF Absent
  <1>9. ASSUME NEW c \in Ids, ~There(o[c]) PROVE Absent(t, s, c) \/ Ended(s, c)
    <2>1. CASE There(m[c])
      <3>1. Ended(l, c)
        BY <1>9, <2>1 DEF Reported
      <3>2. PICK i \in 1..Len(l) : l[i].call = c /\ l[i].st = "DISCONNECTED"
        BY <3>1 DEF Ended
      <3> QED BY <1>1, <3>2 DEF Ended
    <2>2. CASE ~There(m[c])
      <3>1. Absent(t, q, c) \/ Ended(q, c)
        BY <2>2 DEF Accounts
      <3>2. Ended(q, c) => Ended(s, c)
        <4>1. \A i \in 1..N : i \in 1..Len(s) /\ s[i] = q[i]
          BY <1>1
        <4> QED BY <4>1 DEF Ended
      <3> QED BY <1>8, <1>9, <2>2, <3>1, <3>2
    <2> QED BY <2>1, <2>2
  <1>10. \A c \in Ids : c > b => ~There(o[c]) /\ Absent(t, s, c)
    BY <1>8 DEF Accounts
  <1>11. Accounts(t, s, o, b)
    BY <1>5, <1>6, <1>7, <1>9, <1>10 DEF Accounts
  <1> QED BY <1>11 DEF s
-----------------------------------------------------------------------------
(* The invariant *)

Accounted == Accounts(calls, reports, modem, used.calls)
Inv == TypeOK /\ Accounted

\* The accounts of the next state.
LEMMA Primed == Accounts(calls', reports', modem', used'.calls) => Accounted'
  BY DEF Accounted, Accounts, Introduced, Absent, Lives, Ended, From, Tells, Shows, There,
         New, Ending, RingingStates

\* The types, by variable.
LEMMA Standing ==
  ASSUME Inv
  PROVE  /\ Desk \in Desks /\ Desk.calls = calls /\ Desk.reqs = reqs /\ calls \in Tables
         /\ reqs \in [Slots -> Seq(Requests)] /\ answer \in Tasks \cup {NoTask}
         /\ pending \in Rooms \cup {Nothing} /\ reports \in Seq(Reports)
         /\ modem \in ModemTables /\ accepted \subseteq Ids /\ flag \in BOOLEAN
         /\ mode \in Modes /\ used \in [calls: 0..MaxCalls, ops: 0..MaxOps, resume: 0..MaxCalls]
         /\ used.calls \in 0..MaxCalls /\ used.ops \in 0..MaxOps
         /\ Accounts(calls, reports, modem, used.calls)
  BY DEF Inv, TypeOK, Accounted, Desk, Desks, Tables, ModemTables

\* The handlers' and requests' part of a step.
Keeping(n) == Tidy(Desk, n) /\ calls' = n.calls /\ reqs' = n.reqs

\* How an action does it.
LEMMA BecomeKeeps == ASSUME NEW n, Tidy(Desk, n), Become(n) PROVE Keeping(n)
  BY DEF Keeping, Become

\* Or leaves the desk alone.
LEMMA UnchangedKeeps == ASSUME Inv, UNCHANGED <<calls, reqs>> PROVE Keeping(Desk)
  <1>1. Tidy(Desk, Desk)
    BY Standing, DeskIs
  <1> QED BY <1>1, Standing DEF Keeping

\* A step that keeps the desk tidy, and neither reports nor handles a report.
LEMMA TidyStep ==
  ASSUME Inv, NEW n, Keeping(n), UNCHANGED <<mode, reports, modem>>,
         answer' \in Tasks \cup {NoTask}, pending' \in Rooms \cup {Nothing},
         flag' \in BOOLEAN, accepted' \subseteq Ids,
         used' \in [calls: 0..MaxCalls, ops: 0..MaxOps, resume: 0..MaxCalls],
         used'.calls = used.calls
  PROVE  Inv'
  <1>1. n.calls \in Tables /\ n.reqs \in [Slots -> Seq(Requests)]
    BY DEF Keeping, Tidy, Desks
  <1>2. TypeOK'
    BY <1>1, Standing DEF TypeOK, Tables, ModemTables, Keeping
  <1>3. SameCalls(calls, calls')
    BY Standing DEF Keeping, Tidy
  <1>4. Accounts(calls', reports, modem, used.calls)
    BY <1>3, Standing, TidyAccounts
  <1> QED BY <1>2, <1>4, Primed DEF Inv
-----------------------------------------------------------------------------
(* The answering task *)

\* A task that exists has the fields of Tasks.
LEMMA TaskIs ==
  ASSUME Inv, answer.pc # "none"
  PROVE  /\ answer \in Tasks /\ answer.call \in Ids /\ answer.slot \in Slots
         /\ \A pc \in {"submitted", "accept", "arbitrate", "loop"} :
               [answer EXCEPT !.pc = pc] \in Tasks
         /\ NoTask \in Tasks \cup {NoTask}
  <1>1. answer \in Tasks
    BY Standing DEF NoTask
  <1> QED BY <1>1 DEF Tasks

\* A user's request counts as one.
LEMMA CountsAsked ==
  ASSUME Inv, Ready, NEW r \in 0..MaxCalls,
         used' = [used EXCEPT !.ops = @ + 1, !.resume = r]
  PROVE  /\ used' \in [calls: 0..MaxCalls, ops: 0..MaxOps, resume: 0..MaxCalls]
         /\ used'.calls = used.calls
  <1>1. used.ops < MaxOps /\ MaxOps \in Nat
    BY ArbitrationAssumption DEF Ready
  <1>2. used.ops + 1 \in 0..MaxOps
    BY <1>1, Standing
  <1>3. used \in [calls: 0..MaxCalls, ops: 0..MaxOps, resume: 0..MaxCalls]
    BY Standing
  <1> QED BY <1>2, <1>3

\* UserAnswers changes what kind of call it is and starts the task.
LEMMA StepUserAnswers ==
  ASSUME Inv, NEW c \in Ids, NEW video \in BOOLEAN, UserAnswers(c, video)
  PROVE  Inv'
  <1>1. Rings(calls[c]) /\ (video => calls[c].kind = "video")
    BY DEF UserAnswers
  <1>2. There(calls[c])
    BY <1>1 DEF Rings, RingingStates, There
  <1>3. calls[c] \in Calls
    BY <1>2, Standing, CallIs
  <1> DEFINE kind == IF video THEN "video" ELSE IF calls[c].kind = "crs" THEN calls[c].kind
                     ELSE "voice"
             x == [calls[c] EXCEPT !.kind = kind]
             n == [Desk EXCEPT !.calls[c] = x]
  <1>4. kind \in Kinds \cup {"voice"}
    BY <1>1, <1>3 DEF Calls
  <1>5. x \in Calls /\ x.st = calls[c].st
    <2> HIDE DEF kind
    <2> QED BY <1>3, <1>4 DEF Calls
  <1>6. calls' = [calls EXCEPT ![c] = x]
    BY DEF UserAnswers
  <1> HIDE DEF x
  <1>7. Tidy(Desk, n)
    BY <1>2, <1>5, Standing, WriteTidy
  <1>8. n.calls = calls' /\ n.reqs = reqs'
    BY <1>6, Standing DEF Desk, UserAnswers
  <1>9. answer' \in Tasks
    <2>1. calls[c].slot \in Slots /\ <<>> \in Seq(Ids) /\ 0 \in 0..MaxCalls
      BY <1>3, ArbitrationAssumption DEF Calls
    <2> QED BY <2>1 DEF UserAnswers, Tasks
  <1>10. /\ used' \in [calls: 0..MaxCalls, ops: 0..MaxOps, resume: 0..MaxCalls]
         /\ used'.calls = used.calls
    <2>1. Ready /\ used' = [used EXCEPT !.ops = @ + 1, !.resume = 0]
      BY DEF UserAnswers
    <2>2. 0 \in 0..MaxCalls
      BY ArbitrationAssumption
    <2> QED BY <2>1, <2>2, CountsAsked
  <1>11. accepted' \subseteq Ids
    BY Standing DEF UserAnswers
  <1>12. UNCHANGED <<mode, reports, modem, pending, flag>>
    BY DEF UserAnswers
  <1> HIDE DEF n
  <1> QED BY <1>7, <1>8, <1>9, <1>10, <1>11, <1>12, Standing, TidyStep DEF Keeping

\* AnswerRequest up to its first mark or answer.
LEMMA StepRequest == ASSUME Inv, AnswerRequestForDsda PROVE Inv'
  <1> DEFINE c == answer.call
             ring == GetOtherRingingCall(Desk, c)
  <1>1. answer.pc = "submitted" /\ UNCHANGED <<mode, flag, pending, reports, modem, accepted, used>>
    BY DEF AnswerRequestForDsda
  <1>2. c \in Ids /\ answer.slot \in Slots
    BY <1>1, TaskIs
  <1>3. \A pc : Goes(pc) /\ pc \in {"accept", "arbitrate"} => answer' \in Tasks \cup {NoTask}
    BY <1>1, TaskIs DEF Goes
  <1>4. Ends => answer' \in Tasks \cup {NoTask}
    BY DEF Ends
  <1>5. ring # 0 => ring \in Ids /\ There(Desk.calls[ring])
    <2> DEFINE S == {d \in Ids \ {c} : Rings(Desk.calls[d])}
    <2>1. S \in SUBSET Nat
      BY DEF Ids
    <2>2. ring = IF S = {} THEN 0 ELSE First(S)
      BY DEF GetOtherRingingCall
    <2>3. ring # 0 => ring \in S
      BY <2>1, <2>2, FirstIn
    <2> QED BY <2>3 DEF There, Rings, RingingStates
  <1>6. Tidy(Desk, DisconnectOtherCallForVideoCall(Desk, c))
    <2> DEFINE S == {d \in Ids \ {c} : Desk.calls[d].st
                                         \in {"DIALING", "ALERTING", "ACTIVE", "HOLDING"}}
    <2>1. S \in SUBSET Ids
      OBVIOUS
    <2>2. DisconnectOtherCallForVideoCall(Desk, c) = HangUpAll(Desk, S)
      BY DEF DisconnectOtherCallForVideoCall
    <2> QED BY <2>1, <2>2, Standing, HangUpAllTidy
  <1>7. Tidy(Desk, DisconnectOtherSubIdCall(Desk, c, answer.slot))
    <2> DEFINE others == {d \in GetCarrierCallList(Desk) : Desk.calls[d].slot # answer.slot}
               k == SetAutoAnswerState(Desk, c, TRUE)
    <2>1. others \in SUBSET Ids
      BY DEF GetCarrierCallList
    <2>2. Tidy(Desk, k) /\ Tidy(Desk, AnswerCall(Desk, c))
      BY <1>2, Standing, MarkTidy, AnswerTidy
    <2>3. DisconnectOtherSubIdCall(Desk, c, answer.slot)
            \in {AnswerCall(Desk, c), HangUpAll(k, others)}
      BY DEF DisconnectOtherSubIdCall
    <2> HIDE DEF k, others
    <2>4. k \in Desks
      BY <2>2 DEF Tidy
    <2>5. Tidy(Desk, HangUpAll(k, others))
      BY <2>1, <2>2, <2>4, HangUpAllTidy, TidyTrans
    <2> QED BY <2>2, <2>3, <2>5
  <1>8. Tidy(Desk, AnswerCall(Desk, c)) /\ Tidy(Desk, SetAutoAnswerState(Desk, c, TRUE))
    BY <1>2, Standing, MarkTidy, AnswerTidy
  <1>9. ring # 0 => Tidy(Desk, HangUpCall(Desk, ring))
    BY <1>5, Standing, AskTidy
  <1>10. \/ Ends /\ UNCHANGED <<calls, reqs>>
         \/ Become(DisconnectOtherCallForVideoCall(Desk, c)) /\ Goes("accept")
         \/ Become(AnswerCall(Desk, c)) /\ Ends
         \/ Become(DisconnectOtherSubIdCall(Desk, c, answer.slot)) /\ Ends
         \/ ring # 0 /\ Become(HangUpCall(Desk, ring)) /\ Goes("accept")
         \/ Become(SetAutoAnswerState(Desk, c, TRUE)) /\ Goes("arbitrate")
    BY DEF AnswerRequestForDsda
  <1> HIDE DEF c, ring
  <1>11. answer' \in Tasks \cup {NoTask}
    BY <1>3, <1>4, <1>10
  <1>12. \E n : Keeping(n)
    BY <1>6, <1>7, <1>8, <1>9, <1>10, BecomeKeeps, UnchangedKeeps
  <1> QED BY <1>1, <1>11, <1>12, Standing, TidyStep

\* The mark made after hang-ups.
LEMMA StepAcceptLater == ASSUME Inv, AcceptLater PROVE Inv'
  <1>1. answer.pc = "accept" /\ UNCHANGED <<mode, flag, pending, reports, modem, accepted, used>>
        /\ Become(SetAutoAnswerState(Desk, answer.call, TRUE))
        /\ answer' \in Tasks \cup {NoTask}
    BY DEF AcceptLater, Ends
  <1>2. answer.call \in Ids
    BY <1>1, TaskIs
  <1>3. \E n : Keeping(n)
    BY <1>1, <1>2, Standing, MarkTidy, BecomeKeeps
  <1> QED BY <1>1, <1>3, Standing, TidyStep

\* The counts taken before the loop.
LEMMA StepHoldOrDisconnected == ASSUME Inv, HoldOrDisconnectedCall PROVE Inv'
  <1>1. answer.pc = "arbitrate"
        /\ UNCHANGED <<mode, flag, pending, reports, modem, accepted, used>>
    BY DEF HoldOrDisconnectedCall
  <1>2. answer \in Tasks /\ answer.call \in Ids
    BY <1>1, TaskIs
  <1> DEFINE todo == Listed(GetCarrierCallList(Desk) \ {answer.call})
             w == GetCallNum(Desk, "WAITING")
             a == GetCallNum(Desk, "ACTIVE")
  <1>3. todo \in Seq(Ids) /\ w \in 0..MaxCalls /\ a \in 0..MaxCalls
    <2>1. GetCarrierCallList(Desk) \ {answer.call} \in SUBSET Ids
      BY DEF GetCarrierCallList
    <2> QED BY <2>1, ListedIs, CountIs
  <1>4. \/ /\ answer' = [answer EXCEPT !.pc = "loop", !.todo = todo, !.waiting = w, !.active = a]
           /\ UNCHANGED <<calls, reqs>>
        \/ Become(AnswerNow(Desk, answer.call)) /\ Ends
    BY DEF HoldOrDisconnectedCall
  <1> HIDE DEF todo, w, a
  <1>5. answer' \in Tasks \cup {NoTask}
    BY <1>2, <1>3, <1>4 DEF Tasks, Ends
  <1>6. \E n : Keeping(n)
    BY <1>2, <1>4, Standing, AnswerTidy, BecomeKeeps, UnchangedKeeps
  <1> QED BY <1>1, <1>5, <1>6, Standing, TidyStep

\* One call of the loop.
LEMMA StepArbitration == ASSUME Inv, ArbitrationLoop PROVE Inv'
  <1>1. answer.pc = "loop" /\ UNCHANGED <<mode, pending, reports, modem, accepted, used>>
    BY DEF ArbitrationLoop
  <1>2. answer \in Tasks
    BY <1>1, TaskIs
  <1>3. CASE answer.todo = <<>>
    <2>1. UNCHANGED <<calls, reqs, flag>> /\ answer' \in Tasks \cup {NoTask}
      BY <1>3 DEF ArbitrationLoop, Ends
    <2> QED BY <1>1, <2>1, UnchangedKeeps, Standing, TidyStep
  <1>4. CASE answer.todo # <<>>
    <2> DEFINE w == [call |-> answer.call, slot |-> answer.slot, active |-> answer.active,
                     waiting |-> answer.waiting, held |-> answer.held, flag |-> flag]
               n == ArbitrateOne(Desk, Head(answer.todo), w)
    <2>1. w \in Jobs
      BY <1>2, Standing DEF Tasks, Jobs
    <2>2. Head(answer.todo) \in Ids /\ Tail(answer.todo) \in Seq(Ids)
      BY <1>2, <1>4, HeadTailProperties DEF Tasks
    <2>3. Settles(Desk, n)
      BY <2>1, <2>2, Standing, ArbitrateSettles
    <2>4. /\ Become(n.k) /\ flag' = n.flag
          /\ answer' = [answer EXCEPT !.todo = Tail(@), !.held = n.held]
      BY <1>4 DEF ArbitrationLoop
    <2> HIDE DEF n
    <2>5. answer' \in Tasks \cup {NoTask}
      BY <1>2, <2>2, <2>3, <2>4 DEF Settles, Tasks
    <2>6. Keeping(n.k) /\ flag' \in BOOLEAN
      BY <2>3, <2>4, BecomeKeeps DEF Settles
    <2> QED BY <1>1, <2>5, <2>6, Standing, TidyStep
  <1> QED BY <1>3, <1>4
-----------------------------------------------------------------------------
(* The report queue *)

\* n shows call c in state st, and every other call as k does.
Puts(k, n, c, st) == /\ n \in Desks /\ n.calls[c].st = st
                     /\ \A d \in Ids \ {c} : n.calls[d].st = k.calls[d].st

\* Tidying up afterwards changes no state.
LEMMA PutsTidy ==
  ASSUME NEW k, NEW m, NEW n, NEW c \in Ids, NEW st, Puts(k, m, c, st), Tidy(m, n)
  PROVE  Puts(k, n, c, st)
  BY DEF Puts, Tidy, SameCalls

\* A call that is there takes a new state.
LEMMA StatePuts ==
  ASSUME NEW k \in Desks, NEW c \in Ids, There(k.calls[c]), NEW st \in States
  PROVE  Puts(k, SetState(k, c, st), c, st)
  <1> DEFINE x == [k.calls[c] EXCEPT !.st = st]
             t == [k.calls EXCEPT ![c] = x]
  <1>1. k.calls \in Tables /\ k.calls[c] \in Calls
    BY DeskIs, CallIs
  <1>2. x \in Calls /\ x.st = st
    BY <1>1 DEF Calls
  <1>3. SetState(k, c, st) = [k EXCEPT !.calls = t]
    BY DEF SetState, Desks
  <1> HIDE DEF x
  <1>4. /\ t \in Tables
        /\ \A d \in Ids : t[d] = IF d = c THEN x ELSE k.calls[d]
    BY <1>1, <1>2 DEF Tables
  <1> HIDE DEF t
  <1>5. [k EXCEPT !.calls = t] \in Desks /\ [k EXCEPT !.calls = t].calls = t
    BY <1>4 DEF Desks
  <1> QED BY <1>2, <1>3, <1>4, <1>5 DEF Puts

\* A new call enters the table.
LEMMA NewPuts ==
  ASSUME NEW k \in Desks, NEW r \in Reports, r.st \in New
  PROVE  Puts(k, [k EXCEPT !.calls[r.call] = NewCall(r)], r.call, r.st)
  <1> DEFINE c == r.call
             x == NewCall(r)
             t == [k.calls EXCEPT ![c] = x]
  <1>1. k.calls \in Tables /\ c \in Ids
    BY DeskIs DEF Reports
  <1>2. x \in Calls /\ x.st = r.st
    BY DEF NewCall, Calls, Reports, States, New
  <1>3. [k EXCEPT !.calls[c] = x] = [k EXCEPT !.calls = t]
    BY DEF Desks
  <1> HIDE DEF x, c
  <1>4. /\ t \in Tables
        /\ \A d \in Ids : t[d] = IF d = c THEN x ELSE k.calls[d]
    BY <1>1, <1>2 DEF Tables
  <1> HIDE DEF t
  <1>5. [k EXCEPT !.calls = t] \in Desks /\ [k EXCEPT !.calls = t].calls = t
    BY <1>4 DEF Desks
  <1>6. Puts(k, [k EXCEPT !.calls[c] = x], c, r.st)
    BY <1>1, <1>2, <1>3, <1>4, <1>5 DEF Puts
  <1> QED BY <1>6 DEF x, c

\* ActiveHandle lets the held call be swapped again.
LEMMA ActivePuts ==
  ASSUME NEW k \in Desks, NEW c \in Ids, There(k.calls[c])
  PROVE  Puts(k, ActiveHandle(k, c), c, "ACTIVE")
  <1> DEFINE m == SetState(k, c, "ACTIVE")
             hold == HoldCallOf(m)
  <1>1. Puts(k, m, c, "ACTIVE")
    BY StatePuts DEF States
  <1>2. m \in Desks
    BY <1>1 DEF Puts
  <1>3. ActiveHandle(k, c) = IF hold = 0 THEN m ELSE [m EXCEPT !.calls[hold].canSwitch = TRUE]
    BY DEF ActiveHandle
  <1> HIDE DEF m
  <1>4. hold # 0 => hold \in Ids /\ There(m.calls[hold])
    BY <1>2, HoldIs
  <1> HIDE DEF hold
  <1>5. hold # 0 => Tidy(m, [m EXCEPT !.calls[hold].canSwitch = TRUE])
    <2>1. SUFFICES ASSUME hold # 0 PROVE Tidy(m, [m EXCEPT !.calls[hold].canSwitch = TRUE])
      OBVIOUS
    <2> DEFINE x == [m.calls[hold] EXCEPT !.canSwitch = TRUE]
    <2>2. m.calls[hold] \in Calls
      BY <1>2, <1>4, <2>1, DeskIs, CallIs
    <2>3. x \in Calls /\ x.st = m.calls[hold].st
      BY <2>2 DEF Calls
    <2>4. [m EXCEPT !.calls[hold].canSwitch = TRUE] = [m EXCEPT !.calls[hold] = x]
      BY <1>2 DEF Desks
    <2> HIDE DEF x
    <2>5. Tidy(m, [m EXCEPT !.calls[hold] = x])
      BY <1>2, <1>4, <2>1, <2>3, WriteTidy
    <2> QED BY <2>4, <2>5
  <1> QED BY <1>1, <1>3, <1>5, PutsTidy

\* A call is deleted, a held one perhaps resumed.
LEMMA DisconnectedDoes ==
  ASSUME NEW k \in Desks, NEW c \in Ids, NEW prior
  PROVE  LET n == [RecoverHeldCall(SetState(k, c, "DISCONNECTED"), c, prior)
                     EXCEPT !.calls[c] = NoCall]
         IN Puts(k, n, c, "NONE")
  <1> DEFINE m == SetState(k, c, "DISCONNECTED")
             g == [k EXCEPT !.calls[c] = NoCall]
             hold == HoldCallOf(m)
             n == [RecoverHeldCall(m, c, prior) EXCEPT !.calls[c] = NoCall]
             t == [k.calls EXCEPT ![c] = NoCall]
  <1>1. k.calls \in Tables /\ NoCall.st = "NONE"
    BY DeskIs DEF NoCall
  <1>2. t \in Tables /\ \A d \in Ids : t[d] = IF d = c THEN NoCall ELSE k.calls[d]
    BY <1>1 DEF Tables
  <1>3. g = [k EXCEPT !.calls = t]
    BY DEF Desks
  <1>4. m.calls = [k.calls EXCEPT ![c].st = "DISCONNECTED"] /\ m.reqs = k.reqs
        /\ DOMAIN m = {"calls", "reqs"}
    BY DEF SetState, Desks
  <1>5. /\ \A d \in Ids \ {c} : m.calls[d] = k.calls[d]
        /\ [m.calls EXCEPT ![c] = NoCall] = t
        /\ m.calls[c].st = "DISCONNECTED"
    <2>1. c \in DOMAIN k.calls /\ k.calls = [d \in Ids |-> k.calls[d]]
      BY <1>1 DEF Tables
    <2>2. k.calls[c] = NoCall \/ k.calls[c] \in Calls
      BY <1>1, CallIs
    <2> HIDE DEF m
    <2>3. m.calls = [d \in Ids |-> IF d = c THEN [k.calls[c] EXCEPT !.st = "DISCONNECTED"]
                                   ELSE k.calls[d]]
      BY <1>4, <2>1
    <2>4. \A d \in Ids \ {c} : m.calls[d] = k.calls[d]
      BY <2>3
    <2>5. [m.calls EXCEPT ![c] = NoCall] = t
      BY <2>1, <2>3
    <2>6. [k.calls[c] EXCEPT !.st = "DISCONNECTED"].st = "DISCONNECTED"
      BY <2>2 DEF NoCall, Calls
    <2>7. m.calls[c].st = "DISCONNECTED"
      BY <2>3, <2>6
    <2> QED BY <2>4, <2>5, <2>7
  <1> HIDE DEF t
  <1>6. g \in Desks /\ g.calls = t /\ g.reqs = k.reqs
    BY <1>2, <1>3 DEF Desks
  <1>7. hold = HoldCallOf(g)
    <2>1. \A d \in Ids : m.calls[d].st = "HOLDING" <=> g.calls[d].st = "HOLDING"
      BY <1>1, <1>2, <1>5, <1>6
    <2> HIDE DEF m, g
    <2> QED BY <2>1 DEF HoldCallOf
  <1>8. Puts(k, g, c, "NONE")
    BY <1>1, <1>2, <1>6 DEF Puts
  <1>9. n = g \/ (hold # 0 /\ n = UnHoldCall(g, hold))
    <2>1. CASE RecoverHeldCall(m, c, prior) = m
      <3>1. n = [m EXCEPT !.calls[c] = NoCall]
        BY <2>1
      <3>2. [m EXCEPT !.calls[c] = NoCall] = g
        BY <1>3, <1>4, <1>5 DEF SetState, Desks
      <3> QED BY <3>1, <3>2
    <2>2. CASE hold # 0 /\ RecoverHeldCall(m, c, prior) = UnHoldCall(m, hold)
      <3>1. hold \in Ids /\ hold # c
        BY <1>1, <1>2, <1>6, <1>7, <2>2, HoldIs
      <3>2. m.calls[hold] = g.calls[hold]
        BY <1>2, <1>5, <1>6, <3>1
      <3> DEFINE slot == g.calls[hold].slot
                 q == [k.reqs EXCEPT ![slot] = Append(@, [op |-> "unhold", call |-> hold])]
      <3>3. UnHoldCall(m, hold) = [m EXCEPT !.reqs = q]
        BY <1>4, <3>2 DEF UnHoldCall, Send
      <3>4. UnHoldCall(g, hold) = [g EXCEPT !.reqs = q]
        BY <1>6 DEF UnHoldCall, Send
      <3> HIDE DEF q, slot
      <3>5. [[m EXCEPT !.reqs = q] EXCEPT !.calls[c] = NoCall] = [g EXCEPT !.reqs = q]
        BY <1>3, <1>4, <1>5 DEF SetState, Desks
      <3> QED BY <2>2, <3>3, <3>4, <3>5
    <2>3. RecoverHeldCall(m, c, prior) = m
            \/ (hold # 0 /\ RecoverHeldCall(m, c, prior) = UnHoldCall(m, hold))
      BY DEF RecoverHeldCall
    <2> QED BY <2>1, <2>2, <2>3
  <1>10. hold # 0 => Tidy(g, UnHoldCall(g, hold))
    <2>1. hold # 0 => hold \in Ids /\ There(g.calls[hold])
      BY <1>6, <1>7, HoldIs
    <2> HIDE DEF hold
    <2> QED BY <1>6, <2>1, AskTidy
  <1>11. Puts(k, n, c, "NONE")
    <2> HIDE DEF n, hold, g
    <2> QED BY <1>8, <1>9, <1>10, PutsTidy
  <1> QED BY <1>11

\* The first report, which finds its call unless it is a new call's.
LEMMA FirstReport ==
  ASSUME Inv, reports # <<>>
  PROVE  /\ Head(reports) \in Reports /\ Head(reports).call \in Ids
         /\ Head(reports).st \in States \cup {"DISCONNECTED"}
         /\ Head(reports).st \notin New => There(calls[Head(reports).call])
  <1>1. reports \in Seq(Reports)
    BY Standing
  <1>2. Head(reports) = reports[1] /\ Head(reports) \in Reports /\ 1 \in 1..Len(reports)
    BY <1>1, TailIs
  <1>3. Introduced(calls, reports, Head(reports).call, 1)
    BY <1>2, Standing DEF Accounts
  <1>4. Head(reports).st \notin New => There(calls[Head(reports).call])
    BY <1>2, <1>3 DEF Introduced
  <1> QED BY <1>2, <1>4 DEF Reports

\* A step that handles the first report.
LEMMA ReportStep ==
  ASSUME Inv, reports # <<>>, reports' = Tail(reports), NEW n, NEW st,
         Puts(Desk, n, Head(reports).call, st), calls' = n.calls, reqs' = n.reqs,
         \/ Head(reports).st = "DISCONNECTED" /\ st = "NONE"
         \/ Head(reports).st \in States /\ st = Head(reports).st
         \/ /\ Head(reports).st = "ALERTING" /\ st = "DISCONNECTING"
            /\ calls[Head(reports).call].st = st,
         pending' \in Rooms \cup {Nothing},
         UNCHANGED <<mode, flag, task, modem, used>>
  PROVE  Inv'
  <1> DEFINE r == Head(reports)
             c == r.call
  <1>1. c \in Ids
    BY FirstReport
  <1>2. reports \in Seq(Reports) /\ Tail(reports) \in Seq(Reports)
    BY Standing, TailIs
  <1>3. calls' \in Tables /\ reqs' \in [Slots -> Seq(Requests)]
    BY DEF Puts, Desks
  <1>4. TypeOK'
    BY <1>2, <1>3, Standing DEF TypeOK, Tables, ModemTables, task
  <1>5. calls'[c].st = st /\ \A d \in Ids : d # c => calls'[d].st = calls[d].st
    BY Standing DEF Puts
  <1>6. IF r.st = "DISCONNECTED" THEN ~There(calls'[c])
        ELSE \/ There(calls'[c]) /\ calls'[c].st = r.st
             \/ calls'[c].st = calls[c].st /\ calls[c].st = "DISCONNECTING"
    BY <1>5 DEF There, States, RingingStates
  <1>7. Accounts(calls', Tail(reports), modem, used.calls)
    BY <1>2, <1>5, <1>6, Standing, TailAccounts
  <1> QED BY <1>4, <1>7, Primed DEF Inv

\* The counts and flags a handler takes before it goes on.
LEMMA RoomIs ==
  ASSUME Inv, NEW k, NEW c \in Ids, There(calls[c]), NEW ended \in BOOLEAN
  PROVE  Room(k, c, ended) \in Rooms
  <1>1. calls[c] \in Calls
    BY Standing, CallIs
  <1>2. GetCallNum(k, "ACTIVE") \in 0..MaxCalls /\ GetCallNum(k, "WAITING") \in 0..MaxCalls
    BY CountIs
  <1>3. (calls[c].kind = "video") \in BOOLEAN
    OBVIOUS
  <1> QED BY <1>1, <1>2, <1>3 DEF Room, Rooms, Calls

\* HandleCallReportInfo, by report.
LEMMA StepReport == ASSUME Inv, HandleCallReportInfo PROVE Inv'
  <1> DEFINE r == Head(reports)
             c == r.call
  <1>1. /\ reports # <<>> /\ reports' = Tail(reports)
        /\ UNCHANGED <<mode, flag, task, modem, used>>
    BY DEF HandleCallReportInfo
  <1>2. /\ r \in Reports /\ c \in Ids /\ r.st \in States \cup {"DISCONNECTED"}
        /\ r.st \notin New => There(calls[c])
    BY <1>1, FirstReport
  <1>3. Desk \in Desks /\ Desk.calls = calls /\ pending \in Rooms \cup {Nothing}
    BY Standing
  <1>4. \A k, st : Puts(Desk, k, c, st) => Puts(Desk, HandleDsdaInfo(k, r.slot), c, st)
    <2>1. TAKE k, st
    <2>2. HAVE Puts(Desk, k, c, st)
    <2>3. Tidy(k, HandleDsdaInfo(k, r.slot))
      BY <2>2, DsdaInfoTidy DEF Puts
    <2> QED BY <1>2, <2>2, <2>3, PutsTidy
  <1>5. CASE r.st = "HOLDING" /\ HoldingHandle(r)
    <2> DEFINE k == SetState(Desk, c, "HOLDING")
    <2>1. There(calls[c])
      BY <1>2, <1>5 DEF New, RingingStates
    <2>2. Puts(Desk, k, c, "HOLDING")
      BY <1>2, <1>3, <2>1, StatePuts DEF States
    <2>3. \/ Become(k) /\ pending' = Room(k, c, FALSE)
          \/ Become(HandleDsdaInfo(k, r.slot)) /\ UNCHANGED pending
      BY <1>5 DEF HoldingHandle
    <2>4. Room(k, c, FALSE) \in Rooms
      BY <1>2, <2>1, RoomIs
    <2> HIDE DEF k
    <2>5. pending' \in Rooms \cup {Nothing}
      BY <1>3, <2>3, <2>4
    <2>6. \E n : Puts(Desk, n, c, "HOLDING") /\ calls' = n.calls /\ reqs' = n.reqs
      BY <1>4, <2>2, <2>3 DEF Become
    <2> QED BY <1>1, <1>5, <2>5, <2>6, ReportStep DEF States
  <1>6. CASE r.st = "DISCONNECTED" /\ DisconnectedHandle(r)
    <2> DEFINE k == SetState(Desk, c, "DISCONNECTED")
               m == RecoverHeldCall(k, c, calls[c].st)
               n == [m EXCEPT !.calls[c] = NoCall]
    <2>1. There(calls[c])
      BY <1>2, <1>6 DEF New, RingingStates
    <2>2. Puts(Desk, n, c, "NONE")
      BY <1>2, <1>3, DisconnectedDoes
    <2>3. Become(n) /\ pending' = Room(k, c, TRUE)
      BY <1>6 DEF DisconnectedHandle
    <2>4. pending' \in Rooms \cup {Nothing}
      BY <1>2, <2>1, <2>3, RoomIs
    <2> HIDE DEF n
    <2>5. calls' = n.calls /\ reqs' = n.reqs
      BY <2>3 DEF Become
    <2> QED BY <1>1, <1>6, <2>2, <2>4, <2>5, ReportStep
  <1>7. CASE r.st \notin {"HOLDING", "DISCONNECTED"} /\ HandlePlainReport(r)
    <2>1. pending' \in Rooms \cup {Nothing} /\ r.st \in States
      BY <1>2, <1>3, <1>7 DEF HandlePlainReport
    <2>2. CASE r.st \in New
      <3> DEFINE k == [Desk EXCEPT !.calls[c] = NewCall(r)]
      <3>1. Become(HandleDsdaInfo(k, r.slot))
        BY <1>7, <2>2 DEF HandlePlainReport, New, RingingStates
      <3>2. Puts(Desk, k, c, r.st)
        BY <1>2, <1>3, <2>2, NewPuts
      <3> HIDE DEF k
      <3>3. \E n : Puts(Desk, n, c, r.st) /\ calls' = n.calls /\ reqs' = n.reqs
        BY <1>4, <3>1, <3>2 DEF Become
      <3> QED BY <1>1, <2>1, <3>3, ReportStep
    <2>3. CASE r.st = "ACTIVE"
      <3>1. Become(HandleDsdaInfo(ActiveHandle(Desk, c), r.slot))
        BY <1>7, <2>3 DEF HandlePlainReport, RingingStates
      <3>2. There(calls[c])
        BY <1>2, <2>3 DEF New, RingingStates
      <3>3. Puts(Desk, ActiveHandle(Desk, c), c, "ACTIVE")
        BY <1>2, <1>3, <3>2, ActivePuts
      <3>4. \E n : Puts(Desk, n, c, "ACTIVE") /\ calls' = n.calls /\ reqs' = n.reqs
        BY <1>4, <3>1, <3>3 DEF Become
      <3> QED BY <1>1, <2>1, <2>3, <3>4, ReportStep
    <2>4. CASE r.st = "ALERTING" /\ calls[c].st = "DISCONNECTING"
      <3>1. Become(HandleDsdaInfo(Desk, r.slot))
        BY <1>7, <2>4 DEF HandlePlainReport, RingingStates
      <3>2. Puts(Desk, Desk, c, "DISCONNECTING")
        BY <1>3, <2>4 DEF Puts
      <3>3. \E n : Puts(Desk, n, c, "DISCONNECTING") /\ calls' = n.calls /\ reqs' = n.reqs
        BY <1>4, <3>1, <3>2 DEF Become
      <3> QED BY <1>1, <2>1, <2>4, <3>3, ReportStep
    <2>5. CASE /\ r.st \notin New /\ r.st # "ACTIVE"
               /\ ~(r.st = "ALERTING" /\ calls[c].st = "DISCONNECTING")
      <3>1. Become(HandleDsdaInfo(SetState(Desk, c, r.st), r.slot))
        BY <1>7, <2>5 DEF HandlePlainReport, New
      <3>2. Puts(Desk, SetState(Desk, c, r.st), c, r.st)
        BY <1>2, <1>3, <2>1, <2>5, StatePuts
      <3>3. \E n : Puts(Desk, n, c, r.st) /\ calls' = n.calls /\ reqs' = n.reqs
        BY <1>4, <3>1, <3>2 DEF Become
      <3> QED BY <1>1, <2>1, <3>3, ReportStep
    <2> QED BY <2>2, <2>3, <2>4, <2>5
  <1>8. \/ r.st = "HOLDING" /\ HoldingHandle(r)
        \/ r.st = "DISCONNECTED" /\ DisconnectedHandle(r)
        \/ r.st \notin {"HOLDING", "DISCONNECTED"} /\ HandlePlainReport(r)
    BY DEF HandleCallReportInfo
  <1> QED BY <1>5, <1>6, <1>7, <1>8

\* The rest of the handler.
LEMMA StepRoom == ASSUME Inv, HandleRoom PROVE Inv'
  <1> DEFINE k == IF mode = "V5" THEN AutoHandleForDsda(Desk, pending)
                  ELSE AutoHandleForDsds(Desk, pending)
             n == HandleDsdaInfo(k, pending.slot)
  <1>1. Become(n) /\ pending' = Nothing /\ UNCHANGED <<mode, flag, task, reports, modem, used>>
    BY DEF HandleRoom
  <1>2. Tidy(Desk, k)
    BY Standing, RoomTidy
  <1> HIDE DEF k
  <1>3. Tidy(Desk, n)
    <2>1. k \in Desks
      BY <1>2 DEF Tidy
    <2> QED BY <1>2, <2>1, DsdaInfoTidy, TidyTrans
  <1> HIDE DEF n
  <1>4. Keeping(n)
    BY <1>1, <1>3, BecomeKeeps
  <1> QED BY <1>1, <1>4, Standing, TidyStep DEF task
-----------------------------------------------------------------------------
(* The user's other requests *)

\* A request of the user that sends something, or marks a call.
LEMMA AskStep ==
  ASSUME Inv, NEW n, Tidy(Desk, n), Become(n), NEW c \in 0..MaxCalls, Asks(c),
         UNCHANGED <<mode, flag, task, pending, reports, modem>>
  PROVE  Inv'
  <1>1. Ready /\ used' = [used EXCEPT !.ops = @ + 1, !.resume = c]
    BY DEF Asks
  <1>2. /\ used' \in [calls: 0..MaxCalls, ops: 0..MaxOps, resume: 0..MaxCalls]
        /\ used'.calls = used.calls
    BY <1>1, CountsAsked
  <1>3. Keeping(n)
    BY BecomeKeeps
  <1> QED BY <1>2, <1>3, Standing, TidyStep DEF task

\* RejectRequest keeps it.
LEMMA StepReject == ASSUME Inv, NEW c \in Ids, RejectRequest(c) PROVE Inv'
  <1> DEFINE hold == HoldCallOf(Desk)
             k == HangUpCall(Desk, c)
             n == [k EXCEPT !.calls[hold].canUnHold = FALSE]
  <1>1. /\ Asks(0) /\ Rings(calls[c]) /\ Become(IF hold = 0 THEN k ELSE n)
        /\ UNCHANGED <<mode, flag, task, pending, reports, modem>>
    BY DEF RejectRequest
  <1>2. There(calls[c])
    BY <1>1 DEF Rings, RingingStates, There
  <1>3. Tidy(Desk, k) /\ k.calls = Desk.calls
    BY <1>2, Standing, AskTidy
  <1>4. hold # 0 => hold \in Ids /\ There(Desk.calls[hold])
    BY Standing, HoldIs
  <1> HIDE DEF k, hold
  <1>5. hold # 0 => Tidy(Desk, n)
    <2>1. SUFFICES ASSUME hold # 0 PROVE Tidy(Desk, n)
      OBVIOUS
    <2> DEFINE x == [k.calls[hold] EXCEPT !.canUnHold = FALSE]
    <2>2. k \in Desks
      BY <1>3 DEF Tidy
    <2>3. k.calls[hold] \in Calls /\ There(k.calls[hold])
      BY <1>3, <1>4, <2>1, <2>2, DeskIs, CallIs
    <2>4. x \in Calls /\ x.st = k.calls[hold].st
      BY <2>3 DEF Calls
    <2>5. n = [k EXCEPT !.calls[hold] = x]
      BY <2>2 DEF Desks
    <2> HIDE DEF x, n
    <2>6. Tidy(k, n)
      BY <1>4, <2>1, <2>2, <2>3, <2>4, <2>5, WriteTidy
    <2> QED BY <1>3, <2>6, TidyTrans
  <1> HIDE DEF n
  <1>6. 0 \in 0..MaxCalls
    BY ArbitrationAssumption
  <1> QED BY <1>1, <1>3, <1>5, <1>6, AskStep

\* HangUpRequest keeps it.
LEMMA StepHangUp == ASSUME Inv, NEW c \in Ids, HangUpRequest(c) PROVE Inv'
  <1>1. /\ Asks(0) /\ There(calls[c])
        /\ \E op \in {"hangup", "hangupActive"} : Become(Send(Desk, op, c, calls[c].slot))
        /\ UNCHANGED <<mode, flag, task, pending, reports, modem>>
    BY DEF HangUpRequest
  <1>2. calls[c].slot \in Slots
    BY <1>1, Standing, CallIs DEF Calls
  <1>3. PICK op \in {"hangup", "hangupActive"} : Become(Send(Desk, op, c, calls[c].slot))
    BY <1>1
  <1>4. Tidy(Desk, Send(Desk, op, c, calls[c].slot))
    BY <1>2, Standing, SendTidy
  <1>5. 0 \in 0..MaxCalls
    BY ArbitrationAssumption
  <1> QED BY <1>1, <1>3, <1>4, <1>5, AskStep

\* HoldRequest keeps it.
LEMMA StepHold == ASSUME Inv, NEW c \in Ids, HoldRequest(c) PROVE Inv'
  <1>1. /\ Asks(0) /\ calls[c].st = "ACTIVE" /\ Become(HoldCall(Desk, c))
        /\ UNCHANGED <<mode, flag, task, pending, reports, modem>>
    BY DEF HoldRequest
  <1>2. Tidy(Desk, HoldCall(Desk, c))
    BY <1>1, Standing, AskTidy DEF There
  <1>3. 0 \in 0..MaxCalls
    BY ArbitrationAssumption
  <1> QED BY <1>1, <1>2, <1>3, AskStep

\* UnHoldRequest keeps it.
LEMMA StepUnHold == ASSUME Inv, NEW c \in Ids, UnHoldRequest(c) PROVE Inv'
  <1> DEFINE k == [Desk EXCEPT !.calls[c].canUnHold = TRUE]
             other == IsExistCallOtherSlot(k, k.calls[c].slot)
             active == {d \in Ids : k.calls[d].st = "ACTIVE"}
             x == First(active)
             swap == mode = "V5" /\ other /\ active # {} /\ k.calls[x].canSwitch
             m == [k EXCEPT !.calls[x].canSwitch = FALSE]
             resume == IF (swap \/ ~other) /\ GetCurrentCallNum(k) < 3 THEN c ELSE 0
  <1>1. /\ Asks(resume) /\ calls[c].st = "HOLDING"
        /\ Become(IF swap THEN HoldCall(m, x) ELSE IF other THEN k ELSE UnHoldCall(k, c))
        /\ UNCHANGED <<mode, flag, task, pending, reports, modem>>
    BY DEF UnHoldRequest
  <1>2. There(calls[c])
    BY <1>1 DEF There
  <1>3. Tidy(Desk, k)
    <2> DEFINE y == [calls[c] EXCEPT !.canUnHold = TRUE]
    <2>1. calls[c] \in Calls
      BY <1>2, Standing, CallIs
    <2>2. y \in Calls /\ y.st = calls[c].st
      BY <2>1 DEF Calls
    <2>3. k = [Desk EXCEPT !.calls[c] = y]
      BY DEF Desk
    <2> HIDE DEF y, k
    <2> QED BY <1>2, <2>2, <2>3, Standing, WriteTidy
  <1> HIDE DEF k
  <1>4. k \in Desks /\ There(k.calls[c])
    BY <1>2, <1>3, Standing DEF Tidy, SameCalls, There
  <1>5. active # {} => x \in Ids /\ There(k.calls[x])
    <2>1. active \in SUBSET Nat
      BY DEF Ids
    <2>2. active # {} => x \in active
      BY <2>1, FirstIn
    <2> QED BY <2>2 DEF There
  <1> HIDE DEF active, x
  <1>6. ASSUME active # {} PROVE Tidy(k, m) /\ There(m.calls[x])
    <2> DEFINE y == [k.calls[x] EXCEPT !.canSwitch = FALSE]
    <2>1. k.calls[x] \in Calls
      BY <1>4, <1>5, <1>6, DeskIs, CallIs
    <2>2. y \in Calls /\ y.st = k.calls[x].st
      BY <2>1 DEF Calls
    <2>3. m = [k EXCEPT !.calls[x] = y]
      BY <1>4 DEF Desks
    <2> HIDE DEF y, m
    <2>4. Tidy(k, m)
      BY <1>4, <1>5, <1>6, <2>2, <2>3, WriteTidy
    <2> QED BY <1>5, <1>6, <2>4 DEF Tidy, SameCalls, There
  <1> HIDE DEF m
  <1>7. active # {} => Tidy(Desk, HoldCall(m, x))
    <2>1. SUFFICES ASSUME active # {} PROVE Tidy(Desk, HoldCall(m, x))
      OBVIOUS
    <2>2. m \in Desks /\ Tidy(Desk, m)
      BY <1>3, <1>6, <2>1, TidyTrans DEF Tidy
    <2>3. Tidy(m, HoldCall(m, x))
      BY <1>5, <1>6, <2>1, <2>2, AskTidy
    <2> QED BY <2>2, <2>3, TidyTrans
  <1>8. Tidy(Desk, UnHoldCall(k, c))
    BY <1>3, <1>4, AskTidy, TidyTrans
  <1>9. swap => active # {}
    OBVIOUS
  <1>10. resume \in 0..MaxCalls
    BY ArbitrationAssumption DEF Ids
  <1> HIDE DEF swap, other, resume
  <1> QED BY <1>1, <1>3, <1>7, <1>8, <1>9, <1>10, AskStep
-----------------------------------------------------------------------------
(* The modems *)

\* l says of each call of S that it is st, and nothing else.
SaysOf(l, S, st) == /\ l \in Seq(Reports)
                    /\ \A i \in 1..Len(l) : l[i].call \in S /\ l[i].st = st
                    /\ \A c \in S : \E i \in 1..Len(l) : l[i].call = c

\* The reports about a set of calls.
LEMMA SayAllIs ==
  ASSUME Inv, NEW S \in SUBSET Ids, \A c \in S : There(modem[c]),
         NEW st \in {"ALERTING", "ACTIVE", "HOLDING", "DISCONNECTING"}
  PROVE  SaysOf(SayAll(S, st), S, st)
  <1> DEFINE q == Listed(S)
             l == SayAll(S, st)
  <1>1. /\ q \in Seq(S) /\ Len(q) \in Nat /\ DOMAIN q = 1..Len(q)
        /\ \A i \in 1..Len(q) : q[i] \in S
    BY ListedIs
  <1>2. \A c \in S : \E i \in 1..Len(q) : q[i] = c
    <2>1. S \cap 1..MaxCalls = S /\ MaxCalls \in Nat
      BY ArbitrationAssumption DEF Ids
    <2> QED BY <2>1, AscendingEnumerates DEF Listed, Enumerates
  <1>3. l = [i \in DOMAIN q |-> Says(q[i], st)]
    BY DEF SayAll
  <1>4. \A c \in S : Says(c, st) \in Reports /\ Says(c, st).call = c /\ Says(c, st).st = st
    <2>1. TAKE c \in S
    <2>2. modem[c].slot \in Slots
      BY Standing, ModemCallIs DEF ModemCalls
    <2>3. "voice" \in Kinds \cup {"voice"} /\ st \in States \cup {"DISCONNECTED"}
      BY DEF States
    <2> QED BY <2>2, <2>3 DEF Says, Reports
  <1> HIDE DEF q, l
  <1>5. l \in Seq(Reports) /\ Len(l) = Len(q)
    <2>1. l = [i \in 1..Len(q) |-> Says(q[i], st)]
      BY <1>1, <1>3
    <2>2. \A i \in 1..Len(q) : Says(q[i], st) \in Reports
      BY <1>1, <1>4
    <2> QED BY <1>1, <2>1, <2>2
  <1>6. \A i \in 1..Len(l) : l[i] = Says(q[i], st)
    BY <1>1, <1>3, <1>5
  <1>7. \A i \in 1..Len(l) : l[i].call = q[i] /\ l[i].call \in S /\ l[i].st = st
    BY <1>1, <1>4, <1>5, <1>6
  <1>8. \A c \in S : \E i \in 1..Len(l) : l[i].call = c
    BY <1>2, <1>5, <1>7
  <1> QED BY <1>5, <1>7, <1>8 DEF l, SaysOf

\* A report about one call.
LEMMA SaysIs ==
  ASSUME Inv, NEW c \in Ids, There(modem[c]), NEW st \in States \cup {"DISCONNECTED"}
  PROVE  Says(c, st) \in Reports /\ Says(c, st).call = c /\ Says(c, st).st = st
  <1>1. modem[c].slot \in Slots
    BY Standing, ModemCallIs DEF ModemCalls
  <1>2. "voice" \in Kinds \cup {"voice"}
    OBVIOUS
  <1> QED BY <1>1, <1>2 DEF Says, Reports

\* A step of the modems.
LEMMA ModemStep ==
  ASSUME Inv, NEW l \in Seq(Reports), reports' = reports \o l,
         modem' \in ModemTables, Reported(calls, reports, l, modem, modem'),
         reqs' \in [Slots -> Seq(Requests)],
         used' \in [calls: 0..MaxCalls, ops: 0..MaxOps, resume: 0..MaxCalls],
         \A c \in Ids : c > used'.calls => c > used.calls /\ ~There(modem'[c]),
         UNCHANGED <<mode, calls, flag, answer, accepted, pending>>
  PROVE  Inv'
  <1>1. reports \in Seq(Reports) /\ reports' \in Seq(Reports)
    BY Standing, ConcatIs
  <1>2. TypeOK'
    BY <1>1, Standing DEF TypeOK, Tables, ModemTables
  <1>3. Accounts(calls, reports', modem', used'.calls)
    BY <1>1, Standing, ExtendAccounts
  <1> QED BY <1>2, <1>3, Primed DEF Inv

\* As many calls as before.
LEMMA SameCount ==
  ASSUME Inv, used'.calls = used.calls, \A c \in Ids : There(modem'[c]) => There(modem[c])
  PROVE  \A c \in Ids : c > used'.calls => c > used.calls /\ ~There(modem'[c])
  BY Standing DEF Accounts

\* The modems' calls become n, no call is new, and the reports added say so.
Heard(m, rs, n, ss) ==
  /\ n \in ModemTables
  /\ \A x \in Ids : There(n[x]) => There(m[x])
  /\ \E l \in Seq(Reports) : ss = rs \o l /\ Reported(calls, rs, l, m, n)

\* The calls of a become st, those of b become tt.
LEMMA MovesReport ==
  ASSUME Inv, NEW a \in SUBSET Ids, NEW b \in SUBSET Ids,
         \A c \in a \cup b : There(modem[c]), a \cap b = {},
         NEW st \in {"ALERTING", "ACTIVE", "HOLDING"},
         NEW tt \in {"ALERTING", "ACTIVE", "HOLDING"}, Moves(a, st, b, tt)
  PROVE  Heard(modem, reports, modem', reports')
  <1> DEFINE la == SayAll(a, st)
             lb == SayAll(b, tt)
             l == la \o lb
  <1>0. /\ \A c \in a : There(modem[c])
        /\ \A c \in b : There(modem[c])
        /\ st \in {"ALERTING", "ACTIVE", "HOLDING", "DISCONNECTING"}
        /\ tt \in {"ALERTING", "ACTIVE", "HOLDING", "DISCONNECTING"}
    OBVIOUS
  <1>1. /\ la \in Seq(Reports)
        /\ \A i \in 1..Len(la) : la[i].call \in a /\ la[i].st = st
        /\ \A c \in a : \E i \in 1..Len(la) : la[i].call = c
    <2>1. SaysOf(la, a, st)
      BY <1>0, SayAllIs
    <2> HIDE DEF la, lb
    <2> QED BY <2>1 DEF SaysOf
  <1>2. /\ lb \in Seq(Reports)
        /\ \A i \in 1..Len(lb) : lb[i].call \in b /\ lb[i].st = tt
        /\ \A c \in b : \E i \in 1..Len(lb) : lb[i].call = c
    <2>1. SaysOf(lb, b, tt)
      BY <1>0, SayAllIs
    <2> HIDE DEF la, lb
    <2> QED BY <2>1 DEF SaysOf
  <1>3. modem \in ModemTables
    BY Standing
  <1>4. \A c \in Ids : modem'[c] = IF c \in a THEN [modem[c] EXCEPT !.st = st]
                                   ELSE IF c \in b THEN [modem[c] EXCEPT !.st = tt] ELSE modem[c]
    BY DEF Moves
  <1>5. ASSUME NEW c \in a \cup b, NEW x \in {st, tt}
        PROVE  [modem[c] EXCEPT !.st = x] \in ModemCalls /\ [modem[c] EXCEPT !.st = x].st = x
    <2>1. modem[c] \in ModemCalls
      BY <1>3, ModemCallIs
    <2> QED BY <2>1 DEF ModemCalls
  <1>6. \A c \in Ids : /\ modem'[c] \in ModemCalls \cup {NoCall}
                       /\ c \in a => modem'[c].st = st
                       /\ c \in b => modem'[c].st = tt
                       /\ c \notin a \cup b => modem'[c] = modem[c]
    BY <1>3, <1>4, <1>5 DEF ModemTables
  <1>7. modem' \in ModemTables
    <2>1. modem' = [c \in Ids |-> modem'[c]]
      BY DEF Moves
    <2> QED BY <1>6, <2>1 DEF ModemTables
  <1>8. reports' = reports \o l
    <2>1. reports' = (reports \o la) \o lb
      BY DEF Moves
    <2>2. reports \in Seq(Reports)
      BY Standing
    <2> HIDE DEF la, lb
    <2> QED BY <1>1, <1>2, <2>1, <2>2, ConcatAssociative, SMTT(30)
  <1> HIDE DEF la, lb
  <1>9. /\ l \in Seq(Reports) /\ Len(la) \in Nat /\ Len(lb) \in Nat
        /\ \A i \in 1..Len(la) : l[i] = la[i] /\ i \in 1..Len(l)
        /\ \A i \in 1..Len(lb) : Len(la) + i \in 1..Len(l) /\ l[Len(la) + i] = lb[i]
        /\ \A i \in 1..Len(l) : i \in 1..Len(la)
                                \/ (i - Len(la) \in 1..Len(lb) /\ l[i] = lb[i - Len(la)])
    BY <1>1, <1>2, ConcatIs
  <1> HIDE DEF l
  <1>10. \A i \in 1..Len(l) : \/ l[i].call \in a /\ l[i].st = st
                              \/ l[i].call \in b /\ l[i].st = tt
    <2>1. TAKE i \in 1..Len(l)
    <2>2. CASE i \in 1..Len(la)
      BY <1>1, <1>9, <2>2
    <2>3. CASE i \notin 1..Len(la)
      BY <1>2, <1>9, <2>3, SMTT(30)
    <2> QED BY <2>2, <2>3
  <1>11. \A c \in a \cup b : \E i \in 1..Len(l) : l[i].call = c
    <2>1. ASSUME NEW c \in a PROVE \E i \in 1..Len(l) : l[i].call = c
      <3>1. PICK i \in 1..Len(la) : la[i].call = c
        BY <1>1
      <3> QED BY <1>9, <3>1
    <2>2. ASSUME NEW c \in b PROVE \E i \in 1..Len(l) : l[i].call = c
      <3>1. PICK i \in 1..Len(lb) : lb[i].call = c
        BY <1>2
      <3> QED BY <1>9, <3>1
    <2> QED BY <2>1, <2>2
  <1>12. \A c \in Ids : There(modem'[c]) <=> There(modem[c])
    BY <1>6 DEF There
  <1>13. Reported(calls, reports, l, modem, modem')
    <2>1. \A i \in 1..Len(l) : There(modem[l[i].call])
      BY <1>10
    <2>2. \A i \in 1..Len(l) : l[i].st \notin Ending /\ l[i].st # "DISCONNECTED"
      BY <1>10 DEF Ending
    <2>3. \A c \in Ids : Lives(l, c)
      BY <2>2 DEF Lives
    <2>4. \A c \in Ids : From(l, c, 1, modem'[c].st)
      <3>1. SUFFICES ASSUME NEW c \in Ids, NEW j \in 1..Len(l), l[j].call = c
                     PROVE  Shows(l[j].st, modem'[c].st)
        BY DEF From
      <3>2. l[j].st = modem'[c].st
        BY <1>6, <1>10, <3>1
      <3>3. l[j].st \notin RingingStates
        BY <1>10 DEF RingingStates
      <3> QED BY <3>2, <3>3 DEF Shows
    <2>5. \A c \in Ids : modem'[c].st = modem[c].st \/ \E i \in 1..Len(l) : l[i].call = c
      BY <1>6, <1>11
    <2> QED BY <1>12, <2>1, <2>2, <2>3, <2>4, <2>5 DEF Reported
  <1> QED BY <1>7, <1>8, <1>9, <1>12, <1>13 DEF Heard

\* Nothing is reported where nothing happens.
LEMMA IdleReport ==
  ASSUME Inv, UNCHANGED <<modem, reports>>
  PROVE  Heard(modem, reports, modem', reports')
  <1> DEFINE l == <<>>
  <1>1. l \in Seq(Reports) /\ reports \in Seq(Reports) /\ modem \in ModemTables
    BY Standing, EmptySeq
  <1>2. reports \o l = reports
    BY <1>1, ConcatEmptySeq
  <1>3. Reported(calls, reports, l, modem, modem')
    BY DEF Reported, Lives, From, Ended
  <1> QED BY <1>1, <1>2, <1>3 DEF Heard

\* The end of call c, of which d does or does not tell before, while the calls of S
\* begin to speak.
LEMMA EndReport ==
  ASSUME Inv, NEW c \in Ids, There(modem[c]), NEW S \in SUBSET (Ids \ {c}),
         \A x \in S : There(modem[x]),
         modem' = [x \in Ids |-> IF x = c THEN NoCall
                                 ELSE IF x \in S THEN [modem[x] EXCEPT !.st = "ACTIVE"]
                                 ELSE modem[x]],
         NEW d \in {<<Says(c, "DISCONNECTING"), Says(c, "DISCONNECTED")>>,
                    <<Says(c, "DISCONNECTED")>>},
         NEW e, SaysOf(e, S, "ACTIVE"), reports' = reports \o (d \o e)
  PROVE  Heard(modem, reports, modem', reports')
  <1> DEFINE l == d \o e
             N == Len(d)
  <1>1. modem \in ModemTables /\ ~There(NoCall)
    BY Standing DEF There, NoCall
  <1>2. \A x \in S : /\ [modem[x] EXCEPT !.st = "ACTIVE"] \in ModemCalls
                     /\ [modem[x] EXCEPT !.st = "ACTIVE"].st = "ACTIVE"
    <2>1. \A x \in S : modem[x] \in ModemCalls
      BY <1>1, ModemCallIs
    <2> QED BY <2>1 DEF ModemCalls
  <1>3. \A x \in Ids : /\ modem'[x] \in ModemCalls \cup {NoCall}
                       /\ x = c => modem'[x] = NoCall
                       /\ x \in S => modem'[x].st = "ACTIVE"
                       /\ x \notin S \cup {c} => modem'[x] = modem[x]
    BY <1>1, <1>2 DEF ModemTables
  <1>4. modem' \in ModemTables
    <2>1. modem' = [x \in Ids |-> modem'[x]]
      OBVIOUS
    <2> QED BY <1>3, <2>1 DEF ModemTables
  <1>5. /\ d \in Seq(Reports) /\ N \in {1, 2}
        /\ d[N].call = c /\ d[N].st = "DISCONNECTED"
        /\ \A i \in 1..N : d[i].call = c /\ (i < N => d[i].st # "DISCONNECTED")
    <2> DEFINE a == Says(c, "DISCONNECTING")
               b == Says(c, "DISCONNECTED")
    <2>1. /\ a \in Reports /\ a.call = c /\ a.st = "DISCONNECTING"
          /\ b \in Reports /\ b.call = c /\ b.st = "DISCONNECTED"
      BY SaysIs DEF States
    <2> HIDE DEF a, b
    <2>2. d = <<a, b>> \/ d = <<b>>
      BY DEF a, b
    <2>3. CASE d = <<a, b>>
      BY <2>1, <2>3
    <2>4. CASE d = <<b>>
      BY <2>1, <2>4
    <2> QED BY <2>2, <2>3, <2>4
  <1>6. /\ e \in Seq(Reports)
        /\ \A i \in 1..Len(e) : e[i].call \in S /\ e[i].st = "ACTIVE"
        /\ \A x \in S : \E i \in 1..Len(e) : e[i].call = x
    BY DEF SaysOf
  <1>7. /\ l \in Seq(Reports) /\ Len(e) \in Nat /\ Len(l) = N + Len(e)
        /\ \A i \in 1..N : l[i] = d[i]
        /\ \A i \in 1..Len(e) : N + i \in 1..Len(l) /\ l[N + i] = e[i]
        /\ \A i \in 1..Len(l) : i \in 1..N \/ (i - N \in 1..Len(e) /\ l[i] = e[i - N])
    BY <1>5, <1>6, ConcatIs
  <1> HIDE DEF l, N
  <1>8. \A i \in 1..Len(l) : \/ i \in 1..N /\ l[i].call = c /\ (i < N => l[i].st # "DISCONNECTED")
                             \/ l[i].call \in S /\ l[i].st = "ACTIVE"
    <2>1. TAKE i \in 1..Len(l)
    <2>2. CASE i \in 1..N
      <3>1. l[i] = d[i]
        BY <1>7, <2>2
      <3>2. d[i].call = c /\ (i < N => d[i].st # "DISCONNECTED")
        BY <1>5, <2>2
      <3> QED BY <2>2, <3>1, <3>2
    <2>3. CASE i \notin 1..N
      <3>1. i - N \in 1..Len(e) /\ l[i] = e[i - N]
        BY <1>7, <2>3
      <3>2. e[i - N].call \in S /\ e[i - N].st = "ACTIVE"
        BY <1>6, <3>1
      <3> QED BY <3>1, <3>2
    <2> QED BY <2>2, <2>3
  <1>9. N \in 1..Len(l) /\ l[N].call = c /\ l[N].st = "DISCONNECTED"
    <2>1. N \in 1..N /\ N \in 1..Len(l)
      BY <1>5, <1>7
    <2>2. l[N] = d[N]
      BY <1>7, <2>1
    <2>3. d[N].call = c /\ d[N].st = "DISCONNECTED"
      BY <1>5
    <2> QED BY <2>1, <2>2, <2>3
  <1>10. \A x \in S : \E i \in 1..Len(l) : l[i].call = x
    <2>1. TAKE x \in S
    <2>2. PICK i \in 1..Len(e) : e[i].call = x
      BY <1>6
    <2> QED BY <1>7, <2>2
  <1>11. \A x \in Ids : There(modem'[x]) <=> (x # c /\ There(modem[x]))
    <2>1. TAKE x \in Ids
    <2>2. CASE x \in S
      BY <1>3, <2>2 DEF There
    <2>3. CASE x \notin S
      BY <1>1, <1>3, <2>3
    <2> QED BY <2>2, <2>3
  <1>12. \A i \in 1..Len(l), x \in Ids \ {c} : l[i].call = x => x \in S /\ l[i].st = "ACTIVE"
    BY <1>8
  <1>13. Reported(calls, reports, l, modem, modem')
    <2>1. \A i \in 1..Len(l) : There(modem[l[i].call])
      BY <1>8
    <2>2. \A i, j \in 1..Len(l) : i < j /\ l[i].call = l[j].call => l[i].st # "DISCONNECTED"
      <3>1. SUFFICES ASSUME NEW i \in 1..Len(l), NEW j \in 1..Len(l), i < j,
                            l[i].call = l[j].call
                     PROVE  l[i].st # "DISCONNECTED"
        OBVIOUS
      <3>2. CASE l[i].call \in S
        BY <1>8, <3>2
      <3>3. CASE l[i].call \notin S
        <4>1. j \in 1..N
          BY <1>8, <3>1, <3>3
        <4>2. i < N
          BY <1>5, <3>1, <4>1 DEF N
        <4> QED BY <1>8, <3>3, <4>2
      <3> QED BY <3>2, <3>3
    <2>3. \A x \in Ids \ {c} : Lives(l, x) /\ From(l, x, 1, modem'[x].st)
      <3>1. TAKE x \in Ids \ {c}
      <3>2. Lives(l, x)
        BY <1>12 DEF Lives, Ending
      <3>3. From(l, x, 1, modem'[x].st)
        BY <1>3, <1>12 DEF From, Shows, RingingStates
      <3> QED BY <3>2, <3>3
    <2>4. \A x \in Ids \ {c} : modem'[x].st = modem[x].st \/ \E i \in 1..Len(l) : l[i].call = x
      BY <1>3, <1>10
    <2>5. Ended(l, c)
      BY <1>9 DEF Ended
    <2> QED BY <1>11, <2>1, <2>2, <2>3, <2>4, <2>5 DEF Reported
  <1> QED BY <1>4, <1>7, <1>11, <1>13 DEF l, Heard

\* A modem carries out a request.
LEMMA StepObeys == ASSUME Inv, NEW s \in Slots, ModemObeys(s) PROVE Inv'
  <1> DEFINE q == Head(reqs[s])
             c == q.call
  <1>1. /\ reqs[s] # <<>> /\ CarryOut(s, q) /\ reqs' = [reqs EXCEPT ![s] = Tail(@)]
        /\ UNCHANGED <<mode, calls, flag, task, pending, used>>
    BY DEF ModemObeys
  <1>2. reqs \in [Slots -> Seq(Requests)]
    BY Standing
  <1>3. q \in Requests /\ Tail(reqs[s]) \in Seq(Requests)
    BY <1>1, <1>2, TailIs
  <1>4. c \in Ids
    BY <1>3 DEF Requests
  <1>5. reqs' \in [Slots -> Seq(Requests)]
    BY <1>1, <1>2, <1>3
  <1>6. \A st : With(s, st) \in SUBSET Ids /\ \A x \in With(s, st) : There(modem[x]) /\ modem[x].st = st
    BY DEF With, OnSlot
  <1>7. /\ NextSpeaker(s) \in SUBSET Ids
        /\ \A x \in NextSpeaker(s) : There(modem[x]) /\ modem[x].st # "ACTIVE"
    BY <1>6 DEF NextSpeaker
  <1> DEFINE Good == Heard(modem, reports, modem', reports')
  <1> DEFINE st == modem[c].st
  <1>8. ASSUME st \in {"RINGING", "HOLDING"},
               Moves(With(s, "ACTIVE"), "HOLDING", {c}, "ACTIVE")
        PROVE  Good
    <2>1. With(s, "ACTIVE") \cap {c} = {} /\ {c} \in SUBSET Ids /\ There(modem[c])
      BY <1>4, <1>6, <1>8 DEF There
    <2> QED BY <1>6, <1>8, <2>1, MovesReport
  <1>9. ASSUME st = "ACTIVE", Moves({c}, "HOLDING", NextSpeaker(s), "ACTIVE")
        PROVE  Good
    <2>1. {c} \cap NextSpeaker(s) = {} /\ {c} \in SUBSET Ids /\ There(modem[c])
      BY <1>4, <1>7, <1>9 DEF There
    <2> QED BY <1>7, <1>9, <2>1, MovesReport
  <1> DEFINE S == IF q.op = "hangupActive" /\ st = "ACTIVE" THEN NextSpeaker(s) ELSE {}
             d == <<Says(c, "DISCONNECTING"), Says(c, "DISCONNECTED")>>
             e == SayAll(S, "ACTIVE")
  <1>10. ASSUME st # "NONE",
                modem' = [x \in Ids |-> IF x = c THEN NoCall
                                        ELSE IF x \in S THEN [modem[x] EXCEPT !.st = "ACTIVE"]
                                        ELSE modem[x]],
                reports' = reports \o d \o e
         PROVE  Good
    <2>1. S \in SUBSET (Ids \ {c}) /\ \A x \in S : There(modem[x])
      BY <1>7
    <2>2. There(modem[c])
      BY <1>10 DEF There
    <2> HIDE DEF S
    <2>3. SaysOf(e, S, "ACTIVE")
      BY <2>1, SayAllIs
    <2>4. /\ Says(c, "DISCONNECTING") \in Reports /\ Says(c, "DISCONNECTED") \in Reports
          /\ reports \in Seq(Reports)
      BY <1>4, <2>2, SaysIs, Standing DEF States
    <2>5. d \in Seq(Reports)
      BY <2>4
    <2> HIDE DEF e
    <2>6. reports' = reports \o (d \o e)
      <3>1. e \in Seq(Reports) /\ reports' = (reports \o d) \o e
        BY <1>10, <2>3 DEF SaysOf
      <3> HIDE DEF d
      <3> QED BY <2>4, <2>5, <3>1, ConcatAssociative, SMTT(30)
    <2> QED BY <1>4, <1>10, <2>1, <2>2, <2>3, <2>6, EndReport
  <1>11. ASSUME UNCHANGED <<modem, reports>> PROVE Good
    BY <1>11, IdleReport
  <1>12. \/ st \in {"RINGING", "HOLDING"} /\ Moves(With(s, "ACTIVE"), "HOLDING", {c}, "ACTIVE")
         \/ st = "ACTIVE" /\ Moves({c}, "HOLDING", NextSpeaker(s), "ACTIVE")
         \/ /\ st # "NONE"
            /\ modem' = [x \in Ids |-> IF x = c THEN NoCall
                                 ELSE IF x \in S THEN [modem[x] EXCEPT !.st = "ACTIVE"]
                                 ELSE modem[x]]
            /\ reports' = reports \o d \o e
         \/ UNCHANGED <<modem, reports>>
    BY <1>1 DEF CarryOut
  <1> HIDE DEF Good
  <1>13. Good
    BY <1>8, <1>9, <1>10, <1>11, <1>12
  <1>14. \A x \in Ids : x > used'.calls => x > used.calls /\ ~There(modem'[x])
    BY <1>1, <1>13, SameCount DEF Good, Heard
  <1>15. used' \in [calls: 0..MaxCalls, ops: 0..MaxOps, resume: 0..MaxCalls]
    BY <1>1, Standing
  <1> QED BY <1>1, <1>5, <1>13, <1>14, <1>15, ModemStep DEF Good, Heard, task

\* A call comes up on slot s and is reported.
LEMMA AppearStep ==
  ASSUME Inv, NEW r \in Reports, NEW v, v \in ModemCalls,
         r.st \in New, Shows(r.st, v.st), r.call = used.calls + 1, used.calls < MaxCalls,
         modem' = [modem EXCEPT ![r.call] = v], reports' = Append(reports, r),
         used' \in [calls: 0..MaxCalls, ops: 0..MaxOps, resume: 0..MaxCalls],
         used'.calls = used.calls + 1,
         UNCHANGED <<mode, calls, reqs, flag, task, pending>>
  PROVE  Inv'
  <1> DEFINE l == <<r>>
             c == r.call
  <1>1. /\ l \in Seq(Reports) /\ Len(l) = 1 /\ l[1] = r /\ reports \in Seq(Reports)
        /\ modem \in ModemTables /\ used.calls \in 0..MaxCalls /\ MaxCalls \in Nat
    BY Standing, ArbitrationAssumption
  <1>2. reports' = reports \o l
    BY <1>1
  <1>3. c \in Ids /\ c > used.calls
    BY <1>1 DEF Ids
  <1>4. ~There(modem[c]) /\ Absent(calls, reports, c)
    BY <1>3, Standing DEF Accounts
  <1>5. There(v)
    BY DEF ModemCalls, There
  <1>6. \A x \in Ids : modem'[x] = IF x = c THEN v ELSE modem[x]
    BY <1>1, <1>3 DEF ModemTables
  <1>7. modem' \in ModemTables
    BY <1>1 DEF ModemTables
  <1>8. \A i \in 1..Len(l) : i = 1 /\ l[i] = r
    BY <1>1
  <1> HIDE DEF l
  <1>9. Reported(calls, reports, l, modem, modem')
    <2>1. \A i \in 1..Len(l) : l[i].st \in New /\ There(modem'[l[i].call])
      BY <1>3, <1>5, <1>6, <1>8
    <2>2. \A i, j \in 1..Len(l) : i < j /\ l[i].call = l[j].call => l[i].st # "DISCONNECTED"
      BY <1>8
    <2>3. \A x \in Ids : Lives(l, x) /\ From(l, x, 1, modem'[x].st)
      <3>1. \A x \in Ids : Lives(l, x)
        BY <1>8 DEF Lives, New, Ending, RingingStates
      <3>2. \A x \in Ids : From(l, x, 1, modem'[x].st)
        BY <1>3, <1>6, <1>8 DEF From
      <3> QED BY <3>1, <3>2
    <2>4. \A x \in Ids : There(modem'[x]) =>
             /\ There(modem[x]) \/ Absent(calls, reports, x)
             /\ \/ There(modem[x]) /\ modem'[x].st = modem[x].st
                \/ \E i \in 1..Len(l) : l[i].call = x
      <3>1. 1 \in 1..Len(l)
        BY <1>1 DEF l
      <3> QED BY <1>4, <1>6, <1>8, <3>1
    <2>5. \A x \in Ids : There(modem[x]) => There(modem'[x])
      BY <1>5, <1>6
    <2> QED BY <2>1, <2>2, <2>3, <2>4, <2>5 DEF Reported
  <1>10. \A x \in Ids : x > used'.calls => x > used.calls /\ ~There(modem'[x])
    <2>1. SUFFICES ASSUME NEW x \in Ids, x > used'.calls
                   PROVE  x > used.calls /\ ~There(modem'[x])
      OBVIOUS
    <2>2. x \in Int /\ used.calls \in Int /\ x > used.calls /\ x # c
      BY <1>1, <2>1 DEF Ids
    <2> QED BY <1>6, <2>2, Standing DEF Accounts
  <1> QED BY <1>1, <1>2, <1>7, <1>9, <1>10, Standing, ModemStep DEF task, l

\* A call comes in.
LEMMA StepRings == ASSUME Inv, NEW s \in Slots, ModemRings(s) PROVE Inv'
  <1> DEFINE c == used.calls + 1
             st == IF OnSlot(s) = {} THEN "INCOMING" ELSE "WAITING"
             v == [st |-> "RINGING", slot |-> s]
  <1>1. PICK kind \in Kinds :
          /\ modem' = [modem EXCEPT ![c] = v]
          /\ reports' = Append(reports, [call |-> c, slot |-> s, kind |-> kind, st |-> st])
    BY DEF ModemRings
  <1> DEFINE r == [call |-> c, slot |-> s, kind |-> kind, st |-> st]
  <1>2. /\ used.calls < MaxCalls /\ used' = [used EXCEPT !.calls = @ + 1, !.resume = 0]
        /\ UNCHANGED <<mode, calls, reqs, flag, task, pending>>
    BY DEF ModemRings
  <1>3. used.calls \in 0..MaxCalls /\ MaxCalls \in Nat
    BY Standing, ArbitrationAssumption
  <1>4. c \in Ids /\ c \in 0..MaxCalls /\ 0 \in 0..MaxCalls
    BY <1>2, <1>3 DEF Ids
  <1>5. used' \in [calls: 0..MaxCalls, ops: 0..MaxOps, resume: 0..MaxCalls] /\ used'.calls = c
    BY <1>2, <1>4, Standing
  <1>6. r \in Reports /\ r.call = c /\ r.st \in New
    BY <1>4 DEF Reports, States, RingingStates, New
  <1>7. v \in ModemCalls /\ Shows(r.st, v.st)
    BY DEF ModemCalls, Shows, RingingStates
  <1> HIDE DEF r, v
  <1> QED BY <1>1, <1>2, <1>5, <1>6, <1>7, AppearStep DEF r, v

\* The user dials.
LEMMA StepDials == ASSUME Inv, NEW s \in Slots, UserDials(s) PROVE Inv'
  <1> DEFINE c == used.calls + 1
             v == [st |-> "DIALING", slot |-> s]
             r == [call |-> c, slot |-> s, kind |-> "voice", st |-> "DIALING"]
  <1>1. /\ used.calls < MaxCalls /\ used.ops < MaxOps
        /\ modem' = [modem EXCEPT ![c] = v] /\ reports' = Append(reports, r)
        /\ used' = [calls |-> c, ops |-> used.ops + 1, resume |-> 0]
        /\ UNCHANGED <<mode, calls, reqs, flag, task, pending>>
    BY DEF UserDials, Ready
  <1>2. /\ used.calls \in 0..MaxCalls /\ used.ops \in 0..MaxOps
        /\ MaxCalls \in Nat /\ MaxOps \in Nat
    BY Standing, ArbitrationAssumption
  <1>3. c \in Ids /\ c \in 0..MaxCalls /\ used.ops + 1 \in 0..MaxOps /\ 0 \in 0..MaxCalls
    BY <1>1, <1>2 DEF Ids
  <1>4. used' \in [calls: 0..MaxCalls, ops: 0..MaxOps, resume: 0..MaxCalls] /\ used'.calls = c
    BY <1>1, <1>3
  <1>5. r \in Reports /\ r.call = c /\ r.st \in New
    BY <1>3 DEF Reports, States, RingingStates, New
  <1>6. v \in ModemCalls /\ Shows(r.st, v.st)
    BY DEF ModemCalls, Shows, RingingStates
  <1> HIDE DEF r, v
  <1> QED BY <1>1, <1>4, <1>5, <1>6, AppearStep DEF r, v

\* The other party's phone rings, or the other party answers.
LEMMA StepRemoteAnswers == ASSUME Inv, NEW c \in Ids, RemoteAnswers(c) PROVE Inv'
  <1>1. /\ UNCHANGED <<mode, calls, reqs, flag, task, pending, used>>
        /\ modem[c].st \in {"DIALING", "ALERTING"}
        /\ \E st \in {"ALERTING", "ACTIVE"} : Moves({c}, st, {}, st)
    BY DEF RemoteAnswers
  <1>2. There(modem[c])
    BY <1>1 DEF There
  <1>3. Heard(modem, reports, modem', reports')
    <2>1. PICK st \in {"ALERTING", "ACTIVE"} : Moves({c}, st, {}, st)
      BY <1>1
    <2>2. {c} \in SUBSET Ids /\ {} \in SUBSET Ids /\ {c} \cap {} = {}
          /\ \A x \in {c} \cup {} : There(modem[x])
      BY <1>2
    <2>3. st \in {"ALERTING", "ACTIVE", "HOLDING"}
      OBVIOUS
    <2> QED BY <2>1, <2>2, <2>3, MovesReport
  <1>4. \A x \in Ids : x > used'.calls => x > used.calls /\ ~There(modem'[x])
    BY <1>1, <1>3, SameCount DEF Heard
  <1> QED BY <1>1, <1>3, <1>4, Standing, ModemStep DEF Heard, task

\* A call ends by itself.
LEMMA StepRemoteEnds == ASSUME Inv, NEW c \in Ids, RemoteEnds(c) PROVE Inv'
  <1> DEFINE d == <<Says(c, "DISCONNECTED")>>
             e == <<>>
  <1>1. /\ There(modem[c]) /\ modem' = [modem EXCEPT ![c] = NoCall]
        /\ reports' = Append(reports, Says(c, "DISCONNECTED"))
        /\ used' = [used EXCEPT !.resume = 0]
        /\ UNCHANGED <<mode, calls, reqs, flag, task, pending>>
    BY DEF RemoteEnds
  <1>2. /\ modem' = [x \in Ids |-> IF x = c THEN NoCall
                                   ELSE IF x \in {} THEN [modem[x] EXCEPT !.st = "ACTIVE"]
                                   ELSE modem[x]]
    BY <1>1, Standing DEF ModemTables
  <1>3. SaysOf(e, {}, "ACTIVE")
    BY DEF SaysOf
  <1>4. reports' = reports \o (d \o e)
    <2>1. Says(c, "DISCONNECTED") \in Reports /\ reports \in Seq(Reports)
      BY <1>1, SaysIs, Standing
    <2> QED BY <1>1, <2>1
  <1>5. {} \in SUBSET (Ids \ {c}) /\ \A x \in {} : There(modem[x])
    OBVIOUS
  <1>6. d \in {<<Says(c, "DISCONNECTING"), Says(c, "DISCONNECTED")>>, <<Says(c, "DISCONNECTED")>>}
    OBVIOUS
  <1> HIDE DEF d, e
  <1>7. Heard(modem, reports, modem', reports')
    BY <1>1, <1>2, <1>3, <1>4, <1>5, <1>6, EndReport
  <1>8. used.calls \in 0..MaxCalls /\ MaxCalls \in Nat /\ 0 \in 0..MaxCalls
    BY Standing, ArbitrationAssumption
  <1>9. used' \in [calls: 0..MaxCalls, ops: 0..MaxOps, resume: 0..MaxCalls]
        /\ used'.calls = used.calls
    BY <1>1, <1>8, Standing
  <1>10. \A x \in Ids : x > used'.calls => x > used.calls /\ ~There(modem'[x])
    BY <1>7, <1>9, SameCount DEF Heard
  <1> QED BY <1>1, <1>7, <1>9, <1>10, Standing, ModemStep DEF Heard, task
-----------------------------------------------------------------------------
(* The theorems *)

\* At first there is no call and no report.
LEMMA InitInv == Init => Inv
  <1> SUFFICES ASSUME Init PROVE Inv
    OBVIOUS
  <1>1. 0 \in 0..MaxCalls /\ 0 \in 0..MaxOps
    BY ArbitrationAssumption
  <1>2. \A c \in Ids : calls[c] = NoCall /\ modem[c] = NoCall
    BY DEF Init
  <1>3. reports = <<>> /\ Len(reports) = 0 /\ 1..Len(reports) = {}
    BY DEF Init
  <1>4. TypeOK
    <2>1. calls \in [Ids -> Calls \cup {NoCall}] /\ modem \in [Ids -> ModemCalls \cup {NoCall}]
      BY DEF Init
    <2>2. <<>> \in Seq(Requests) /\ <<>> \in Seq(Reports)
      BY EmptySeq
    <2>3. reqs \in [Slots -> Seq(Requests)] /\ reports \in Seq(Reports)
      BY <2>2 DEF Init
    <2>4. used \in [calls: 0..MaxCalls, ops: 0..MaxOps, resume: 0..MaxCalls]
      BY <1>1 DEF Init
    <2> QED BY <2>1, <2>3, <2>4 DEF Init, TypeOK
  <1>5. Accounted
    BY <1>2, <1>3 DEF Accounted, Accounts, Absent, There, NoCall
  <1> QED BY <1>4, <1>5 DEF Inv

\* Every step keeps the accounts.
LEMMA NextInv == Inv /\ [Next]_vars => Inv'
  <1> SUFFICES ASSUME Inv, [Next]_vars PROVE Inv'
    OBVIOUS
  <1>1. CASE Answering
    BY <1>1, StepRequest, StepAcceptLater, StepHoldOrDisconnected, StepArbitration DEF Answering
  <1>2. CASE ReportQueue
    BY <1>2, StepReport, StepRoom DEF ReportQueue
  <1>3. CASE User
    <2>1. ASSUME NEW c \in Ids, NEW video \in BOOLEAN, UserAnswers(c, video) PROVE Inv'
      BY <2>1, StepUserAnswers
    <2>2. ASSUME NEW c \in Ids, RejectRequest(c) PROVE Inv'
      BY <2>2, StepReject
    <2>3. ASSUME NEW c \in Ids, HangUpRequest(c) PROVE Inv'
      BY <2>3, StepHangUp
    <2>4. ASSUME NEW c \in Ids, HoldRequest(c) PROVE Inv'
      BY <2>4, StepHold
    <2>5. ASSUME NEW c \in Ids, UnHoldRequest(c) PROVE Inv'
      BY <2>5, StepUnHold
    <2>6. ASSUME NEW s \in Slots, UserDials(s) PROVE Inv'
      BY <2>6, StepDials
    <2> QED BY <1>3, <2>1, <2>2, <2>3, <2>4, <2>5, <2>6 DEF User
  <1>4. CASE Modem
    <2>1. ASSUME NEW s \in Slots, ModemObeys(s) PROVE Inv'
      BY <2>1, StepObeys
    <2>2. ASSUME NEW s \in Slots, ModemRings(s) PROVE Inv'
      BY <2>2, StepRings
    <2>3. ASSUME NEW c \in Ids, RemoteAnswers(c) PROVE Inv'
      BY <2>3, StepRemoteAnswers
    <2>4. ASSUME NEW c \in Ids, RemoteEnds(c) PROVE Inv'
      BY <2>4, StepRemoteEnds
    <2> QED BY <1>4, <2>1, <2>2, <2>3, <2>4 DEF Modem
  <1>5. CASE UNCHANGED vars
    <2>1. TypeOK'
      BY <1>5 DEF Inv, TypeOK, vars, task
    <2>2. Accounts(calls', reports', modem', used'.calls)
      BY <1>5, Standing DEF vars, task
    <2> QED BY <2>1, <2>2, Primed DEF Inv
  <1> QED BY <1>1, <1>2, <1>3, <1>4, <1>5 DEF Next

\* Types and accounts hold in every reachable state: whichever way the tasks, the report
\* queue, the user and the modems interleave, no report is of a call that the table does
\* not know and was not told of, and the table and the queue together show the modems.
THEOREM DsdaInvariant == Spec => []Inv
  BY InitInv, NextInv, PTL DEF Spec

\* Marks, requests, reports and the answering task keep their types: DisconnectedHandle
\* leaves no call in the table, and the arbitration finds no call that is not there.
THEOREM TypeCorrect == Spec => []TypeOK
  <1>1. Inv => TypeOK
    BY DEF Inv
  <1> QED BY <1>1, DsdaInvariant, PTL

\* Once every report is handled the table shows each call as the modem has it, however
\* the reports of the two slots, the answering task and the user's requests interleave:
\* what AutoHandleForDsda and HandleDsdaInfo write never undoes a report.
THEOREM TableShown == Spec => []TableShowsModems
  <1>1. ASSUME Inv PROVE TableShowsModems
    <2>1. SUFFICES ASSUME reports = <<>>, NEW c \in Ids
                   PROVE  Shows(calls[c].st, modem[c].st)
      BY DEF TableShowsModems
    <2>2. Len(reports) = 0 /\ 1..Len(reports) = {}
      BY <2>1
    <2>3. CASE There(modem[c])
      <3>1. Tells(calls, reports, c, modem[c].st)
        BY <1>1, <2>3, Standing DEF Accounts
      <3> QED BY <2>2, <3>1 DEF Tells
    <2>4. CASE ~There(modem[c])
      <3>0. Absent(calls, reports, c) \/ Ended(reports, c)
        BY <1>1, <2>4, Standing DEF Accounts
      <3>1. ~There(calls[c])
        BY <2>2, <3>0 DEF Absent, Ended
      <3> QED BY <2>4, <3>1 DEF Shows, There, RingingStates
    <2> QED BY <2>3, <2>4
  <1> QED BY <1>1, DsdaInvariant, PTL
=============================================================================
