--------------------------- MODULE AscendingProofs ---------------------------
(***************************************************************************)
(* What Ascending computes, for every set and every bound.  The library's  *)
(* induction theorems take an operator as a parameter; the lemma           *)
(* Induction, derived from the well-foundedness of < on Nat, takes a set,  *)
(* so that it can be applied to the set of the numbers for which a claim   *)
(* holds.                                                                  *)
(***************************************************************************)
EXTENDS Ascending, WellFoundedInduction, TLAPS

-----------------------------------------------------------------------------
(* Induction on natural numbers, for sets *)

\* A nonempty set of natural numbers has a least member.
LEMMA LeastMember ==
    ASSUME NEW S \in SUBSET Nat, S # {}
    PROVE  \E n \in S : \A m \in S : n <= m
<1> DEFINE R == {p \in Nat \X Nat : p[1] < p[2]}
<1>1. IsWellFoundedOn(R, Nat)
  <2>1. R = OpToRel(<, Nat)
    BY DEF OpToRel
  <2> QED BY <2>1, NatLessThanWellFounded
<1>2. PICK x \in S : \A y \in S : ~(<<y, x>> \in R)
  <2> HIDE DEF R
  <2> QED BY <1>1, WFMin
<1>3. ASSUME NEW y \in S PROVE x <= y
  <2>1. <<y, x>> \in Nat \X Nat /\ ~(<<y, x>> \in R)
    BY <1>2
  <2> QED BY <2>1
<1> QED BY <1>3

\* A set with 0 that is closed under successor has every natural number.
LEMMA Induction ==
    ASSUME NEW S, S \subseteq Nat, 0 \in S, \A n \in S : n + 1 \in S
    PROVE  \A n \in Nat : n \in S
<1>1. SUFFICES ASSUME Nat \ S # {} PROVE FALSE
  OBVIOUS
<1>2. PICK n \in Nat \ S : \A m \in Nat \ S : n <= m
  BY <1>1, LeastMember
<1>3. n # 0 /\ n - 1 \in S
  BY <1>2
<1>4. (n - 1) + 1 \in S
  BY <1>3
<1> QED BY <1>4

\* The same up to a bound.
LEMMA InductionUpTo ==
    ASSUME NEW b \in Nat, NEW S, S \subseteq 0..b, 0 \in S,
           \A n \in S : n < b => n + 1 \in S
    PROVE  \A n \in 0..b : n \in S
<1> DEFINE T == {n \in Nat : n <= b => n \in S}
<1>1. 0 \in T
  OBVIOUS
<1>2. \A n \in T : n + 1 \in T
  OBVIOUS
<1>3. \A n \in Nat : n \in T
  <2> HIDE DEF T
  <2> QED BY <1>1, <1>2, Induction DEF T
<1> QED BY <1>3
-----------------------------------------------------------------------------
(* The recursion *)

\* f is the function Ascending recurs with.
Climbs(f, S, n) ==
    f = [k \in 0..n |-> IF k = 0 THEN <<>>
                        ELSE IF k \in S THEN Append(f[k - 1], k)
                        ELSE f[k - 1]]

\* Its values.
LEMMA ClimbValue ==
    ASSUME NEW f, NEW S, NEW n \in Nat, Climbs(f, S, n), NEW k \in 0..n
    PROVE  f[k] = IF k = 0 THEN <<>>
                  ELSE IF k \in S THEN Append(f[k - 1], k) ELSE f[k - 1]
<1> DEFINE g == [j \in 0..n |-> IF j = 0 THEN <<>>
                               ELSE IF j \in S THEN Append(f[j - 1], j) ELSE f[j - 1]]
<1>1. f[k] = g[k]
  BY Zenon DEF Climbs
<1>2. g[k] = IF k = 0 THEN <<>>
             ELSE IF k \in S THEN Append(f[k - 1], k) ELSE f[k - 1]
  OBVIOUS
<1> QED BY <1>1, <1>2

\* There is such a function.
LEMMA ClimbExists ==
    ASSUME NEW S
    PROVE  \A n \in Nat : \E f : Climbs(f, S, n)
<1> DEFINE T == {n \in Nat : \E f : Climbs(f, S, n)}
<1>1. 0 \in T
  <2> DEFINE f == [k \in 0..0 |-> <<>>]
  <2>1. Climbs(f, S, 0)
    BY DEF Climbs
  <2> QED BY <2>1
<1>2. ASSUME NEW n \in T PROVE n + 1 \in T
  <2>1. PICK f : Climbs(f, S, n)
    OBVIOUS
  <2> DEFINE g == [k \in 0..(n + 1) |->
                     IF k <= n THEN f[k]
                     ELSE IF k \in S THEN Append(f[n], k) ELSE f[n]]
  <2>2. ASSUME NEW k \in 0..(n + 1)
        PROVE  g[k] = IF k = 0 THEN <<>>
                      ELSE IF k \in S THEN Append(g[k - 1], k) ELSE g[k - 1]
    <3>1. CASE k <= n
      <4>1. k \in 0..n /\ (k # 0 => k - 1 \in 0..(n + 1) /\ k - 1 <= n)
        BY <3>1
      <4> QED BY <2>1, <3>1, <4>1, ClimbValue
    <3>2. CASE k = n + 1
      BY <3>2
    <3> QED BY <3>1, <3>2
  <2>3. Climbs(g, S, n + 1)
    <3>1. g = [k \in 0..(n + 1) |-> IF k = 0 THEN <<>>
                                   ELSE IF k \in S THEN Append(g[k - 1], k) ELSE g[k - 1]]
      <4> HIDE DEF g
      <4>1. g = [k \in 0..(n + 1) |-> g[k]]
        BY DEF g
      <4> QED BY <2>2, <4>1
    <3> QED BY <3>1 DEF Climbs
  <2> QED BY <2>3
<1>3. \A n \in Nat : n \in T
  <2> HIDE DEF T
  <2> QED BY <1>1, <1>2, Induction DEF T
<1> QED BY <1>3

\* Two such functions agree as far as both go.
LEMMA ClimbUnique ==
    ASSUME NEW S, NEW n \in Nat, NEW m \in Nat, NEW f, NEW g,
           Climbs(f, S, n), Climbs(g, S, m), n <= m
    PROVE  \A k \in 0..n : f[k] = g[k]
<1> DEFINE T == {k \in 0..n : f[k] = g[k]}
<1>1. 0 \in T
  BY ClimbValue
<1>2. ASSUME NEW k \in T, k < n PROVE k + 1 \in T
  <2>1. /\ f[k + 1] = IF k + 1 \in S THEN Append(f[k], k + 1) ELSE f[k]
        /\ g[k + 1] = IF k + 1 \in S THEN Append(g[k], k + 1) ELSE g[k]
    <3>1. k + 1 \in 0..n /\ k + 1 \in 0..m /\ k + 1 # 0 /\ (k + 1) - 1 = k
      BY <1>2
    <3> QED BY <3>1, ClimbValue
  <2> QED BY <1>2, <2>1
<1>3. \A k \in 0..n : k \in T
  <2> HIDE DEF T
  <2> QED BY <1>1, <1>2, InductionUpTo DEF T
<1> QED BY <1>3

\* The recurrence, from which everything else follows.
LEMMA AscendingStep ==
    ASSUME NEW S
    PROVE  /\ Ascending(S, 0) = <<>>
           /\ \A n \in Nat : Ascending(S, n + 1) =
                 IF n + 1 \in S THEN Append(Ascending(S, n), n + 1)
                 ELSE Ascending(S, n)
<1> DEFINE F(n) == CHOOSE f : Climbs(f, S, n)
<1>1. \A n \in Nat : Climbs(F(n), S, n)
  BY ClimbExists
<1>2. \A n : Ascending(S, n) = F(n)[n]
  BY DEF Ascending, Climbs
<1>3. Ascending(S, 0) = <<>>
  BY <1>1, <1>2, ClimbValue
<1>4. ASSUME NEW n \in Nat
      PROVE  Ascending(S, n + 1) =
                IF n + 1 \in S THEN Append(Ascending(S, n), n + 1)
                ELSE Ascending(S, n)
  <2> HIDE DEF F
  <2>1. F(n)[n] = F(n + 1)[n]
    <3>1. n + 1 \in Nat /\ n <= n + 1 /\ n \in 0..n
      OBVIOUS
    <3> QED BY <1>1, <3>1, ClimbUnique
  <2>2. Climbs(F(n + 1), S, n + 1)
    BY <1>1
  <2>3. F(n + 1)[n + 1] = IF n + 1 \in S THEN Append(F(n + 1)[n], n + 1)
                         ELSE F(n + 1)[n]
    <3>1. n + 1 \in Nat /\ n + 1 \in 0..(n + 1) /\ n + 1 # 0 /\ (n + 1) - 1 = n
      OBVIOUS
    <3> QED BY <2>2, <3>1, ClimbValue
  <2> QED BY <1>2, <2>1, <2>3
<1> QED BY <1>3, <1>4
-----------------------------------------------------------------------------
(* What it computes *)

\* s lists the members of S, each once, the smaller before the greater.
Enumerates(s, S) ==
    /\ s \in Seq(S)
    /\ \A i, j \in 1..Len(s) : i < j => s[i] < s[j]
    /\ \A x \in S : \E i \in 1..Len(s) : s[i] = x

\* Ascending lists the members of S up to n: a loop that picks the entries of a
\* container passes over none of them, takes none twice and keeps their order.
LEMMA AscendingEnumerates ==
    ASSUME NEW S
    PROVE  \A n \in Nat : Enumerates(Ascending(S, n), S \cap 1..n)
<1> DEFINE T == {n \in Nat : Enumerates(Ascending(S, n), S \cap 1..n)}
<1>1. 0 \in T
  <2>1. Ascending(S, 0) = <<>> /\ S \cap 1..0 = {}
    BY AscendingStep
  <2>2. Enumerates(<<>>, {})
    BY DEF Enumerates
  <2> QED BY <2>1, <2>2
<1>2. ASSUME NEW n \in T PROVE n + 1 \in T
  <2> DEFINE a == Ascending(S, n)
             b == Ascending(S, n + 1)
  <2>1. Enumerates(a, S \cap 1..n)
    OBVIOUS
  <2>2. b = IF n + 1 \in S THEN Append(a, n + 1) ELSE a
    BY AscendingStep
  <2> HIDE DEF a, b
  <2>3. CASE n + 1 \notin S
    <3>1. S \cap 1..(n + 1) = S \cap 1..n
      BY <2>3
    <3> QED BY <2>1, <2>2, <2>3, <3>1 DEF b
  <2>4. CASE n + 1 \in S
    <3> DEFINE U == S \cap 1..(n + 1)
    <3>1. a \in Seq(U) /\ n + 1 \in U /\ b = Append(a, n + 1)
      <4>1. a \in Seq(S \cap 1..n) /\ S \cap 1..n \subseteq U
        BY <2>1 DEF Enumerates
      <4> QED BY <2>2, <2>4, <4>1
    <3>2. b \in Seq(U) /\ Len(b) = Len(a) + 1 /\ b[Len(a) + 1] = n + 1
          /\ \A i \in 1..Len(a) : b[i] = a[i]
      BY <3>1
    <3>3. \A i \in 1..Len(a) : a[i] \in 1..n
      BY <2>1 DEF Enumerates
    <3>4. \A i, j \in 1..Len(b) : i < j => b[i] < b[j]
      <4> TAKE i, j \in 1..Len(b)
      <4> HAVE i < j
      <4>1. Len(a) \in Nat
        BY <3>1
      <4>2. CASE j <= Len(a)
        <5>1. i \in 1..Len(a) /\ j \in 1..Len(a)
          BY <3>2, <4>1, <4>2
        <5> QED BY <5>1, <3>2, <2>1 DEF Enumerates
      <4>3. CASE j = Len(a) + 1
        <5>1. i \in 1..Len(a)
          BY <4>1, <4>3
        <5> QED BY <5>1, <4>3, <3>2, <3>3
      <4> QED BY <3>2, <4>1, <4>2, <4>3, SMTT(30)
    <3>5. \A x \in U : \E i \in 1..Len(b) : b[i] = x
      <4> TAKE x \in U
      <4>0. Len(a) \in Nat
        BY <3>1
      <4>1. CASE x = n + 1
        BY <4>0, <4>1, <3>2
      <4>2. CASE x # n + 1
        <5>1. x \in S \cap 1..n
          BY <4>2
        <5>2. PICK i \in 1..Len(a) : a[i] = x
          BY <5>1, <2>1 DEF Enumerates
        <5> QED BY <5>2, <4>0, <3>2
      <4> QED BY <4>1, <4>2
    <3> QED BY <3>2, <3>4, <3>5 DEF Enumerates, b
  <2> QED BY <2>3, <2>4
<1>3. \A n \in Nat : n \in T
  <2> HIDE DEF T
  <2> QED BY <1>1, <1>2, Induction DEF T
<1> QED BY <1>3

\* Only the members up to n matter.
LEMMA AscendingLocal ==
    ASSUME NEW S, NEW R, NEW n \in Nat, S \cap 1..n = R \cap 1..n
    PROVE  Ascending(S, n) = Ascending(R, n)
<1> DEFINE T == {k \in 0..n : Ascending(S, k) = Ascending(R, k)}
<1>1. 0 \in T
  BY AscendingStep
<1>2. ASSUME NEW k \in T, k < n PROVE k + 1 \in T
  <2>1. k + 1 \in S <=> k + 1 \in R
    BY <1>2
  <2>2. k \in Nat /\ k + 1 \in 0..n
    BY <1>2
  <2> DEFINE Step(Q) == IF k + 1 \in Q THEN Append(Ascending(Q, k), k + 1) ELSE Ascending(Q, k)
  <2>3. Ascending(S, k + 1) = Step(S) /\ Ascending(R, k + 1) = Step(R)
    BY <2>2, AscendingStep
  <2> QED BY <1>2, <2>1, <2>2, <2>3
<1>3. \A k \in 0..n : k \in T
  <2> HIDE DEF T
  <2> QED BY <1>1, <1>2, InductionUpTo DEF T
<1> QED BY <1>3

\* Going on where no member is left picks nothing more.
LEMMA AscendingIdle ==
    ASSUME NEW S, NEW m \in Nat, NEW n \in Nat, m <= n, \A k \in S : k \in Nat => ~(m < k /\ k <= n)
    PROVE  Ascending(S, n) = Ascending(S, m)
<1> DEFINE T == {k \in 0..n : k < m \/ Ascending(S, k) = Ascending(S, m)}
<1>1. 0 \in T
  <2>1. 0 \in 0..n /\ (0 < m \/ m = 0)
    OBVIOUS
  <2> QED BY <2>1
<1>2. ASSUME NEW k \in T, k < n PROVE k + 1 \in T
  <2>1. k \in Nat /\ k + 1 \in 0..n
    BY <1>2
  <2>2. CASE k + 1 <= m
    BY <2>1, <2>2
  <2>3. CASE k + 1 > m
    <3>1. k + 1 \notin S
      BY <1>2, <2>1, <2>3
    <3>2. Ascending(S, k + 1) = Ascending(S, k)
      BY <2>1, <3>1, AscendingStep
    <3>3. Ascending(S, k) = Ascending(S, m)
      BY <2>1, <2>3
    <3> QED BY <2>1, <3>2, <3>3
  <2> QED BY <2>1, <2>2, <2>3
<1>3. \A k \in 0..n : k \in T
  <2> HIDE DEF T
  <2> QED BY <1>1, <1>2, InductionUpTo DEF T
<1> QED BY <1>3

\* T has the members of S above 1, each one lower; b is 1 if S has a 1, else 0.
Lowered(S, T, b) == /\ b \in {0, 1} /\ (1 \in S <=> b = 1)
                    /\ \A k \in Nat \ {0} : (k \in T <=> k + 1 \in S)

\* a lists what t lists, one higher, after a 1 if b is 1.
Raised(a, t, b) == /\ a \in Seq(Nat) /\ t \in Seq(Nat) /\ Len(a) = Len(t) + b
                   /\ b = 1 => a[1] = 1
                   /\ \A k \in 1..Len(t) : a[k + b] = t[k] + 1

\* A container without its first entry: a loop picks the same from it, one further on.
LEMMA AscendingShift ==
    ASSUME NEW S, NEW T, NEW b, NEW n \in Nat, Lowered(S, T, b)
    PROVE  Raised(Ascending(S, n + 1), Ascending(T, n), b)
<1> DEFINE R == {m \in Nat : Raised(Ascending(S, m + 1), Ascending(T, m), b)}
<1>0. /\ b \in {0, 1} /\ (1 \in S <=> b = 1)
      /\ \A k \in Nat \ {0} : (k \in T <=> k + 1 \in S)
  BY DEF Lowered
<1>1. 0 \in R
  <2>1. Ascending(S, 0) = <<>> /\ Ascending(T, 0) = <<>>
    BY AscendingStep
  <2>2. Ascending(S, 0 + 1) = IF 0 + 1 \in S THEN Append(<<>>, 0 + 1) ELSE <<>>
    BY <2>1, AscendingStep
  <2>3. Ascending(S, 0 + 1) = IF 1 \in S THEN <<1>> ELSE <<>>
    BY <2>2
  <2>4. Raised(IF 1 \in S THEN <<1>> ELSE <<>>, <<>>, b)
    BY <1>0 DEF Raised
  <2> QED BY <2>1, <2>3, <2>4
<1>2. ASSUME NEW m \in R PROVE m + 1 \in R
  <2> DEFINE a == Ascending(S, m + 1)
             t == Ascending(T, m)
  <2>1. m \in Nat /\ Raised(a, t, b)
    OBVIOUS
  <2>2. /\ Ascending(S, (m + 1) + 1) = IF (m + 1) + 1 \in S THEN Append(a, (m + 1) + 1) ELSE a
        /\ Ascending(T, m + 1) = IF m + 1 \in T THEN Append(t, m + 1) ELSE t
    <3>1. m + 1 \in Nat
      BY <2>1
    <3> QED BY <2>1, <3>1, AscendingStep
  <2> HIDE DEF a, t
  <2>3. m + 1 \in T <=> (m + 1) + 1 \in S
    BY <1>0, <2>1
  <2>4. Raised(Append(a, (m + 1) + 1), Append(t, m + 1), b)
    <3>0. a \in Seq(Nat) /\ t \in Seq(Nat) /\ m + 1 \in Nat /\ (m + 1) + 1 \in Nat
      BY <2>1 DEF Raised
    <3>a. Len(t) \in Nat /\ Len(a) \in Nat /\ b \in Nat /\ Len(a) = Len(t) + b
      BY <1>0, <2>1, SMTT(30) DEF Raised
    <3>1. b \in Nat /\ b \in {0, 1} /\ Len(t) \in Nat /\ Len(a) \in Nat /\ Len(a) = Len(t) + b
          /\ (b = 1 => a[1] = 1) /\ \A k \in 1..Len(t) : a[k + b] = t[k] + 1
      BY <1>0, <2>1, SMTT(30) DEF Raised
    <3> DEFINE x == Append(a, (m + 1) + 1)
               y == Append(t, m + 1)
    <3>2. /\ x \in Seq(Nat) /\ Len(x) = Len(a) + 1 /\ x[Len(a) + 1] = (m + 1) + 1
          /\ \A k \in 1..Len(a) : x[k] = a[k]
      BY <3>0
    <3>3. /\ y \in Seq(Nat) /\ Len(y) = Len(t) + 1 /\ y[Len(t) + 1] = m + 1
          /\ \A k \in 1..Len(t) : y[k] = t[k]
      BY <3>0
    <3> HIDE DEF x, y
    <3>4. ASSUME NEW k \in 1..Len(y) PROVE x[k + b] = y[k] + 1
      <4>1. CASE k = Len(t) + 1
        <5>1. k + b = Len(a) + 1
          <6>1. Len(t) + 1 + b = Len(t) + b + 1
            BY <3>a
          <6> QED BY <3>a, <4>1, <6>1
        <5> QED BY <3>0, <3>2, <3>3, <4>1, <5>1
      <4>2. CASE k \in 1..Len(t)
        <5>1. k + b \in 1..Len(a)
          BY <3>1, <4>2
        <5> QED BY <3>1, <3>2, <3>3, <4>2, <5>1
      <4> QED BY <3>1, <3>3, <4>1, <4>2
    <3>5. Len(x) = Len(y) + b /\ (b = 1 => x[1] = 1)
      <4>1. Len(x) = Len(y) + b
        BY <3>a, <3>2, <3>3
      <4>2. ASSUME b = 1 PROVE x[1] = 1
        <5>1. 1 \in 1..Len(a)
          BY <3>a, <4>2
        <5> QED BY <3>1, <3>2, <4>2, <5>1
      <4> QED BY <4>1, <4>2
    <3>6. Raised(x, y, b)
      BY <3>2, <3>3, <3>4, <3>5 DEF Raised
    <3> QED BY <3>6 DEF x, y
  <2>5. Raised(Ascending(S, (m + 1) + 1), Ascending(T, m + 1), b)
    <3>1. CASE m + 1 \in T
      BY <2>2, <2>3, <2>4, <3>1, Zenon
    <3>2. CASE m + 1 \notin T
      BY <2>1, <2>2, <2>3, <3>2, Zenon
    <3> QED BY <3>1, <3>2
  <2>6. m + 1 \in Nat
    BY <2>1
  <2> QED BY <2>5, <2>6
<1>3. \A m \in Nat : m \in R
  <2> HIDE DEF R
  <2> QED BY <1>1, <1>2, Induction DEF R
<1> QED BY <1>3
=============================================================================
