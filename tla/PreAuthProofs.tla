--------------------------- MODULE PreAuthProofs ----------------------------
(***************************************************************************)
(* The cap on unauthenticated connections is exact, and it bounds what an  *)
(* address can still try once it is locked out: for any number of sockets, *)
(* addresses and permits, any window and any lockout duration.             *)
(***************************************************************************)
EXTENDS PreAuth, FiniteSetTheorems, WellFoundedInduction, TLAPS

\* The types the argument needs; the ages of failures do not matter to it.
Typed ==
    /\ stage \in [Socks -> Stages]
    /\ peer \in [Socks -> Addrs \cup {None}]
    /\ \A s \in Socks : stage[s] # "closed" => peer[s] \in Addrs
    /\ slots \in Nat
    /\ locked \in [Addrs -> Int]
    /\ ignored \in [Addrs -> Nat]

GateInv == Typed /\ SlotsConserved /\ LateVerdictsBounded

\* The sets the properties count are finite.
LEMMA FiniteParts ==
    /\ IsFiniteSet(Holders) /\ Cardinality(Holders) \in Nat
    /\ \A a \in Addrs : IsFiniteSet(Undecided(a)) /\ Cardinality(Undecided(a)) \in Nat
<1>1. Holders \in SUBSET Socks /\ \A a \in Addrs : Undecided(a) \in SUBSET Socks
  BY DEF Holders, Undecided
<1>2. IsFiniteSet(Holders) /\ \A a \in Addrs : IsFiniteSet(Undecided(a))
  BY <1>1, FS_Subset, LimitsAssumption
<1>. QED BY <1>2, FS_CardinalityType

\* What a step does to the sockets, however it treats the lockout: the permits
\* follow the holders.
LEMMA PermitStep ==
    ASSUME Typed, SlotsConserved, NEW s \in Socks, slots' \in Nat,
           \/ Holders' = Holders /\ slots' = slots
           \/ s \notin Holders /\ Holders' = Holders \cup {s} /\ slots' = slots - 1
           \/ s \in Holders /\ Holders' = Holders \ {s} /\ slots' = slots + 1
    PROVE  SlotsConserved'
<1>1. IsFiniteSet(Holders) /\ Cardinality(Holders) \in Nat
  BY FiniteParts
<1>2. CASE Holders' = Holders /\ slots' = slots
  BY <1>2 DEF SlotsConserved
<1>3. CASE s \notin Holders /\ Holders' = Holders \cup {s} /\ slots' = slots - 1
  <2>1. Cardinality(Holders') = Cardinality(Holders) + 1
    BY <1>1, <1>3, FS_AddElement
  <2>. QED BY <2>1, <1>1, <1>3, LimitsAssumption DEF SlotsConserved, Typed
<1>4. CASE s \in Holders /\ Holders' = Holders \ {s} /\ slots' = slots + 1
  <2>1. Cardinality(Holders') = Cardinality(Holders) - 1
    BY <1>1, <1>4, FS_RemoveElement
  <2>. QED BY <2>1, <1>1, <1>4, LimitsAssumption DEF SlotsConserved, Typed
<1>. QED BY <1>2, <1>3, <1>4

\* A step that admits nobody while an address is locked, and starts no lockout,
\* keeps the bound.
LEMMA QuietStep ==
    ASSUME Typed, LateVerdictsBounded, ignored' = ignored,
           \A a \in Addrs : locked'[a] > 0 =>
               locked[a] > 0 /\ Undecided(a)' \subseteq Undecided(a)
    PROVE  LateVerdictsBounded'
<1>. SUFFICES ASSUME NEW a \in Addrs, locked'[a] > 0
              PROVE  ignored'[a] + Cardinality(Undecided(a)') <= MaxUnauth - 1
  BY DEF LateVerdictsBounded
<1>1. locked[a] > 0 /\ Undecided(a)' \in SUBSET Undecided(a)
  OBVIOUS
<1>2. IsFiniteSet(Undecided(a)) /\ Cardinality(Undecided(a)) \in Nat
  BY FiniteParts
<1>3. /\ Cardinality(Undecided(a)') <= Cardinality(Undecided(a))
      /\ Cardinality(Undecided(a)') \in Nat
  BY <1>1, <1>2, FS_Subset, FS_CardinalityType
<1>4. ignored[a] + Cardinality(Undecided(a)) <= MaxUnauth - 1
  BY <1>1 DEF LateVerdictsBounded
<1>. QED BY <1>2, <1>3, <1>4, LimitsAssumption DEF Typed

\* A verdict against s: ignored during a lockout, it uses up one of the undecided
\* connections; starting one, the judged connection's own permit is the one short.
LEMMA FailedStep ==
    ASSUME GateInv, NEW s \in Socks, Failed(s)
    PROVE  GateInv'
<1>a. PICK a \in Addrs : a = peer[s]
  BY DEF GateInv, Typed, Failed
<1>1. Typed'
  BY LimitsAssumption DEF GateInv, Typed, Failed, Goto, RecordFailure, Stages
<1>2. Holders' = Holders /\ slots' = slots /\ s \in Holders
  BY DEF GateInv, Typed, Failed, Goto, Holders, HoldsPermit
<1>3. SlotsConserved'
  BY <1>1, <1>2, PermitStep DEF GateInv, Typed
<1>4. \A b \in Addrs : Undecided(b)' = Undecided(b) \ {s}
  BY DEF GateInv, Typed, Failed, Goto, Undecided
<1>5. s \in Undecided(a)
  BY <1>a DEF Failed, Undecided
<1>6. ASSUME NEW b \in Addrs, locked'[b] > 0
      PROVE  ignored'[b] + Cardinality(Undecided(b)') <= MaxUnauth - 1
  <2>1. IsFiniteSet(Undecided(b)) /\ Cardinality(Undecided(b)) \in Nat
    BY FiniteParts
  <2>2. CASE b # a
    <3>1. locked[b] > 0 /\ ignored'[b] = ignored[b]
      BY <1>a, <1>1, <1>6, <2>2 DEF GateInv, Typed, Failed, RecordFailure
    <3>2. Undecided(b)' = Undecided(b)
      BY <1>a, <1>4, <2>2 DEF Undecided
    <3>. QED BY <3>1, <3>2 DEF GateInv, LateVerdictsBounded
  <2>3. CASE b = a /\ locked[a] > 0
    <3>1. ignored'[a] = ignored[a] + 1
      BY <1>a, <1>1, <2>3 DEF GateInv, Typed, Failed, RecordFailure
    <3>2. Cardinality(Undecided(a)') = Cardinality(Undecided(a)) - 1
      BY <1>4, <1>5, <2>1, <2>3, FS_RemoveElement
    <3>3. ignored[a] + Cardinality(Undecided(a)) <= MaxUnauth - 1
      BY <1>1, <2>3 DEF GateInv, LateVerdictsBounded
    <3>. QED BY <1>1, <2>1, <2>3, <3>1, <3>2, <3>3, LimitsAssumption DEF GateInv, Typed
  <2>4. CASE b = a /\ ~ (locked[a] > 0)
    <3>1. ignored'[a] = 0
      BY <1>a, <1>1, <1>6, <2>4 DEF GateInv, Typed, Failed, RecordFailure
    <3>2. Undecided(a)' \in SUBSET (Holders \ {s})
      BY <1>4 DEF Undecided, Holders, HoldsPermit
    <3>3. IsFiniteSet(Holders) /\ Cardinality(Holders) \in Nat
      BY FiniteParts
    <3>4. /\ IsFiniteSet(Holders \ {s})
          /\ Cardinality(Holders \ {s}) = Cardinality(Holders) - 1
      BY <1>2, <3>3, FS_RemoveElement
    <3>5. Cardinality(Undecided(a)') <= Cardinality(Holders) - 1
      BY <3>2, <3>4, FS_Subset
    <3>6. Cardinality(Undecided(a)') \in Nat
      BY <3>2, <3>4, FS_Subset, FS_CardinalityType
    <3>. QED BY <2>4, <3>1, <3>3, <3>5, <3>6, LimitsAssumption
             DEF GateInv, Typed, SlotsConserved
  <2>. QED BY <2>2, <2>3, <2>4
<1>7. LateVerdictsBounded'
  BY <1>6 DEF LateVerdictsBounded
<1>. QED BY <1>1, <1>3, <1>7 DEF GateInv

LEMMA GateInit == Init => GateInv
<1>. SUFFICES ASSUME Init PROVE GateInv
  OBVIOUS
<1>1. Holders = {}
  BY DEF Init, Holders, HoldsPermit
<1>2. Typed
  BY LimitsAssumption DEF Init, Typed, Stages
<1>3. SlotsConserved
  BY <1>1, FS_EmptySet, LimitsAssumption DEF Init, SlotsConserved
<1>4. LateVerdictsBounded
  BY DEF Init, LateVerdictsBounded
<1>. QED BY <1>2, <1>3, <1>4 DEF GateInv

LEMMA GateStep == GateInv /\ [Next]_vars => GateInv'
<1>. SUFFICES ASSUME GateInv, [Next]_vars PROVE GateInv'
  OBVIOUS
<1>. USE LimitsAssumption
<1>1. ASSUME NEW s \in Socks, NEW a \in Addrs, Accept(s, a) PROVE GateInv'
  <2>1. Typed'
    BY <1>1 DEF GateInv, Typed, Accept, Stages
  <2>2. s \notin Holders /\ Holders' = Holders \cup {s} /\ slots' = slots - 1
    BY <1>1 DEF GateInv, Typed, Accept, Holders, HoldsPermit
  <2>3. ignored' = ignored /\ locked' = locked
    BY <1>1 DEF Accept
  <2>4. \A b \in Addrs : Undecided(b)' \subseteq Undecided(b)
    BY <1>1 DEF GateInv, Typed, Accept, Undecided
  <2>. QED BY <2>1, <2>2, <2>3, <2>4, PermitStep, QuietStep DEF GateInv, Typed
<1>2. ASSUME NEW s \in Socks, HoldsPermit(s), ReturnEarly(s),
             UNCHANGED <<failures, locked, ignored>>
      PROVE  GateInv'
  <2>1. Typed'
    BY <1>2 DEF GateInv, Typed, ReturnEarly, Stages
  <2>2. s \in Holders /\ Holders' = Holders \ {s} /\ slots' = slots + 1
    BY <1>2 DEF GateInv, Typed, ReturnEarly, Holders, HoldsPermit
  <2>3. \A b \in Addrs : Undecided(b)' \subseteq Undecided(b)
    BY <1>2 DEF GateInv, Typed, ReturnEarly, Undecided
  <2>. QED BY <1>2, <2>1, <2>2, <2>3, PermitStep, QuietStep DEF GateInv, Typed
<1>3. ASSUME NEW s \in Socks, Admitted(s) PROVE GateInv'
  <2>1. Typed' /\ peer[s] \in Addrs
    BY <1>3 DEF GateInv, Typed, Admitted, Goto, Stages
  <2>2. Holders' = Holders /\ slots' = slots /\ ignored' = ignored
    BY <1>3 DEF GateInv, Typed, Admitted, Goto, Holders, HoldsPermit
  <2>3. \A b \in Addrs : locked'[b] > 0 => b # peer[s] /\ locked[b] > 0
    BY <1>3, <2>1 DEF GateInv, Typed, Admitted
  <2>4. \A b \in Addrs : b # peer[s] => Undecided(b)' \subseteq Undecided(b)
    BY <1>3 DEF GateInv, Typed, Admitted, Goto, Undecided
  <2>. QED BY <2>1, <2>2, <2>3, <2>4, PermitStep, QuietStep DEF GateInv, Typed
<1>4. ASSUME NEW s \in Socks, Upgraded(s) \/ Answered(s) PROVE GateInv'
  <2>1. Typed' /\ ignored' = ignored /\ locked' = locked
    BY <1>4 DEF GateInv, Typed, Upgraded, Answered, Goto, Stages
  <2>2. Holders' = Holders /\ slots' = slots
    BY <1>4 DEF GateInv, Typed, Upgraded, Answered, Goto, Holders, HoldsPermit
  <2>3. \A b \in Addrs : Undecided(b)' \subseteq Undecided(b)
    BY <1>4 DEF GateInv, Typed, Upgraded, Answered, Goto, Undecided
  <2>. QED BY <2>1, <2>2, <2>3, PermitStep, QuietStep DEF GateInv, Typed
<1>5. ASSUME NEW s \in Socks, Authenticated(s) PROVE GateInv'
  <2>1. Typed' /\ ignored' = ignored /\ locked' = locked
    BY <1>5 DEF GateInv, Typed, Authenticated, Stages
  <2>2. s \in Holders /\ Holders' = Holders \ {s} /\ slots' = slots + 1
    BY <1>5 DEF GateInv, Typed, Authenticated, Holders, HoldsPermit
  <2>3. \A b \in Addrs : Undecided(b)' \subseteq Undecided(b)
    BY <1>5 DEF GateInv, Typed, Authenticated, Undecided
  <2>. QED BY <2>1, <2>2, <2>3, PermitStep, QuietStep DEF GateInv, Typed
<1>6. ASSUME NEW s \in Socks, SessionEnds(s) PROVE GateInv'
  <2>1. Typed' /\ ignored' = ignored /\ locked' = locked
    BY <1>6 DEF GateInv, Typed, SessionEnds, Stages
  <2>2. Holders' = Holders /\ slots' = slots
    BY <1>6 DEF GateInv, Typed, SessionEnds, Holders, HoldsPermit
  <2>3. \A b \in Addrs : Undecided(b)' \subseteq Undecided(b)
    BY <1>6 DEF GateInv, Typed, SessionEnds, Undecided
  <2>. QED BY <2>1, <2>2, <2>3, PermitStep, QuietStep DEF GateInv, Typed
<1>7. CASE UNCHANGED <<stage, peer, slots, ignored>> /\ (Tick \/ UNCHANGED locked)
  <2>1. Typed'
    BY <1>7 DEF GateInv, Typed, Tick
  <2>2. Holders' = Holders /\ \A b \in Addrs : Undecided(b)' = Undecided(b)
    BY <1>7 DEF Holders, HoldsPermit, Undecided
  <2>3. \A b \in Addrs : locked'[b] > 0 => locked[b] > 0
    BY <1>7 DEF GateInv, Typed, Tick
  <2>4. SlotsConserved'
    BY <1>7, <2>2 DEF GateInv, SlotsConserved
  <2>. QED BY <1>7, <2>1, <2>2, <2>3, <2>4, QuietStep DEF GateInv
<1>8. ASSUME NEW s \in Socks, Handle(s) PROVE GateInv'
  <2>1. CASE Refused(s) \/ Lost(s) \/ PreAuthTimeout(s) \/ Replied(s)
    BY <1>2, <2>1 DEF Refused, Lost, PreAuthTimeout, Replied, HoldsPermit
  <2>2. CASE Failed(s)
    BY <2>2, FailedStep
  <2>. QED BY <1>3, <1>4, <1>5, <1>6, <1>8, <2>1, <2>2 DEF Handle
<1>9. CASE Shutdown \/ Tick \/ UNCHANGED vars
  BY <1>7, <1>9 DEF Shutdown, Tick, vars
<1>. QED BY <1>1, <1>8, <1>9 DEF Next

\* The gate's invariant holds in every reachable state.
THEOREM GateAlways == Spec => []GateInv
BY GateInit, GateStep, PTL DEF Spec

\* No early return loses a permit and no live session keeps one, for any cap.
THEOREM CapIsExact == Spec => []SlotsConserved
<1>1. GateInv => SlotsConserved
  BY DEF GateInv
<1>. QED BY <1>1, GateAlways, PTL

\* Once an address is locked out, at most MaxUnauth - 1 of its attempts are still
\* judged before the lockout ends, for any number of connections.
THEOREM LockoutIsTight == Spec => []LateVerdictsBounded
<1>1. GateInv => LateVerdictsBounded
  BY DEF GateInv
<1>. QED BY <1>1, GateAlways, PTL

-----------------------------------------------------------------------------
(* The types.  What record_failure keeps of a window is a sequence of ages, by  *)
(* induction over the recursion that retain is.                                *)

\* Induction over the naturals, for a set.
LEMMA SetInduction ==
    ASSUME NEW S, 0 \in S, \A n \in Nat : n \in S => n + 1 \in S
    PROVE  Nat \subseteq S
<1> DEFINE T == Nat \ S
<1>1. IsWellFoundedOn(OpToRel(<, Nat), Nat)
  BY NatLessThanWellFounded, Zenon
<1>2. ASSUME T # {} PROVE FALSE
  <2>1. \E x \in T : \A y \in T : ~ (<<y, x>> \in OpToRel(<, Nat))
    <3> HIDE DEF T
    <3>1. T \subseteq Nat
      BY DEF T
    <3> QED  BY <1>1, <1>2, <3>1, WFMin, Zenon
  <2>2. PICK x \in T : \A y \in T : ~ (y < x)
    BY <2>1 DEF OpToRel
  <2>3. x # 0 /\ x - 1 \in Nat /\ x - 1 \in S
    BY <2>2
  <2> QED  BY <2>3, <2>2
<1> QED  BY <1>2

\* One step of the recursion that Retained is, and its solutions on 0..n.
KeptAt(ages, f, i) ==
    IF i = 0 THEN <<>>
    ELSE IF ages[i] < Window THEN Append(f[i - 1], ages[i])
    ELSE f[i - 1]
Keeps(ages, f, n) == \A i \in 0..n : f[i] = KeptAt(ages, f, i)

\* A solution goes on by one more age.
LEMMA KeepsMore ==
    ASSUME NEW A, NEW ages \in Seq(A), NEW n \in Nat, n + 1 <= Len(ages),
           NEW f \in [0..n -> Seq(A)], Keeps(ages, f, n)
    PROVE  \E g \in [0..(n + 1) -> Seq(A)] : Keeps(ages, g, n + 1)
<1> DEFINE g == [i \in 0..(n + 1) |-> IF i <= n THEN f[i] ELSE KeptAt(ages, f, n + 1)]
<1>1. ages[n + 1] \in A /\ f[n] \in Seq(A)
  OBVIOUS
<1>2. KeptAt(ages, f, n + 1) \in Seq(A)
  BY <1>1 DEF KeptAt
<1>3. g \in [0..(n + 1) -> Seq(A)]
  BY <1>2
<1>4. ASSUME NEW i \in 0..(n + 1) PROVE g[i] = KeptAt(ages, g, i)
  <2>1. i # 0 => g[i - 1] = f[i - 1]
    OBVIOUS
  <2>2. KeptAt(ages, g, i) = KeptAt(ages, f, i)
    BY <2>1 DEF KeptAt
  <2>3. CASE i <= n
    BY <2>2, <2>3 DEF Keeps
  <2>4. CASE i = n + 1
    BY <2>2, <2>4
  <2> QED  BY <2>3, <2>4
<1>5. Keeps(ages, g, n + 1)
  BY <1>4 DEF Keeps
<1> QED  BY <1>3, <1>5

\* The recursion has a solution, and its values are sequences of ages.
LEMMA RetainedAges ==
    ASSUME NEW A, NEW ages \in Seq(A)
    PROVE  /\ Retained(ages) \in Seq({x \in A : x < Window})
           /\ Len(Retained(ages)) <= Len(ages)
<1> DEFINE N == Len(ages)
           S == {n \in Nat : n <= N => \E f \in [0..n -> Seq(A)] : Keeps(ages, f, n)}
<1>0. N \in Nat
  OBVIOUS
<1>1. 0 \in S
  <2> DEFINE f == [i \in 0..0 |-> <<>>]
  <2>1. f \in [0..0 -> Seq(A)] /\ Keeps(ages, f, 0)
    BY DEF Keeps, KeptAt
  <2> QED  BY <2>1
<1>2. ASSUME NEW n \in Nat, n \in S PROVE n + 1 \in S
  <2>1. CASE n + 1 <= N
    <3>1. \E f \in [0..n -> Seq(A)] : Keeps(ages, f, n)
      BY <1>0, <1>2, <2>1
    <3>2. \E g \in [0..(n + 1) -> Seq(A)] : Keeps(ages, g, n + 1)
      BY <3>1, <2>1, KeepsMore
    <3> QED  BY <3>2
  <2>2. CASE ~ (n + 1 <= N)
    BY <2>2
  <2> QED  BY <2>1, <2>2
<1>3. \E f \in [0..N -> Seq(A)] : Keeps(ages, f, N)
  <2>1. Nat \subseteq S
    <3> HIDE DEF S
    <3> QED  BY <1>1, <1>2, SetInduction
  <2>2. N \in S
    BY <2>1, <1>0
  <2> QED  BY <2>2, <1>0
<1> DEFINE kept[i \in 0..N] ==
            IF i = 0 THEN <<>>
            ELSE IF ages[i] < Window THEN Append(kept[i - 1], ages[i])
            ELSE kept[i - 1]
<1>4. PICK h \in [0..N -> Seq(A)] : h = [i \in 0..N |-> KeptAt(ages, h, i)]
  BY <1>3 DEF Keeps
<1>5. kept = [i \in 0..N |-> KeptAt(ages, kept, i)]
  BY <1>4 DEF KeptAt
<1>6. \A i \in 0..N : kept[i] = KeptAt(ages, kept, i)
  <2> HIDE DEF kept
  <2> QED  BY <1>5
<1>7. Retained(ages) = kept[N]
  BY DEF Retained
<1> HIDE DEF kept
<1> DEFINE Young == Seq({x \in A : x < Window})
           T == {n \in Nat : n <= N => kept[n] \in Young /\ Len(kept[n]) <= n}
<1>8. 0 \in T
  <2>1. kept[0] = <<>>
    BY <1>6, <1>0 DEF KeptAt
  <2>2. <<>> \in Young /\ Len(<<>>) <= 0
    OBVIOUS
  <2>3. kept[0] \in Young /\ Len(kept[0]) <= 0
    <3> HIDE DEF Young
    <3> QED  BY <2>1, <2>2, Zenon
  <2> HIDE DEF Young
  <2> QED  BY <2>3
<1>9. ASSUME NEW n \in Nat, n \in T PROVE n + 1 \in T
  <2>1. CASE n + 1 <= N
    <3>1. kept[n] \in Young /\ Len(kept[n]) <= n /\ ages[n + 1] \in A
      BY <1>0, <1>9, <2>1
    <3>2. kept[n + 1] = IF ages[n + 1] < Window THEN Append(kept[n], ages[n + 1])
                        ELSE kept[n]
      BY <1>0, <1>6, <2>1 DEF KeptAt
    <3>3. kept[n + 1] \in Young /\ Len(kept[n + 1]) <= n + 1
      BY <3>1, <3>2
    <3> QED  BY <3>3
  <2>2. CASE ~ (n + 1 <= N)
    BY <2>2
  <2> QED  BY <2>1, <2>2
<1>10. N \in T
  <2> HIDE DEF T
  <2>1. Nat \subseteq T
    BY <1>8, <1>9, SetInduction
  <2> QED  BY <2>1, <1>0
<1> QED  BY <1>7, <1>10, <1>0

\* record_failure leaves fewer than MaxFailures ages, and none when it locks.
LEMMA RecordedTypes ==
    ASSUME TypeOK, NEW a \in Addrs, RecordFailure(a)
    PROVE  /\ failures' \in [Addrs -> Seq(0..Window)]
           /\ \A b \in Addrs : Len(failures'[b]) < MaxFailures
           /\ locked' \in [Addrs -> -1..Duration]
           /\ ignored' \in [Addrs -> Nat]
<1> USE LimitsAssumption
<1>1. Recent(a) \in Seq(0..Window)
  <2>1. failures[a] \in Seq(0..Window)
    BY DEF TypeOK
  <2>2. Recent(a) \in Seq({x \in 0..Window : x < Window})
    BY <2>1, RetainedAges DEF Recent
  <2>3. {x \in 0..Window : x < Window} \subseteq 0..Window
    OBVIOUS
  <2> QED  BY <2>2, <2>3
<1>2. CASE locked[a] > 0 /\ ignored' = [ignored EXCEPT ![a] = @ + 1]
           /\ UNCHANGED <<failures, locked>>
  BY <1>2 DEF TypeOK
<1>3. CASE Len(Recent(a)) + 1 < MaxFailures
           /\ failures' = [failures EXCEPT ![a] = Append(Recent(a), 0)]
           /\ UNCHANGED <<locked, ignored>>
  <2>1. Append(Recent(a), 0) \in Seq(0..Window) /\ Len(Append(Recent(a), 0)) < MaxFailures
    BY <1>1, <1>3
  <2> QED  BY <1>3, <2>1 DEF TypeOK
<1>4. CASE /\ failures' = [failures EXCEPT ![a] = <<>>]
           /\ locked' = [locked EXCEPT ![a] = Duration]
           /\ ignored' = [ignored EXCEPT ![a] = 0]
  <2>1. <<>> \in Seq(0..Window) /\ Len(<<>>) < MaxFailures
    OBVIOUS
  <2> QED  BY <1>4, <2>1 DEF TypeOK
<1> QED  BY <1>2, <1>3, <1>4 DEF RecordFailure

LEMMA TypeInit == Init => TypeOK
BY LimitsAssumption DEF Init, TypeOK, Stages

\* The permits left stay in range because the gate's invariant counts them.
LEMMA TypeStep == GateInv /\ GateInv' /\ TypeOK /\ [Next]_vars => TypeOK'
<1> SUFFICES ASSUME GateInv, GateInv', TypeOK, [Next]_vars PROVE TypeOK'
  OBVIOUS
<1> USE LimitsAssumption
<1>0. slots' \in 0..MaxUnauth
  <2>1. slots' \in Nat /\ slots' + Cardinality(Holders') = MaxUnauth
    BY DEF GateInv, Typed, SlotsConserved
  <2>2. Cardinality(Holders') \in Nat
    <3>1. Holders' \in SUBSET Socks
      BY DEF Holders
    <3> QED  BY <3>1, FS_Subset, FS_CardinalityType
  <2> QED  BY <2>1, <2>2
<1>1. ASSUME NEW s \in Socks, NEW a \in Addrs, Accept(s, a) PROVE TypeOK'
  BY <1>0, <1>1 DEF TypeOK, Accept, Stages
<1>2. ASSUME NEW s \in Socks, ReturnEarly(s), UNCHANGED <<failures, locked, ignored>>
      PROVE  TypeOK'
  BY <1>0, <1>2 DEF TypeOK, ReturnEarly, Stages
<1>3. ASSUME NEW s \in Socks, Admitted(s) PROVE TypeOK'
  <2>1. <<>> \in Seq(0..Window) /\ Len(<<>>) < MaxFailures
    OBVIOUS
  <2>2. peer[s] \in Addrs
    BY <1>3 DEF TypeOK, Admitted
  <2>3. /\ failures' \in [Addrs -> Seq(0..Window)]
        /\ \A b \in Addrs : Len(failures'[b]) < MaxFailures
        /\ locked' \in [Addrs -> -1..Duration]
    BY <1>3, <2>1, <2>2 DEF TypeOK, Admitted
  <2> QED  BY <1>0, <1>3, <2>3 DEF TypeOK, Admitted, Goto, Stages
<1>4. ASSUME NEW s \in Socks, Upgraded(s) \/ Answered(s) PROVE TypeOK'
  BY <1>0, <1>4 DEF TypeOK, Upgraded, Answered, Goto, Stages
<1>5. ASSUME NEW s \in Socks, Authenticated(s) \/ SessionEnds(s) PROVE TypeOK'
  BY <1>0, <1>5 DEF TypeOK, Authenticated, SessionEnds, Stages
<1>6. ASSUME NEW s \in Socks, Failed(s) PROVE TypeOK'
  <2>1. peer[s] \in Addrs
    BY <1>6 DEF TypeOK, Failed
  <2>2. /\ failures' \in [Addrs -> Seq(0..Window)]
        /\ \A b \in Addrs : Len(failures'[b]) < MaxFailures
        /\ locked' \in [Addrs -> -1..Duration]
        /\ ignored' \in [Addrs -> Nat]
    BY <1>6, <2>1, RecordedTypes DEF Failed
  <2> QED  BY <1>0, <1>6, <2>2 DEF TypeOK, Failed, Goto, Stages
<1>7. CASE Tick
  <2>1. ASSUME NEW a \in Addrs
        PROVE  failures'[a] \in Seq(0..Window) /\ Len(failures'[a]) = Len(failures[a])
    <3>1. failures[a] \in Seq(0..Window)
      BY DEF TypeOK
    <3>2. failures'[a] = [i \in 1..Len(failures[a]) |->
               IF failures[a][i] < Window THEN failures[a][i] + 1 ELSE Window]
      BY <1>7 DEF Tick
    <3>3. \A i \in 1..Len(failures[a]) : failures'[a][i] \in 0..Window
      BY <3>1, <3>2
    <3> QED  BY <3>1, <3>2, <3>3
  <2>2. failures' \in [Addrs -> Seq(0..Window)]
    BY <1>7, <2>1 DEF Tick
  <2>3. locked' \in [Addrs -> -1..Duration]
    BY <1>7 DEF Tick, TypeOK
  <2> QED  BY <1>0, <1>7, <2>1, <2>2, <2>3 DEF Tick, TypeOK
<1>8. ASSUME NEW s \in Socks, Handle(s) PROVE TypeOK'
  <2>1. CASE Refused(s) \/ Lost(s) \/ PreAuthTimeout(s) \/ Replied(s)
    BY <1>2, <2>1 DEF Refused, Lost, PreAuthTimeout, Replied
  <2> QED  BY <1>3, <1>4, <1>5, <1>6, <1>8, <2>1 DEF Handle
<1>9. CASE Shutdown \/ UNCHANGED vars
  BY <1>9 DEF TypeOK, Shutdown, vars
<1> QED  BY <1>1, <1>7, <1>8, <1>9 DEF Next

\* The window of every address holds fewer than MaxFailures ages, a lockout never
\* runs longer than its duration and no permit is made up, for any limits.
THEOREM GateTypes == Spec => []TypeOK
BY TypeInit, TypeStep, GateAlways, PTL DEF Spec

-----------------------------------------------------------------------------
(* A first frame is decided.  The provers know nothing of ENABLED; that an      *)
(* action is enabled where its own guard holds is a hypothesis of the theorem.  *)

Decided(s) == stage[s] \in {"closed", "session"}

\* The guard of the timer and of the last write is all that they wait for.
GuardsSuffice(s) ==
    /\ stage[s] = "first" => ENABLED <<PreAuthTimeout(s)>>_vars
    /\ stage[s] = "reply" => ENABLED <<Replied(s)>>_vars

\* A connection leaves its first frame for a verdict or its end, and the verdict
\* for its end; the timer and the last write end it.
LEMMA FirstFrameSteps ==
    ASSUME NEW s \in Socks, Typed, [Next]_vars
    PROVE  /\ stage[s] = "first" =>
                  stage'[s] = "first" \/ stage'[s] = "reply" \/ Decided(s)'
           /\ stage[s] = "reply" => stage'[s] = "reply" \/ Decided(s)'
           /\ PreAuthTimeout(s) \/ Replied(s) => Decided(s)'
BY DEF Typed, Decided, Next, Handle, Refused, Admitted, Upgraded, Lost, PreAuthTimeout,
    Answered, Failed, Replied, Authenticated, SessionEnds, Goto, ReturnEarly, Accept, Shutdown,
    Tick, vars

\* The same for one connection, from the fairness of its own task.
LEMMA FirstFrameLive ==
    ASSUME NEW s \in Socks
    PROVE  Spec /\ TaskFair(s) /\ []GuardsSuffice(s) =>
               (stage[s] = "first" ~> stage[s] \in {"closed", "session"})
<1> DEFINE First == stage[s] = "first"
           Reply == stage[s] = "reply"
<1>1. GateInv => Typed
  BY DEF GateInv
<1>2. Typed /\ First /\ [Next]_vars => First' \/ Reply' \/ Decided(s)'
  BY FirstFrameSteps
<1>3. Typed /\ Reply /\ [Next]_vars => Reply' \/ Decided(s)'
  BY FirstFrameSteps
<1>4. Typed /\ [Next]_vars /\ <<PreAuthTimeout(s)>>_vars => Decided(s)'
  BY FirstFrameSteps
<1>5. Typed /\ [Next]_vars /\ <<Replied(s)>>_vars => Decided(s)'
  BY FirstFrameSteps
<1>6. GuardsSuffice(s) => /\ First => ENABLED <<PreAuthTimeout(s)>>_vars
                          /\ Reply => ENABLED <<Replied(s)>>_vars
  BY DEF GuardsSuffice
<1>7. Decided(s) => stage[s] \in {"closed", "session"}
  BY DEF Decided
<1> HIDE DEF First, Reply
<1>8. Spec /\ TaskFair(s) /\ []GuardsSuffice(s) => (First ~> Decided(s))
  BY <1>1, <1>2, <1>3, <1>4, <1>5, <1>6, GateAlways, PTL DEF Spec, TaskFair
<1> QED  BY <1>7, <1>8, PTL DEF First

\* For any number of connections and any limits, an upgraded connection is judged
\* or closed, if pre_auth_timeout fires and the last frames are written or fail.
THEOREM FirstFramesEnd ==
    FairSpec /\ (\A s \in Socks : []GuardsSuffice(s)) => FirstFrameDecided
<1> SUFFICES ASSUME FairSpec, \A s \in Socks : []GuardsSuffice(s), NEW s \in Socks
             PROVE  stage[s] = "first" ~> stage[s] \in {"closed", "session"}
  BY DEF FirstFrameDecided
<1>1. Spec /\ TaskFair(s) /\ []GuardsSuffice(s)
  BY DEF FairSpec
<1> QED  BY <1>1, FirstFrameLive, PTL
=============================================================================
