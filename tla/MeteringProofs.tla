--------------------------- MODULE MeteringProofs ---------------------------
(***************************************************************************)
(* What metering guarantees for any number of requests and deployments,    *)
(* every rate, every width of the integers, and times of any resolution.   *)
(***************************************************************************)
EXTENDS Metering, FiniteSetTheorems, SequenceTheorems, WellFoundedInduction, TLAPS

-----------------------------------------------------------------------------
(* Numbers *)

\* A set of natural numbers has a least one: an induction without a predicate
\* for its parameter.
LEMMA LeastNatural ==
  ASSUME NEW T, T \subseteq Nat, T # {}
  PROVE  \E x \in T : \A y \in T : x <= y
<1>1. IsWellFoundedOn(OpToRel(<, Nat), Nat)
  BY NatLessThanWellFounded
<1>2. PICK x \in T : \A y \in T : ~(<<y, x>> \in OpToRel(<, Nat))
  BY <1>1, WFMin
<1>3. \A y \in T : ~(y < x)
  BY <1>2 DEF OpToRel
<1> QED
  BY <1>3

\* The recursive function exists on every initial segment.
PowersTo(n, g) ==
  g = [k \in 0 .. n |-> IF k = 0 THEN 1 ELSE Base * g[k - 1]]

LEMMA PowersExist ==
  ASSUME NEW n \in Nat
  PROVE  \E g : PowersTo(n, g)
<1> DEFINE T == {k \in Nat : ~\E g : PowersTo(k, g)}
<1> SUFFICES T = {}
  OBVIOUS
<1>1. 0 \notin T
  <2> DEFINE one == [k \in 0 .. 0 |-> 1]
  <2>1. PowersTo(0, one)
    BY DEF PowersTo
  <2> QED
    BY <2>1
<1>2. ASSUME NEW k \in Nat, k + 1 \in T PROVE k \in T
  <2> SUFFICES ASSUME NEW g, PowersTo(k, g) PROVE FALSE
    BY <1>2
  <2> DEFINE h == [i \in 0 .. k + 1 |-> IF i = k + 1 THEN Base * g[k] ELSE g[i]]
  <2>1. \A i \in 0 .. k : h[i] = g[i]
    OBVIOUS
  <2>2. h[k + 1] = Base * g[k]
    OBVIOUS
  <2>3. DOMAIN h = 0 .. k + 1 /\ h = [i \in 0 .. k + 1 |-> h[i]]
    OBVIOUS
  <2> HIDE DEF h
  <2>4. ASSUME NEW i \in 0 .. k + 1
        PROVE  h[i] = IF i = 0 THEN 1 ELSE Base * h[i - 1]
    <3>1. CASE i = k + 1
      BY <2>1, <2>2, <3>1
    <3>2. CASE i \in 0 .. k
      <4>1. g[i] = IF i = 0 THEN 1 ELSE Base * g[i - 1]
        BY <3>2 DEF PowersTo
      <4>2. i # 0 => h[i - 1] = g[i - 1]
        BY <2>1, <3>2
      <4> QED
        BY <2>1, <3>2, <4>1, <4>2
    <3> QED
      BY <3>1, <3>2
  <2>5. PowersTo(k + 1, h)
    BY <2>3, <2>4 DEF PowersTo
  <2> QED
    BY <1>2, <2>5
<1>3. ASSUME T # {} PROVE FALSE
  <2>1. PICK k \in T : \A i \in T : k <= i
    BY <1>3, LeastNatural
  <2>2. k \in Nat /\ k # 0 /\ k - 1 \in Nat
    BY <1>1, <2>1
  <2>3. k - 1 \in T
    <3>1. (k - 1) + 1 = k
      BY <2>2
    <3> QED
      BY <1>2, <2>1, <2>2, <3>1
  <2> QED
    BY <2>1, <2>2, <2>3
<1> QED
  BY <1>3

\* Powers of the base are positive, and the first is one.
LEMMA PowerFacts ==
  /\ \A n \in 0 .. Places : Power[n] \in Nat \ {0}
  /\ Power[0] = 1
  /\ Second \in Nat \ {0}
<1>0. Places \in Nat
  BY TimestampsAssumption
<1>1. PICK g : PowersTo(Places, g)
  BY <1>0, PowersExist
<1>2. g = [n \in 0 .. Places |-> IF n = 0 THEN 1 ELSE Base * g[n - 1]]
  BY <1>1 DEF PowersTo
<1>3. Power = [n \in 0 .. Places |-> IF n = 0 THEN 1 ELSE Base * Power[n - 1]]
  BY <1>2 DEF Power
<1>4. Power[0] = 1
  BY <1>0, <1>3
<1>5. \A n \in 0 .. Places : n # 0 => Power[n] = Base * Power[n - 1]
  BY <1>3
<1> DEFINE T == {n \in 0 .. Places : Power[n] \notin Nat \ {0}}
<1>6. ASSUME T # {} PROVE FALSE
  <2>1. T \subseteq Nat
    BY <1>0
  <2>2. PICK n \in T : \A m \in T : n <= m
    BY <1>6, <2>1, LeastNatural
  <2>3. n \in 0 .. Places /\ n # 0 /\ n - 1 \in 0 .. Places
    BY <1>0, <1>4, <2>2
  <2>4. Power[n - 1] \in Nat \ {0}
    BY <2>2, <2>3
  <2>5. Base * Power[n - 1] \in Nat \ {0}
    BY <2>4, TimestampsAssumption
  <2> QED
    BY <1>5, <2>2, <2>3, <2>5
<1>7. \A n \in 0 .. Places : Power[n] \in Nat \ {0}
  BY <1>6
<1> QED
  BY <1>0, <1>4, <1>7 DEF Second

\* What is left of a fraction without its trailing zeros is within it.
LEMMA PlacesWithin ==
  ASSUME NEW t \in Nat
  PROVE  PlacesOf(t) \in 0 .. Places
<1> DEFINE T == {n \in 0 .. Places : t % Power[Places - n] = 0}
<1>0. Places \in Nat
  BY TimestampsAssumption
<1>1. Places \in T
  BY <1>0, PowerFacts
<1>2. PICK n \in T : \A m \in T : n <= m
  <2>1. T \subseteq Nat
    BY <1>0
  <2> HIDE DEF T
  <2> QED
    BY <1>1, <2>1, LeastNatural
<1>3. \A m \in 0 .. (n - 1) : t % Power[Places - m] # 0
  BY <1>0, <1>2
<1>4. n \in 0 .. Places /\ t % Power[Places - n] = 0
  BY <1>2
<1> DEFINE Fits(k) == /\ t % Power[Places - k] = 0
                      /\ \A m \in 0 .. (k - 1) : t % Power[Places - m] # 0
<1>5. \E k \in 0 .. Places : Fits(k)
  BY <1>3, <1>4
<1>6. PlacesOf(t) = CHOOSE k \in 0 .. Places : Fits(k)
  BY DEF PlacesOf
<1> HIDE DEF Fits
<1> QED
  BY <1>5, <1>6

\* A text is a sequence that begins with the seconds.
LEMMA TextShape ==
  ASSUME NEW t \in Nat
  PROVE  /\ SecondOf(t) \in Nat
         /\ Len(Text(t)) \in Nat /\ Len(Text(t)) >= 1
         /\ Text(t)[1] = SecondOf(t)
<1> DEFINE seconds  == <<SecondOf(t)>>
           digits   == [i \in 1 .. PlacesOf(t) |-> Digit(t, i)]
           fraction == IF PlacesOf(t) = 0 THEN <<>> ELSE <<Dot>> \o digits
<1>0. Base \in Nat \ {0, 1} /\ Places \in Nat /\ PlacesOf(t) \in 0 .. Places
  BY PlacesWithin, TimestampsAssumption
<1>1. SecondOf(t) \in Nat
  BY PowerFacts DEF SecondOf
<1>2. seconds \in Seq(Int) /\ Len(seconds) = 1 /\ seconds[1] = SecondOf(t)
  BY <1>1
<1>3. <<Zulu>> \in Seq(Int)
  BY <1>0 DEF Zulu
<1>4. fraction \in Seq(Int)
  <2>1. ASSUME NEW i \in 1 .. PlacesOf(t) PROVE Digit(t, i) \in Int
    <3>1. Power[Places - i] \in Nat \ {0}
      BY <1>0, PowerFacts
    <3> QED
      BY <1>0, <3>1 DEF Digit
  <2>2. digits \in Seq(Int)
    BY <1>0, <2>1
  <2>3. <<Dot>> \in Seq(Int)
    BY DEF Dot
  <2> HIDE DEF digits
  <2>4. <<Dot>> \o digits \in Seq(Int)
    BY <2>2, <2>3, ConcatProperties
  <2> QED
    BY <2>4
<1>5. Text(t) = (seconds \o fraction) \o <<Zulu>>
  BY DEF Text
<1> HIDE DEF seconds, fraction
<1>6. /\ seconds \o fraction \in Seq(Int)
      /\ Len(seconds \o fraction) = 1 + Len(fraction)
      /\ Len(fraction) \in Nat
      /\ (seconds \o fraction)[1] = SecondOf(t)
  <2>1. Len(fraction) \in Nat
    BY <1>4, LenProperties
  <2>2. 1 \in 1 .. Len(seconds) + Len(fraction) /\ 1 <= Len(seconds)
    BY <1>2, <2>1
  <2>3. /\ seconds \o fraction \in Seq(Int)
        /\ Len(seconds \o fraction) = Len(seconds) + Len(fraction)
        /\ (seconds \o fraction)[1] = seconds[1]
    BY <1>2, <1>4, <2>2, ConcatProperties
  <2> QED
    BY <1>2, <2>1, <2>3
<1>7. /\ Len(Text(t)) = 1 + Len(fraction) + Len(<<Zulu>>)
      /\ Len(<<Zulu>>) \in Nat
      /\ Text(t)[1] = SecondOf(t)
  <2>1. Len(<<Zulu>>) \in Nat
    BY <1>3, LenProperties
  <2>2. /\ 1 \in 1 .. Len(seconds \o fraction) + Len(<<Zulu>>)
        /\ 1 \in 1 .. Len(seconds \o fraction)
    BY <1>6, <2>1
  <2>3. /\ Len((seconds \o fraction) \o <<Zulu>>) =
             Len(seconds \o fraction) + Len(<<Zulu>>)
        /\ ((seconds \o fraction) \o <<Zulu>>)[1] = (seconds \o fraction)[1]
    BY <1>3, <1>6, <2>2, ConcatProperties
  <2> QED
    BY <1>5, <1>6, <2>1, <2>3
<1> QED
  BY <1>1, <1>6, <1>7

\* Whatever the fractions are, an earlier second sorts before a later one.
LEMMA SecondsSort ==
  ASSUME NEW t \in Nat, NEW u \in Nat, SecondOf(t) < SecondOf(u)
  PROVE  SqlBefore(t, u) /\ ~SqlBefore(u, t)
<1>1. /\ SecondOf(t) \in Nat /\ Text(t)[1] = SecondOf(t)
      /\ Len(Text(t)) \in Nat /\ Len(Text(t)) >= 1
      /\ SecondOf(u) \in Nat /\ Text(u)[1] = SecondOf(u)
      /\ Len(Text(u)) \in Nat /\ Len(Text(u)) >= 1
  BY TextShape
<1>2. SqlBefore(t, u)
  BY <1>1 DEF SqlBefore, TextBefore
<1>3. ASSUME NEW n \in 1 .. Len(Text(u)), Text(u)[n] < Text(t)[n],
             \A m \in 1 .. (n - 1) : Text(u)[m] = Text(t)[m]
      PROVE  FALSE
  <2>1. CASE n = 1
    BY <1>1, <1>3, <2>1
  <2>2. CASE n # 1
    BY <1>1, <1>3, <2>2
  <2> QED
    BY <2>1, <2>2
<1> QED
  BY <1>2, <1>3 DEF SqlBefore, TextBefore

\* A time in an earlier second is an earlier time.
LEMMA SecondsMonotonic ==
  ASSUME NEW t \in Nat, NEW u \in Nat, SecondOf(t) < SecondOf(u)
  PROVE  t < u
BY PowerFacts DEF SecondOf

-----------------------------------------------------------------------------
(* The invariant *)

\* A deployment that can be metered has been running; so has one that is on
\* its way from the one status to the other.
RanInv == \A d \in Deployments : status[d] \in {"running", "stopping", "stopped"} => d \in ran

\* What a request is about to insert was checked, on its own and against a
\* deployment that had been running by then.
CallInv ==
  \A t \in Threads : call[t] # Idle =>
    /\ Valid(call[t])
    /\ Affordable(call[t].units)
    /\ call[t].deployment \in ran

\* Records are proper periods, and there are finitely many to count.
UsageInv == IsFiniteSet(usage) /\ \A u \in usage : Valid(u)

IInv ==
  /\ TypeOK
  /\ RanInv
  /\ CallInv
  /\ UsageInv
  /\ SettledExactly
  /\ BilledAfterRunning

\* What was checked to be affordable is settled at its true price.
LEMMA AmountExact ==
  ASSUME NEW units \in Nat, Affordable(units)
  PROVE  Amount(units) = units * Rate /\ Amount(units) \in 0 .. MaxInt
<1>0. MaxInt \in Nat /\ Rate \in Nat \ {0}
  BY MeteringAssumption
<1>1. units * Rate \in 0 .. MaxInt
  BY <1>0 DEF Affordable
<1> DEFINE size == 2 * (MaxInt + 1)
<1>2. (units * Rate) % size = units * Rate
  BY <1>0, <1>1
<1> QED
  BY <1>0, <1>1, <1>2 DEF Amount

\* The fields of a record are numbers, and no record is the idle call.
LEMMA UsageShape ==
  /\ \A u \in Usage : u.deployment \in Deployments /\ u.start \in Nat /\ u.end \in Nat
                   /\ u.units \in Nat
  /\ Idle \notin Usage
<1>1. \A u \in Usage : DOMAIN u = {"deployment", "start", "end", "units"}
  BY DEF Usage
<1>2. DOMAIN Idle = {"deployment"}
  BY DEF Idle
<1> QED
  BY <1>1, <1>2, MeteringAssumption DEF Usage

LEMMA IInvInit == Init => IInv
<1> SUFFICES ASSUME Init PROVE IInv
  OBVIOUS
<1>1. TypeOK /\ RanInv /\ CallInv /\ BilledAfterRunning
  BY DEF Init, TypeOK, RanInv, CallInv, BilledAfterRunning, DeploymentStatus
<1>2. UsageInv
  BY FS_EmptySet DEF Init, UsageInv
<1>3. SettledExactly
  <2>1. ASSUME NEW d \in Deployments
        PROVE  audit[d] = Cardinality({u \in usage : u.deployment = d})
    <3>1. {u \in usage : u.deployment = d} = {} /\ audit[d] = 0
      BY DEF Init
    <3> QED
      BY <3>1, FS_EmptySet
  <2> QED
    BY <2>1 DEF Init, SettledExactly
<1> QED
  BY <1>1, <1>2, <1>3 DEF IInv

\* A deployment has been running before it stops.
LEMMA AdvanceKeeps ==
  ASSUME IInv, NEW d \in Deployments, NEW next \in DeploymentStatus, Advance(d, next)
  PROVE  IInv'
<1>1. /\ DeploymentCanMove(status[d], next)
      /\ status' = [status EXCEPT ![d] = next]
      /\ ran' = IF next = "running" THEN ran \cup {d} ELSE ran
      /\ UNCHANGED <<usage, settlement, audit, call>>
  BY DEF Advance
<1>2. ran \subseteq ran' /\ ran' \subseteq Deployments
  BY <1>1 DEF IInv, TypeOK
<1>3. TypeOK'
  BY <1>1, <1>2 DEF IInv, TypeOK
<1>4. RanInv'
  <2> SUFFICES ASSUME NEW x \in Deployments,
                      status'[x] \in {"running", "stopping", "stopped"}
               PROVE  x \in ran'
    BY DEF RanInv
  <2>1. CASE x = d
    <3>1. status'[x] = next
      BY <1>1, <2>1 DEF IInv, TypeOK
    <3>2. CASE next = "running"
      BY <1>1, <2>1, <3>2
    <3>3. CASE next \in {"stopping", "stopped"}
      <4>1. status[d] \in {"running", "stopping"}
        BY <1>1, <3>3 DEF DeploymentCanMove
      <4> QED
        BY <1>2, <2>1, <4>1 DEF IInv, RanInv
    <3> QED
      BY <2>1, <3>1, <3>2, <3>3
  <2>2. CASE x # d
    BY <1>1, <1>2, <2>2 DEF IInv, TypeOK, RanInv
  <2> QED
    BY <2>1, <2>2
<1>5. CallInv' /\ UsageInv'
  BY <1>1, <1>2 DEF IInv, CallInv, UsageInv
<1>6. SettledExactly'
  BY <1>1 DEF IInv, SettledExactly
<1>7. BilledAfterRunning'
  BY <1>1, <1>2 DEF IInv, BilledAfterRunning
<1> QED
  BY <1>3, <1>4, <1>5, <1>6, <1>7 DEF IInv

\* The tables stay when a request reads, or gives up.
LEMMA CallKeeps ==
  ASSUME IInv, UNCHANGED <<status, ran, usage, settlement, audit>>,
         call' \in [Threads -> {Idle} \cup Usage], CallInv'
  PROVE  IInv'
BY DEF IInv, TypeOK, RanInv, UsageInv, SettledExactly, BilledAfterRunning

LEMMA ReadKeeps ==
  ASSUME IInv, NEW t \in Threads,
         NEW u \in [deployment : Deployments, start : Times, end : Times,
                    units : UnitSeconds],
         ReadRecordUsage(t, u)
  PROVE  IInv'
<1>1. /\ Meterable(u.deployment) /\ Valid(u) /\ Affordable(u.units)
      /\ call' = [call EXCEPT ![t] = u]
      /\ UNCHANGED <<status, ran, usage, settlement, audit>>
  BY DEF ReadRecordUsage
<1>2. u \in Usage
  <2>1. u.units \in UnitSeconds /\ u.units >= 0
    BY <1>1 DEF Valid
  <2>2. u.units \in Int
    BY <2>1, MeteringAssumption
  <2>3. u.units \in UnitSeconds \cap Nat
    BY <2>1, <2>2
  <2> QED
    BY <2>3 DEF Usage
<1>3. u.deployment \in ran
  BY <1>1 DEF IInv, RanInv, Meterable
<1>4. call' \in [Threads -> {Idle} \cup Usage]
  BY <1>1, <1>2 DEF IInv, TypeOK
<1>5. CallInv'
  BY <1>1, <1>3 DEF IInv, TypeOK, CallInv
<1> QED
  BY <1>1, <1>4, <1>5, CallKeeps

LEMMA AbandonKeeps ==
  ASSUME IInv, NEW t \in Threads, Abandon(t)
  PROVE  IInv'
<1>1. /\ call' = [call EXCEPT ![t] = Idle]
      /\ UNCHANGED <<status, ran, usage, settlement, audit>>
  BY DEF Abandon
<1>2. call' \in [Threads -> {Idle} \cup Usage]
  BY <1>1 DEF IInv, TypeOK
<1>3. CallInv'
  BY <1>1 DEF IInv, TypeOK, CallInv
<1> QED
  BY <1>1, <1>2, <1>3, CallKeeps

\* A record is new, and it, its settlement and its event are inserted together.
LEMMA CommitKeeps ==
  ASSUME IInv, NEW t \in Threads, CommitRecordUsage(t)
  PROVE  IInv'
<1> PICK u \in Usage : u = call[t]
  BY DEF IInv, TypeOK, CommitRecordUsage
<1>1. /\ Insertable(u)
      /\ usage' = usage \cup {u}
      /\ settlement' = [v \in usage' |-> IF v \in usage THEN settlement[v] ELSE Amount(v.units)]
      /\ audit' = [audit EXCEPT ![u.deployment] = @ + 1]
      /\ call' = [call EXCEPT ![t] = Idle]
      /\ UNCHANGED <<status, ran>>
  BY DEF CommitRecordUsage
<1>2. u \notin usage
  BY <1>1 DEF Insertable, SamePeriod
<1>3. /\ Valid(u) /\ Affordable(u.units) /\ u.deployment \in ran
      /\ u.deployment \in Deployments /\ u.units \in Nat
  BY UsageShape DEF IInv, CallInv, CommitRecordUsage
<1>4. Amount(u.units) = u.units * Rate /\ Amount(u.units) \in 0 .. MaxInt
  BY <1>3, AmountExact
<1>5. ASSUME NEW v \in usage PROVE settlement'[v] = settlement[v]
  BY <1>1, <1>5
<1>6. settlement'[u] = Amount(u.units)
  BY <1>1, <1>2
<1>7. settlement' \in [usage' -> 0 .. MaxInt]
  <2>1. \A v \in usage : settlement[v] \in 0 .. MaxInt
    BY DEF IInv, TypeOK
  <2>2. \A v \in usage' : settlement'[v] \in 0 .. MaxInt
    BY <1>1, <1>4, <1>5, <1>6, <2>1
  <2> QED
    BY <1>1, <2>2
<1>8. TypeOK'
  <2>1. audit' \in [Deployments -> Nat]
    BY <1>1, <1>3 DEF IInv, TypeOK
  <2>2. usage' \subseteq Usage
    BY <1>1 DEF IInv, TypeOK
  <2>3. call' \in [Threads -> {Idle} \cup Usage]
    BY <1>1 DEF IInv, TypeOK
  <2> QED
    BY <1>1, <1>7, <2>1, <2>2, <2>3 DEF IInv, TypeOK
<1>9. RanInv' /\ CallInv'
  BY <1>1 DEF IInv, TypeOK, RanInv, CallInv
<1>10. UsageInv'
  <2>1. IsFiniteSet(usage \cup {u})
    BY FS_AddElement DEF IInv, UsageInv
  <2> QED
    BY <1>1, <1>3, <2>1 DEF IInv, UsageInv
<1>11. SettledExactly'
  <2>1. \A v \in usage' : settlement'[v] = v.units * Rate
    BY <1>1, <1>4, <1>5, <1>6 DEF IInv, SettledExactly
  <2>2. ASSUME NEW d \in Deployments
        PROVE  audit'[d] = Cardinality({v \in usage' : v.deployment = d})
    <3> DEFINE Of == {v \in usage : v.deployment = d}
    <3>1. audit[d] = Cardinality(Of)
      BY DEF IInv, SettledExactly
    <3>2. IsFiniteSet(Of)
      <4>1. Of \subseteq usage
        OBVIOUS
      <4> QED
        BY <4>1, FS_Subset DEF IInv, UsageInv
    <3>3. CASE u.deployment = d
      <4>1. {v \in usage' : v.deployment = d} = Of \cup {u}
        BY <1>1, <3>3
      <4>2. u \notin Of
        BY <1>2
      <4>3. audit'[d] = audit[d] + 1
        BY <1>1, <3>3 DEF IInv, TypeOK
      <4> HIDE DEF Of
      <4> QED
        BY <3>1, <3>2, <4>1, <4>2, <4>3, FS_AddElement
    <3>4. CASE u.deployment # d
      <4>1. {v \in usage' : v.deployment = d} = Of
        BY <1>1, <3>4
      <4>2. audit'[d] = audit[d]
        BY <1>1, <3>4 DEF IInv, TypeOK
      <4> QED
        BY <3>1, <4>1, <4>2
    <3> QED
      BY <3>3, <3>4
  <2> QED
    BY <2>1, <2>2 DEF SettledExactly
<1>12. BilledAfterRunning'
  BY <1>1, <1>3 DEF IInv, BilledAfterRunning
<1> QED
  BY <1>8, <1>9, <1>10, <1>11, <1>12 DEF IInv

LEMMA IInvNext == IInv /\ [Next]_vars => IInv'
<1> SUFFICES ASSUME IInv, [Next]_vars PROVE IInv'
  OBVIOUS
<1>1. CASE UNCHANGED vars
  BY <1>1, CallKeeps DEF vars, IInv, TypeOK, CallInv
<1> QED
  BY <1>1, AdvanceKeeps, ReadKeeps, CommitKeeps, AbandonKeeps DEF Next

\* Listings compare texts, which sort by seconds first.
LEMMA ListedExactly ==
  ASSUME IInv, NEW u \in usage, NEW from \in Times, NEW to \in Times
  PROVE  /\ SecondOf(from) < SecondOf(u.start) /\ SecondOf(u.end) < SecondOf(to)
              => u \in ListUsage(from, to)
         /\ u \in ListUsage(from, to) =>
              SecondOf(from) <= SecondOf(u.start) /\ SecondOf(u.end) <= SecondOf(to)
<1>1. /\ from \in Nat /\ to \in Nat /\ u.start \in Nat /\ u.end \in Nat
      /\ u.start < u.end
  BY UsageShape, MeteringAssumption DEF IInv, TypeOK, UsageInv, Valid
<1>2. /\ SecondOf(from) \in Nat /\ SecondOf(to) \in Nat
      /\ SecondOf(u.start) \in Nat /\ SecondOf(u.end) \in Nat
  BY <1>1, TextShape
<1>3. ASSUME SecondOf(from) < SecondOf(u.start), SecondOf(u.end) < SecondOf(to)
      PROVE  u \in ListUsage(from, to)
  <2>1. from < u.start /\ u.end < to
    BY <1>1, <1>3, SecondsMonotonic
  <2>2. SqlNotAfter(from, u.start) /\ SqlNotAfter(u.end, to)
    BY <1>1, <1>3, SecondsSort DEF SqlNotAfter
  <2>3. from < to
    BY <1>1, <2>1
  <2> QED
    BY <2>2, <2>3 DEF ListUsage
<1>4. ASSUME u \in ListUsage(from, to)
      PROVE  SecondOf(from) <= SecondOf(u.start) /\ SecondOf(u.end) <= SecondOf(to)
  <2>1. ~SqlBefore(u.start, from) /\ ~SqlBefore(to, u.end)
    BY <1>4 DEF ListUsage, SqlNotAfter
  <2>2. ~(SecondOf(u.start) < SecondOf(from)) /\ ~(SecondOf(to) < SecondOf(u.end))
    BY <1>1, <2>1, SecondsSort
  <2> QED
    BY <1>2, <2>2
<1> QED
  BY <1>3, <1>4

-----------------------------------------------------------------------------
(* Theorems *)

\* The inductive invariant: what a request checked before its transaction is
\* still true of the record when the transaction inserts it.
THEOREM Invariant == Spec => []IInv
BY IInvInit, IInvNext, PTL DEF Spec

\* Records, settlements and calls are well formed.
THEOREM TypeCorrect == Spec => []TypeOK
<1>1. IInv => TypeOK
  BY DEF IInv
<1> QED
  BY <1>1, Invariant, PTL

\* No settlement is off by an overflow, and every record has its event.
THEOREM SettlementsExact == Spec => []SettledExactly
<1>1. IInv => SettledExactly
  BY DEF IInv
<1> QED
  BY <1>1, Invariant, PTL

\* Nothing is billed for a deployment that never ran.
THEOREM BilledOnlyAfterRunning == Spec => []BilledAfterRunning
<1>1. IInv => BilledAfterRunning
  BY DEF IInv
<1> QED
  BY <1>1, Invariant, PTL

\* Listings are right to the second, for fractions of any number of places.
THEOREM ListingsToTheSecond == Spec => []ListedToTheSecond
<1>1. IInv => ListedToTheSecond
  BY ListedExactly DEF ListedToTheSecond
<1> QED
  BY <1>1, Invariant, PTL
=============================================================================
