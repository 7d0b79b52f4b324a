------------------------ MODULE CapacityLedgerProofs ------------------------
(***************************************************************************)
(* The ledger conserves capacity for every set of sites and holds.         *)
(***************************************************************************)
EXTENDS CapacityLedger, FiniteSetTheorems, TLAPS

\* The ledger's rows stay well formed; free units never become negative.
LEMMA LedgerTyping ==
  ASSUME LedgerAssumption
  PROVE  Spec => []TypeOK
<1>1. Init => TypeOK
  BY LedgerAssumption DEF LedgerAssumption, Init, TypeOK
<1>2. TypeOK /\ [Next]_vars => TypeOK'
  <2> SUFFICES ASSUME TypeOK, [Next]_vars PROVE TypeOK'
    OBVIOUS
  <2>1. ASSUME NEW h \in Holds, NEW s \in Sites, NEW u \in 1 .. free[s],
               Claim(h, s, u)
        PROVE  TypeOK'
    BY <2>1 DEF TypeOK, Claim, Hold
  <2>2. ASSUME NEW h \in Holds, Return(h)
        PROVE  TypeOK'
    <3>1. hold[h] \in Hold
      BY <2>2 DEF TypeOK, Return, Unused
    <3>2. QED
      BY <2>2, <3>1 DEF TypeOK, Return, Hold
  <2>3. CASE UNCHANGED vars
    BY <2>3 DEF TypeOK, vars
  <2>4. QED
    BY <2>1, <2>2, <2>3 DEF Next
<1>3. QED
  BY <1>1, <1>2, PTL DEF Spec

\* A block of units claimed by one hold counts for its length.
LEMMA BlockCardinality ==
  ASSUME NEW S, IsFiniteSet(S), NEW h, NEW u \in Nat,
         \A x \in S : x[1] # h
  PROVE  /\ IsFiniteSet(S \cup ({h} \X (1 .. u)))
         /\ Cardinality(S \cup ({h} \X (1 .. u))) = Cardinality(S) + u
<1> DEFINE B == {h} \X (1 .. u)
<1>1. IsFiniteSet(B) /\ Cardinality(B) = u
  <2>1. IsFiniteSet({h}) /\ Cardinality({h}) = 1
    BY FS_Singleton
  <2>2. IsFiniteSet(1 .. u) /\ Cardinality(1 .. u) = u
    BY FS_Interval
  <2>3. IsFiniteSet(B) /\ Cardinality(B) = Cardinality({h}) * Cardinality(1 .. u)
    BY <2>1, <2>2, FS_Product
  <2>4. Cardinality({h}) * Cardinality(1 .. u) = 1 * u
    BY <2>1, <2>2
  <2>5. QED
    BY <2>3, <2>4
<1>2. S \cap B = {}
  OBVIOUS
<1>3. Cardinality(S \cap B) = 0
  BY <1>2, FS_EmptySet
<1>4. Cardinality(S) \in Nat
  BY FS_CardinalityType
<1>5. /\ IsFiniteSet(S \cup B)
      /\ Cardinality(S \cup B) = Cardinality(S) + Cardinality(B) - Cardinality(S \cap B)
  BY <1>1, FS_Union
<1>6. QED
  BY <1>1, <1>3, <1>4, <1>5

\* The single units claimed on a site are finitely many, so they can be counted.
LEMMA ClaimsFinite ==
  ASSUME LedgerAssumption, TypeOK, NEW s \in Sites
  PROVE  IsFiniteSet(Claims(s)) /\ Cardinality(Claims(s)) \in Nat
<1>1. IsFiniteSet(Holds) /\ Total[s] \in Nat
  BY LedgerAssumption DEF LedgerAssumption
<1>2. IsFiniteSet(1 .. Total[s])
  BY <1>1, FS_Interval
<1>3. IsFiniteSet(Holds \X (1 .. Total[s]))
  BY <1>1, <1>2, FS_Product
<1>4. Claims(s) \subseteq Holds \X (1 .. Total[s])
  BY DEF Claims
<1>5. QED
  BY <1>3, <1>4, FS_Subset, FS_CardinalityType

\* Inductiveness of conservation: a claim adds a block of fresh units to the
\* claims of its site, a return removes one, other sites keep theirs.
LEMMA ConservedStep ==
  ASSUME LedgerAssumption
  PROVE  TypeOK /\ TypeOK' /\ Conserved /\ [Next]_vars => Conserved'
<1> SUFFICES ASSUME TypeOK, TypeOK', Conserved, [Next]_vars PROVE Conserved'
  OBVIOUS
<1>1. ASSUME NEW h \in Holds, NEW s \in Sites, NEW u \in 1 .. free[s],
             Claim(h, s, u)
      PROVE  Conserved'
  <2>1. /\ u \in Nat \ {0} /\ Total[s] \in Nat /\ free[s] \in Nat /\ u <= Total[s]
    BY ClaimsFinite, LedgerAssumption DEF LedgerAssumption, Conserved, TypeOK
  <2>2. /\ ~LiveAt(h, s) /\ hold'[h] = [state |-> "live", site |-> s, units |-> u]
        /\ \A g \in Holds \ {h} : hold'[g] = hold[g]
    BY <1>1 DEF Claim, LiveAt, TypeOK
  <2>3. Claims(s)' = Claims(s) \cup ({h} \X (1 .. u))
    <3>1. ASSUME NEW x \in Holds \X (1 .. Total[s])
          PROVE  x \in Claims(s)' <=> x \in Claims(s) \cup ({h} \X (1 .. u))
      <4>1. CASE x[1] = h
        BY <4>1, <2>1, <2>2 DEF Claims, LiveAt, Unused
      <4>2. CASE x[1] # h
        BY <4>2, <2>2 DEF Claims, LiveAt
      <4>3. QED
        BY <4>1, <4>2
    <3>2. {h} \X (1 .. u) \subseteq Holds \X (1 .. Total[s])
      BY <2>1
    <3>3. QED
      BY <3>1, <3>2 DEF Claims
  <2>4. \A x \in Claims(s) : x[1] # h
    BY <2>2 DEF Claims
  <2>5. Cardinality(Claims(s)') = Cardinality(Claims(s)) + u
    <3>1. IsFiniteSet(Claims(s))
      BY ClaimsFinite
    <3>2. Cardinality(Claims(s) \cup ({h} \X (1 .. u))) = Cardinality(Claims(s)) + u
      BY <2>1, <2>4, <3>1, BlockCardinality
    <3>3. QED
      BY <2>3, <3>2
  <2>6. ASSUME NEW z \in Sites \ {s}
        PROVE  Claims(z)' = Claims(z) /\ free'[z] = free[z]
    <3>1. \A g \in Holds : LiveAt(g, z)' <=> LiveAt(g, z)
      BY <1>1, <2>2, <2>6 DEF LiveAt, Claim, Unused
    <3>2. \A g \in Holds : LiveAt(g, z) => hold'[g] = hold[g]
      BY <1>1, <2>2 DEF LiveAt, Claim
    <3>3. QED
      BY <1>1, <2>6, <3>1, <3>2 DEF Claims, Claim, TypeOK
  <2>7. free'[s] = free[s] - u
    BY <1>1 DEF Claim, TypeOK
  <2>8. ASSUME NEW z \in Sites
        PROVE  free'[z] + Cardinality(Claims(z)') = Total[z]
    <3>1. CASE z = s
      BY <3>1, <2>1, <2>5, <2>7, ClaimsFinite DEF Conserved
    <3>2. CASE z # s
      BY <3>2, <2>6 DEF Conserved
    <3>3. QED
      BY <3>1, <3>2
  <2>9. ASSUME NEW g \in Holds, NEW z \in Sites, LiveAt(g, z)'
        PROVE  hold'[g].units <= Total[z]
    <3>1. CASE g = h
      BY <3>1, <2>1, <2>2, <2>9 DEF LiveAt
    <3>2. CASE g # h
      BY <3>2, <2>2, <2>9 DEF LiveAt, Conserved
    <3>3. QED
      BY <3>1, <3>2
  <2>10. QED
    BY <2>8, <2>9 DEF Conserved
<1>2. ASSUME NEW h \in Holds, Return(h)
      PROVE  Conserved'
  <2>0. hold[h] \in Hold
    BY <1>2 DEF Return, TypeOK, Unused
  <2> PICK s \in Sites, u \in Nat : s = hold[h].site /\ u = hold[h].units
    BY <2>0 DEF Hold
  <2>1. hold[h] \in Hold /\ LiveAt(h, s) /\ s = hold[h].site /\ u = hold[h].units
    BY <1>2, <2>0 DEF Return, LiveAt, Unused, Hold
  <2>2. u <= Total[s] /\ Total[s] \in Nat /\ free[s] \in Nat
    BY <2>1, LedgerAssumption DEF LedgerAssumption, Conserved, TypeOK
  <2>3. /\ hold'[h].state = "returned"
        /\ \A g \in Holds \ {h} : hold'[g] = hold[g]
    BY <1>2, <2>1 DEF Return, TypeOK, Hold
  <2>4. Claims(s) = Claims(s)' \cup ({h} \X (1 .. u))
    <3>1. ASSUME NEW x \in Holds \X (1 .. Total[s])
          PROVE  x \in Claims(s) <=> x \in Claims(s)' \cup ({h} \X (1 .. u))
      <4>1. CASE x[1] = h
        BY <4>1, <2>1, <2>2, <2>3 DEF Claims, LiveAt
      <4>2. CASE x[1] # h
        BY <4>2, <2>3 DEF Claims, LiveAt
      <4>3. QED
        BY <4>1, <4>2
    <3>2. {h} \X (1 .. u) \subseteq Holds \X (1 .. Total[s])
      BY <2>1, <2>2
    <3>3. QED
      BY <3>1, <3>2 DEF Claims
  <2>5. \A x \in Claims(s)' : x[1] # h
    BY <2>3 DEF Claims, LiveAt
  <2>6. IsFiniteSet(Claims(s)') /\ Cardinality(Claims(s)') \in Nat
    <3>1. Claims(s)' \subseteq Claims(s)
      BY <2>4
    <3>2. QED
      BY <3>1, <2>1, ClaimsFinite, FS_Subset, FS_CardinalityType
  <2>7. Cardinality(Claims(s)) = Cardinality(Claims(s)') + u
    <3>1. Cardinality(Claims(s)' \cup ({h} \X (1 .. u))) = Cardinality(Claims(s)') + u
      BY <2>5, <2>6, BlockCardinality
    <3>2. QED
      BY <2>4, <3>1
  <2>8. ASSUME NEW z \in Sites \ {s}
        PROVE  Claims(z)' = Claims(z) /\ free'[z] = free[z]
    <3>1. \A g \in Holds : LiveAt(g, z)' <=> LiveAt(g, z)
      BY <2>1, <2>3, <2>8 DEF LiveAt
    <3>2. \A g \in Holds : LiveAt(g, z) => hold'[g] = hold[g]
      BY <2>1, <2>3, <2>8 DEF LiveAt
    <3>3. QED
      BY <1>2, <2>8, <3>1, <3>2 DEF Claims, Return, TypeOK
  <2>9. free'[s] = free[s] + u
    BY <1>2, <2>1 DEF Return, TypeOK
  <2>10. ASSUME NEW z \in Sites
         PROVE  free'[z] + Cardinality(Claims(z)') = Total[z]
    <3>1. CASE z = s
      BY <3>1, <2>2, <2>6, <2>7, <2>9 DEF Conserved
    <3>2. CASE z # s
      BY <3>2, <2>8 DEF Conserved
    <3>3. QED
      BY <3>1, <3>2
  <2>11. ASSUME NEW g \in Holds, NEW z \in Sites, LiveAt(g, z)'
         PROVE  hold'[g].units <= Total[z]
    <3>1. g # h
      BY <2>3, <2>11 DEF LiveAt
    <3>2. QED
      BY <3>1, <2>3, <2>11 DEF LiveAt, Conserved
  <2>12. QED
    BY <2>10, <2>11 DEF Conserved
<1>3. CASE UNCHANGED vars
  BY <1>3 DEF Conserved, Claims, LiveAt, vars
<1>4. QED
  BY <1>1, <1>2, <1>3 DEF Next

\* At first every unit is free and nobody claims any.
LEMMA ConservedInit ==
  ASSUME LedgerAssumption
  PROVE  Init => Conserved
<1> SUFFICES ASSUME Init PROVE Conserved
  OBVIOUS
<1>1. \A h \in Holds, s \in Sites : ~LiveAt(h, s)
  BY DEF Init, LiveAt
<1>2. ASSUME NEW s \in Sites
      PROVE  free[s] + Cardinality(Claims(s)) = Total[s]
  <2>1. Claims(s) = {}
    BY <1>1 DEF Claims
  <2>2. QED
    BY <2>1, FS_EmptySet, LedgerAssumption DEF LedgerAssumption, Init
<1>3. QED
  BY <1>1, <1>2 DEF Conserved

\* No oversell and no leak in any behaviour of the ledger.
THEOREM LedgerConserves ==
  ASSUME LedgerAssumption
  PROVE  Spec => []Conserved
BY LedgerAssumption, ConservedInit, ConservedStep, LedgerTyping, PTL DEF Spec
=============================================================================
