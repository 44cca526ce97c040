----------------------------- MODULE GuardProofs -----------------------------
(***************************************************************************)
(* The properties of GuardCheck, for every set of identifiers, every       *)
(* content of the entries and every history of the firmware.               *)
(***************************************************************************)
EXTENDS GuardCheck, FirmwareProofs, FunctionTheorems

\* Both snapshots have their type, whatever changes the firmware undergoes.
THEOREM GuardCheckType == Spec => []TypeOK
<1>1. Init => TypeOK
  <2> SUFFICES ASSUME Init PROVE TypeOK
    OBVIOUS
  <2>1. BootOrder \in Var /\ BootNext \in Var /\ BootId \subseteq Var
    BY DEF Var
  <2>2. IsState([v \in Var |-> Absent])
    BY <2>1 DEF IsState, OrderValue, NextValue, EntryValue
  <2> QED
    BY <2>2 DEF Init, TypeOK
<1>2. TypeOK /\ [Next]_vars => TypeOK'
  <2> SUFFICES ASSUME TypeOK, [Next]_vars PROVE TypeOK'
    OBVIOUS
  <2>1. CASE Change
    <3>1. PICK v \in Var :
            \E x \in NewValues(v) : after' = [after EXCEPT ![v] = x]
      BY <2>1 DEF Change
    <3> PICK x \in NewValues(v) : after' = [after EXCEPT ![v] = x]
      BY <3>1
    <3>2. /\ v = BootOrder => x \in OrderValue
          /\ v = BootNext => x \in NextValue
          /\ v \in BootId => x \in EntryValue
      BY ValuesAssumption, NameAssumption DEF NewValues
    <3>3. IsState(after')
      BY <3>2, StateUpdate DEF TypeOK
    <3> QED
      BY <2>1, <3>3 DEF Change, TypeOK
  <2>2. CASE Snapshot
    BY <2>2 DEF Snapshot, TypeOK
  <2>3. CASE UNCHANGED vars
    BY <2>3 DEF vars, TypeOK
  <2> QED
    BY <2>1, <2>2, <2>3 DEF Next
<1> QED
  BY <1>1, <1>2, PTL DEF Spec

\* guard.rs verify_only_boot_next_changed: whatever happened between the two
\* snapshots, it accepts exactly those that differ in nothing but BootNext, and
\* there hold the target.
THEOREM GuardAcceptsOnlyBootNext == Spec => []AcceptsOnlyBootNext
<1>1. TypeOK => AcceptsOnlyBootNext
  BY BootNextVerdict DEF TypeOK, AcceptsOnlyBootNext
<1> QED
  BY <1>1, GuardCheckType, PTL

\* write_default_system with its guard: an obeyed write is reported as a
\* success exactly when the target was listed once.
THEOREM GuardAcceptsObeyedReordering == Spec => []ObeyedReorderingAccepted
<1>1. TypeOK => ObeyedReorderingAccepted
  BY ObeyedReorderingVerdict DEF TypeOK, ObeyedReorderingAccepted
<1> QED
  BY <1>1, GuardCheckType, PTL

-----------------------------------------------------------------------------
(* Two lists are equal once sorted exactly if one is a permutation of the  *)
(* other.  No induction is needed: if every identifier stands as often in  *)
(* both, the bijections between its positions make one between all.        *)

Positions(order, id) == {k \in 1..Len(order) : order[k] = id}

\* The positions of an identifier in a list are finitely many.
LEMMA PositionsFinite ==
  ASSUME NEW order \in Seq(BootId), NEW id
  PROVE  /\ IsFiniteSet(Positions(order, id))
         /\ Multiplicity(id, order) = Cardinality(Positions(order, id))
<1>1. Positions(order, id) \in SUBSET (1..Len(order))
  BY DEF Positions
<1>2. IsFiniteSet(1..Len(order))
  BY FS_Interval
<1> QED
  BY <1>1, <1>2, FS_Subset DEF Positions, Multiplicity

\* The positions of a list are as many as its length.
LEMMA IntervalSize ==
  ASSUME NEW n \in Nat
  PROVE  IsFiniteSet(1..n) /\ Cardinality(1..n) = n
<1>1. IsFiniteSet(1..n) /\ Cardinality(1..n) = IF 1 > n THEN 0 ELSE n - 1 + 1
  BY FS_Interval
<1> QED
  BY <1>1

\* A permutation keeps the number of occurrences of every identifier.
LEMMA PermutationKeepsIds ==
  ASSUME NEW old \in Seq(BootId), NEW new \in Seq(BootId), IsPermutation(old, new)
  PROVE  SameIds(old, new)
<1> DEFINE n == Len(old)
<1>1. n \in Nat /\ Len(new) = n
  BY DEF IsPermutation
<1>2. PICK f \in [1..n -> 1..n] :
        /\ \A k, l \in 1..n : k # l => f[k] # f[l]
        /\ \A k \in 1..n : new[k] = old[f[k]]
  BY <1>1 DEF IsPermutation
<1>3. f \in Injection(1..n, 1..n)
  BY <1>2, Fun_IsInj
<1>4. IsFiniteSet(1..n)
  BY <1>1, IntervalSize
<1>5. \A m \in 1..n : \E k \in 1..n : f[k] = m
  <2>1. f \in Surjection(1..n, 1..n)
    BY <1>3, <1>4, FS_Injection
  <2> QED
    BY <2>1 DEF Surjection
<1> SUFFICES ASSUME NEW id \in BootId
             PROVE  Multiplicity(id, old) = Multiplicity(id, new)
  BY DEF SameIds
<1> DEFINE S == Positions(new, id)
           T == Positions(old, id)
           g == [k \in S |-> f[k]]
<1>6. g \in [S -> T]
  BY <1>1, <1>2 DEF Positions
<1>7. \A k, l \in S : g[k] = g[l] => k = l
  BY <1>1, <1>2 DEF Positions
<1>8. \A m \in T : \E k \in S : g[k] = m
  BY <1>1, <1>2, <1>5 DEF Positions
<1>9. ExistsBijection(S, T)
  BY <1>6, <1>7, <1>8, Fun_IsBij, Fun_ExistsBij
<1> QED
  BY <1>9, PositionsFinite, FS_Bijection

\* Two lists with the same occurrences are permutations of each other.
LEMMA SameIdsArePermuted ==
  ASSUME NEW old \in Seq(BootId), NEW new \in Seq(BootId), SameIds(old, new)
  PROVE  IsPermutation(old, new)
<1> DEFINE S(id) == Positions(new, id)
           T(id) == Positions(old, id)
           B == [id \in BootId |-> CHOOSE g : g \in Bijection(S(id), T(id))]
           f == [k \in 1..Len(new) |-> B[new[k]][k]]
<1>1. /\ \A k \in 1..Len(new) : new[k] \in BootId /\ k \in S(new[k])
      /\ \A m \in 1..Len(old) : old[m] \in BootId /\ m \in T(old[m])
  <2>1. /\ \A k \in 1..Len(new) : new[k] \in BootId
        /\ \A m \in 1..Len(old) : old[m] \in BootId
    OBVIOUS
  <2> QED
    BY <2>1 DEF Positions
<1>2. ASSUME NEW id \in BootId
      PROVE  B[id] \in Bijection(S(id), T(id))
  <2>1. ExistsBijection(S(id), T(id))
    BY PositionsFinite, FS_SameCardinalityBij DEF SameIds
  <2>2. \E g : g \in Bijection(S(id), T(id))
    BY <2>1, Fun_ExistsBij
  <2> QED
    BY <2>2
<1> HIDE DEF B
<1>3. \A id \in BootId :
        /\ B[id] \in [S(id) -> T(id)]
        /\ \A k, l \in S(id) : B[id][k] = B[id][l] => k = l
        /\ \A m \in T(id) : \E k \in S(id) : B[id][k] = m
  <2> SUFFICES ASSUME NEW id \in BootId
               PROVE  /\ B[id] \in [S(id) -> T(id)]
                      /\ \A k, l \in S(id) : B[id][k] = B[id][l] => k = l
                      /\ \A m \in T(id) : \E k \in S(id) : B[id][k] = m
    OBVIOUS
  <2>1. B[id] \in Injection(S(id), T(id)) /\ B[id] \in Surjection(S(id), T(id))
    BY <1>2 DEF Bijection
  <2> QED
    BY <2>1 DEF Injection, Surjection, IsInjective
<1>4. ASSUME NEW k \in 1..Len(new)
      PROVE  f[k] \in 1..Len(old) /\ old[f[k]] = new[k]
  <2>1. f[k] \in T(new[k])
    BY <1>1, <1>3
  <2> QED
    BY <2>1 DEF Positions
<1>5. ASSUME NEW k \in 1..Len(new), NEW l \in 1..Len(new), f[k] = f[l]
      PROVE  k = l
  <2>1. new[k] = new[l]
    BY <1>4, <1>5
  <2>2. B[new[k]][k] = B[new[k]][l]
    BY <1>5, <2>1
  <2> QED
    BY <1>1, <1>3, <2>1, <2>2
<1>6. ASSUME NEW m \in 1..Len(old)
      PROVE  \E k \in 1..Len(new) : f[k] = m
  <2>1. PICK k \in S(old[m]) : B[old[m]][k] = m
    BY <1>1, <1>3
  <2>2. k \in 1..Len(new) /\ new[k] = old[m]
    BY DEF Positions
  <2> QED
    BY <2>1, <2>2
<1>7. f \in [1..Len(new) -> 1..Len(old)]
  BY <1>4
<1> HIDE DEF f
<1>8. f \in Bijection(1..Len(new), 1..Len(old))
  BY <1>5, <1>6, <1>7, Fun_IsBij
<1>9. Len(old) = Len(new)
  <2>1. Len(old) \in Nat /\ Len(new) \in Nat
    OBVIOUS
  <2>2. /\ IsFiniteSet(1..Len(new))
        /\ Cardinality(1..Len(new)) = Len(new)
        /\ Cardinality(1..Len(old)) = Len(old)
    BY <2>1, IntervalSize
  <2>3. ExistsBijection(1..Len(new), 1..Len(old))
    BY <1>8, Fun_ExistsBij
  <2> QED
    BY <2>2, <2>3, FS_Bijection
<1> QED
  BY <1>4, <1>5, <1>7, <1>9 DEF IsPermutation

\* What the guard of the permanent command accepts.
LEMMA BootOrderVerdict ==
  ASSUME NEW s, NEW t, IsState(s), IsState(t), NEW i \in BootId
  PROVE  VerifyOnlyBootOrderReordered(s, t, i) = "Ok"
           <=> /\ HasBootOrder(s) /\ HasBootOrder(t)
               /\ t = [s EXCEPT ![BootOrder] = t[BootOrder]]
               /\ t[BootOrder] # << >> /\ Head(t[BootOrder]) = i
               /\ IsPermutation(s[BootOrder], t[BootOrder])
<1>1. BootOrder \in Var
  BY DEF Var
<1>2. Diff(s, t) \ {BootOrder} = {} <=> t = [s EXCEPT ![BootOrder] = t[BootOrder]]
  BY <1>1, DiffMeansUpdate
<1>3. CASE HasBootOrder(s) /\ HasBootOrder(t)
  <2>1. s[BootOrder] \in Seq(BootId) /\ t[BootOrder] \in Seq(BootId)
    BY <1>3 DEF HasBootOrder, IsState, OrderValue
  <2>2. SameIds(s[BootOrder], t[BootOrder])
          <=> IsPermutation(s[BootOrder], t[BootOrder])
    BY <2>1, PermutationKeepsIds, SameIdsArePermuted
  <2>3. (Len(t[BootOrder]) > 0 /\ t[BootOrder][1] = i)
          <=> (t[BootOrder] # << >> /\ Head(t[BootOrder]) = i)
    BY <2>1
  <2> QED
    BY <1>2, <1>3, <2>2, <2>3 DEF VerifyOnlyBootOrderReordered
<1>4. CASE ~(HasBootOrder(s) /\ HasBootOrder(t))
  BY <1>4 DEF VerifyOnlyBootOrderReordered
<1> QED
  BY <1>3, <1>4

\* guard.rs verify_only_boot_order_reordered: comparing the lists once sorted
\* accepts exactly the reorderings that put the target first, lists with
\* repeated identifiers included.
THEOREM GuardAcceptsOnlyReordering == Spec => []AcceptsOnlyReordering
<1>1. TypeOK => AcceptsOnlyReordering
  BY BootOrderVerdict DEF TypeOK, AcceptsOnlyReordering
<1> QED
  BY <1>1, GuardCheckType, PTL

=============================================================================
