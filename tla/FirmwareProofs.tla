--------------------------- MODULE FirmwareProofs ---------------------------
(***************************************************************************)
(* First, what the list written by write_default_system is: a list of      *)
(* Boot#### identifiers that starts with the target, in which every other  *)
(* identifier stands as often as before and in the same order.  The        *)
(* elements kept by the filter are numbered by their rank, and the rank is *)
(* a bijection: no induction is needed.  Then, what the two verdicts of    *)
(* guard.rs mean, and that the firmware stays one.                         *)
(***************************************************************************)
EXTENDS Firmware, Guard, FiniteSetTheorems, TLAPS

\* The number of elements of S up to k: the rank of k if k is in S.
Rank(S, k) == Cardinality({l \in S : l <= k})

\* The rank is a natural number, and counts no more than S has.
LEMMA RankBounds ==
  ASSUME NEW S \in SUBSET Nat, IsFiniteSet(S), NEW k \in S
  PROVE  Rank(S, k) \in 1..Cardinality(S)
<1> DEFINE T == {l \in S : l <= k}
<1>1. IsFiniteSet(T) /\ Cardinality(T) <= Cardinality(S)
  <2>1. T \in SUBSET S
    OBVIOUS
  <2> QED
    BY <2>1, FS_Subset
<1>2. Cardinality(T) # 0
  <2>1. k \in T
    OBVIOUS
  <2> QED
    BY <2>1, <1>1, FS_EmptySet
<1>3. Cardinality(T) \in Nat /\ Cardinality(S) \in Nat
  BY <1>1, FS_CardinalityType
<1> QED
  BY <1>1, <1>2, <1>3 DEF Rank

\* The rank is strictly increasing.
LEMMA RankIncreases ==
  ASSUME NEW S \in SUBSET Nat, IsFiniteSet(S), NEW k \in S, NEW m \in S, k < m
  PROVE  Rank(S, k) < Rank(S, m)
<1> DEFINE T == {l \in S : l <= k}
           U == {l \in S : l <= m}
<1>1. IsFiniteSet(U)
  <2>1. U \in SUBSET S
    OBVIOUS
  <2> QED
    BY <2>1, FS_Subset
<1>2. T \in SUBSET U
  <2>1. k \in Nat /\ m \in Nat
    OBVIOUS
  <2>2. \A l \in S : l \in Nat /\ (l <= k => l <= m)
    BY <2>1
  <2> QED
    BY <2>2
<1>3. T # U
  <2>1. m \in U /\ m \notin T
    OBVIOUS
  <2> QED
    BY <2>1
<1>4. IsFiniteSet(T) /\ Cardinality(T) <= Cardinality(U)
        /\ (Cardinality(U) = Cardinality(T) => U = T)
  BY <1>1, <1>2, FS_Subset
<1>5. Cardinality(T) \in Nat /\ Cardinality(U) \in Nat
  BY <1>1, <1>4, FS_CardinalityType
<1> HIDE DEF T, U
<1>6. Cardinality(T) < Cardinality(U)
  BY <1>3, <1>4, <1>5
<1> USE DEF T, U
<1> QED
  BY <1>6 DEF Rank

\* Every number up to the size of S is the rank of exactly one element.
LEMMA RankIsBijection ==
  ASSUME NEW S \in SUBSET Nat, IsFiniteSet(S)
  PROVE  [k \in S |-> Rank(S, k)] \in Bijection(S, 1..Cardinality(S))
<1> DEFINE f == [k \in S |-> Rank(S, k)]
           n == Cardinality(S)
<1>1. n \in Nat
  BY FS_CardinalityType
<1>2. IsFiniteSet(1..n) /\ Cardinality(1..n) = n
  BY <1>1, FS_Interval
<1>3. f \in [S -> 1..n]
  BY RankBounds
<1>4. \A k, m \in S : f[k] = f[m] => k = m
  <2> SUFFICES ASSUME NEW k \in S, NEW m \in S, k # m
               PROVE  f[k] # f[m]
    OBVIOUS
  <2>1. k \in Nat /\ m \in Nat /\ f[k] \in Nat /\ f[m] \in Nat
    BY <1>1, <1>3
  <2>2. CASE k < m
    BY <2>1, <2>2, RankIncreases
  <2>3. CASE m < k
    BY <2>1, <2>3, RankIncreases
  <2> QED
    BY <2>1, <2>2, <2>3
<1> HIDE DEF f
<1>5. f \in Injection(S, 1..n)
  BY <1>3, <1>4 DEF Injection, IsInjective
<1>6. f \in Surjection(S, 1..n)
  BY <1>2, <1>5, FS_Injection
<1>7. f \in Bijection(S, 1..n)
  BY <1>5, <1>6 DEF Bijection
<1> QED
  BY <1>7 DEF f

-----------------------------------------------------------------------------
\* The positions kept by the filter are finitely many.
LEMMA OthersFinite ==
  ASSUME NEW order \in Seq(BootId), NEW id
  PROVE  /\ Others(order, id) \in SUBSET Nat
         /\ IsFiniteSet(Others(order, id))
         /\ Cardinality(Others(order, id)) \in Nat
<1>1. Others(order, id) \in SUBSET (1..Len(order))
  BY DEF Others
<1>2. IsFiniteSet(1..Len(order))
  BY FS_Interval
<1>3. IsFiniteSet(Others(order, id))
  BY <1>1, <1>2, FS_Subset
<1> QED
  BY <1>1, <1>3, FS_CardinalityType

\* The filter keeps the element at position k, and puts it at the rank of k.
LEMMA WithoutKeeps ==
  ASSUME NEW order \in Seq(BootId), NEW id, NEW k \in Others(order, id)
  PROVE  /\ Rank(Others(order, id), k) \in 1..Cardinality(Others(order, id))
         /\ Without(order, id)[Rank(Others(order, id), k)] = order[k]
<1> DEFINE S == Others(order, id)
           j == Rank(S, k)
           m == CHOOSE x \in S : Rank(S, x) = j
<1>1. S \in SUBSET Nat /\ IsFiniteSet(S)
  BY OthersFinite
<1>2. j \in 1..Cardinality(S)
  BY <1>1, RankBounds
<1>3. m \in S /\ Rank(S, m) = j
  OBVIOUS
<1>4. m = k
  <2>1. [x \in S |-> Rank(S, x)] \in Injection(S, 1..Cardinality(S))
    BY <1>1, RankIsBijection DEF Bijection
  <2> QED
    BY <1>3, <2>1 DEF Injection, IsInjective
<1>5. Without(order, id)[j] = order[m]
  BY <1>2 DEF Without, Rank
<1> QED
  BY <1>2, <1>4, <1>5

\* Every element of the filtered list is one of those.
LEMMA WithoutComesFrom ==
  ASSUME NEW order \in Seq(BootId), NEW id,
         NEW j \in 1..Cardinality(Others(order, id))
  PROVE  \E k \in Others(order, id) :
           /\ Rank(Others(order, id), k) = j
           /\ Without(order, id)[j] = order[k]
<1> DEFINE S == Others(order, id)
<1>1. S \in SUBSET Nat /\ IsFiniteSet(S)
  BY OthersFinite
<1>2. [x \in S |-> Rank(S, x)] \in Surjection(S, 1..Cardinality(S))
  BY <1>1, RankIsBijection DEF Bijection
<1>3. PICK k \in S : Rank(S, k) = j
  BY <1>2 DEF Surjection
<1> QED
  BY <1>3, WithoutKeeps

\* The filtered list is a list of identifiers other than id.
LEMMA WithoutType ==
  ASSUME NEW order \in Seq(BootId), NEW id
  PROVE  /\ Without(order, id) \in Seq(BootId)
         /\ Len(Without(order, id)) = Cardinality(Others(order, id))
         /\ \A j \in 1..Len(Without(order, id)) : Without(order, id)[j] # id
<1> DEFINE n == Cardinality(Others(order, id))
           w == Without(order, id)
<1>1. n \in Nat
  BY OthersFinite
<1>2. \A j \in 1..n : w[j] \in BootId /\ w[j] # id
  <2> TAKE j \in 1..n
  <2>1. PICK k \in Others(order, id) : w[j] = order[k]
    BY WithoutComesFrom
  <2>2. k \in 1..Len(order) /\ order[k] # id
    BY <2>1 DEF Others
  <2> QED
    BY <2>1, <2>2
<1>3. w = [j \in 1..n |-> w[j]]
  BY DEF Without
<1> HIDE DEF w, n
<1>4. w \in Seq(BootId) /\ Len(w) = n
  BY <1>1, <1>2, <1>3
<1> QED
  BY <1>2, <1>4 DEF w, n

\* linux_firmware.rs write_default_system: what it writes is a list of Boot####
\* identifiers whose first element is the target.
THEOREM MoveToFrontType ==
  ASSUME NEW order \in Seq(BootId), NEW id \in BootId
  PROVE  /\ MoveToFront(order, id) \in Seq(BootId)
         /\ Len(MoveToFront(order, id)) = Cardinality(Others(order, id)) + 1
         /\ MoveToFront(order, id)[1] = id
         /\ \A j \in 1..Cardinality(Others(order, id)) :
              MoveToFront(order, id)[j + 1] = Without(order, id)[j]
<1> DEFINE w == Without(order, id)
           n == Cardinality(Others(order, id))
<1>1. w \in Seq(BootId) /\ Len(w) = n /\ n \in Nat
  BY WithoutType, OthersFinite
<1> HIDE DEF w, n
<1>2. /\ <<id>> \o w \in Seq(BootId)
      /\ Len(<<id>> \o w) = n + 1
      /\ (<<id>> \o w)[1] = id
      /\ \A j \in 1..n : (<<id>> \o w)[j + 1] = w[j]
  BY <1>1
<1> QED
  BY <1>2 DEF w, n, MoveToFront

-----------------------------------------------------------------------------
\* linux_firmware.rs write_default_system: the list it writes holds every
\* identifier other than the target as often as the list it read.
THEOREM MoveToFrontKeepsOthers ==
  ASSUME NEW order \in Seq(BootId), NEW id \in BootId, NEW i \in BootId, i # id
  PROVE  Multiplicity(i, MoveToFront(order, id)) = Multiplicity(i, order)
<1> DEFINE S == Others(order, id)
           n == Cardinality(S)
           M == MoveToFront(order, id)
           w == Without(order, id)
           A == {k \in 1..Len(order) : order[k] = i}
           B == {j \in 1..Len(M) : M[j] = i}
           f == [k \in A |-> Rank(S, k) + 1]
<1>1. S \in SUBSET Nat /\ IsFiniteSet(S) /\ n \in Nat
  BY OthersFinite
<1>2. /\ Len(M) = n + 1
      /\ M[1] = id
      /\ \A j \in 1..n : M[j + 1] = w[j]
  BY MoveToFrontType
<1>3. A \in SUBSET S /\ IsFiniteSet(A)
  <2>1. A \in SUBSET S
    BY DEF Others
  <2> QED
    BY <1>1, <2>1, FS_Subset
<1>4. \A k \in S : Rank(S, k) \in 1..n /\ w[Rank(S, k)] = order[k]
  BY WithoutKeeps
<1>5. \A j \in 1..n : \E k \in S : Rank(S, k) = j /\ w[j] = order[k]
  BY WithoutComesFrom
<1>6. \A k, m \in S : Rank(S, k) = Rank(S, m) => k = m
  <2>1. [k \in S |-> Rank(S, k)] \in Injection(S, 1..n)
    BY <1>1, RankIsBijection DEF Bijection
  <2> QED
    BY <2>1 DEF Injection, IsInjective
<1>7. f \in [A -> B]
  <2> SUFFICES ASSUME NEW k \in A
               PROVE  Rank(S, k) + 1 \in B
    OBVIOUS
  <2>1. k \in S /\ order[k] = i
    BY <1>3
  <2>2. Rank(S, k) \in 1..n /\ w[Rank(S, k)] = i
    BY <1>4, <2>1
  <2> HIDE DEF S, n, w, M
  <2>3. Rank(S, k) + 1 \in 1..Len(M) /\ M[Rank(S, k) + 1] = i
    BY <1>1, <1>2, <2>2
  <2> QED
    BY <2>3
<1>8. \A k, m \in A : f[k] = f[m] => k = m
  <2> TAKE k, m \in A
  <2>1. k \in S /\ m \in S
    BY <1>3
  <2>2. Rank(S, k) \in 1..n /\ Rank(S, m) \in 1..n
    BY <1>4, <2>1
  <2>3. f[k] = Rank(S, k) + 1 /\ f[m] = Rank(S, m) + 1
    OBVIOUS
  <2> HIDE DEF f, S, n
  <2>4. f[k] = f[m] => Rank(S, k) = Rank(S, m)
    BY <1>1, <2>2, <2>3
  <2> QED
    BY <1>6, <2>1, <2>4
<1>9. \A j \in B : \E k \in A : f[k] = j
  <2> TAKE j \in B
  <2>1. j \in 1..(n + 1) /\ M[j] = i /\ j # 1
    BY <1>2
  <2>2. j - 1 \in 1..n
    BY <1>1, <2>1
  <2>3. w[j - 1] = i
    BY <1>2, <2>1, <2>2
  <2>4. PICK k \in S : Rank(S, k) = j - 1 /\ order[k] = i
    BY <1>5, <2>2, <2>3
  <2>5. k \in A
    BY <2>4 DEF Others
  <2>6. f[k] = j
    <3>1. f[k] = Rank(S, k) + 1
      BY <2>5
    <3> HIDE DEF f, S
    <3> QED
      BY <2>1, <2>4, <3>1, <1>1
  <2> QED
    BY <2>5, <2>6
<1> HIDE DEF f, A, B
<1>10. f \in Bijection(A, B)
  BY <1>7, <1>8, <1>9 DEF Bijection, Injection, Surjection, IsInjective
<1>11. Cardinality(B) = Cardinality(A)
  BY <1>3, <1>10, FS_Bijection DEF ExistsBijection
<1> QED
  BY <1>11 DEF A, B, Multiplicity

\* linux_firmware.rs write_default_system: the target stands exactly once in
\* the list it writes, however often it stood in the list it read.
THEOREM MoveToFrontListsTargetOnce ==
  ASSUME NEW order \in Seq(BootId), NEW id \in BootId
  PROVE  Multiplicity(id, MoveToFront(order, id)) = 1
<1> DEFINE n == Cardinality(Others(order, id))
           M == MoveToFront(order, id)
           w == Without(order, id)
<1>1. n \in Nat
  BY OthersFinite
<1>2. /\ Len(M) = n + 1
      /\ M[1] = id
      /\ \A j \in 1..n : M[j + 1] = w[j]
  BY MoveToFrontType
<1>3. \A j \in 1..n : w[j] # id
  BY WithoutType
<1> HIDE DEF n, M, w
<1>4. \A j \in 1..Len(M) : M[j] = id <=> j = 1
  <2> TAKE j \in 1..Len(M)
  <2>1. CASE j = 1
    BY <1>2, <2>1
  <2>2. CASE j # 1
    <3>1. j - 1 \in 1..n
      BY <1>1, <1>2, <2>2
    <3>2. M[j] = w[j - 1]
      BY <1>1, <1>2, <2>2, <3>1
    <3> QED
      BY <1>3, <2>2, <3>1, <3>2
  <2> QED
    BY <2>1, <2>2
<1>5. {j \in 1..Len(M) : M[j] = id} = {1}
  BY <1>1, <1>2, <1>4
<1> QED
  BY <1>5, FS_Singleton DEF Multiplicity, M

\* linux_firmware.rs write_default_system: two elements of the written list
\* other than the first stand in the order they had in the list it read.
THEOREM MoveToFrontKeepsOrder ==
  ASSUME NEW order \in Seq(BootId), NEW id \in BootId,
         NEW k \in 2..Len(MoveToFront(order, id)),
         NEW l \in 2..Len(MoveToFront(order, id)), k < l
  PROVE  \E m, n \in 1..Len(order) :
           /\ m < n
           /\ order[m] = MoveToFront(order, id)[k]
           /\ order[n] = MoveToFront(order, id)[l]
<1> DEFINE S == Others(order, id)
           c == Cardinality(S)
           M == MoveToFront(order, id)
           w == Without(order, id)
<1>1. S \in SUBSET Nat /\ IsFiniteSet(S) /\ c \in Nat
  BY OthersFinite
<1>2. /\ Len(M) = c + 1
      /\ \A j \in 1..c : M[j + 1] = w[j]
  BY MoveToFrontType
<1>3. \A j \in 1..c : \E m \in S : Rank(S, m) = j /\ w[j] = order[m]
  BY WithoutComesFrom
<1>4. k - 1 \in 1..c /\ l - 1 \in 1..c
  <2> HIDE DEF c, M
  <2> QED
    BY <1>1, <1>2 DEF M
<1>5. M[k] = w[k - 1] /\ M[l] = w[l - 1]
  <2>1. M[(k - 1) + 1] = w[k - 1] /\ M[(l - 1) + 1] = w[l - 1]
    BY <1>2, <1>4
  <2>2. (k - 1) + 1 = k /\ (l - 1) + 1 = l
    OBVIOUS
  <2> QED
    BY <2>1, <2>2
<1>6. PICK m \in S : Rank(S, m) = k - 1 /\ w[k - 1] = order[m]
  BY <1>3, <1>4
<1>7. PICK n \in S : Rank(S, n) = l - 1 /\ w[l - 1] = order[n]
  BY <1>3, <1>4
<1>8. m < n
  <2>1. m \in Nat /\ n \in Nat
    BY <1>1
  <2>2. ~(n < m)
    <3> SUFFICES ASSUME n < m PROVE FALSE
      OBVIOUS
    <3>1. Rank(S, n) < Rank(S, m)
      BY <1>1, RankIncreases
    <3> HIDE DEF S
    <3> QED
      BY <1>6, <1>7, <3>1
  <2>3. m # n
    <3> HIDE DEF S
    <3> QED
      BY <1>6, <1>7
  <2> QED
    BY <2>1, <2>2, <2>3
<1>9. m \in 1..Len(order) /\ n \in 1..Len(order)
  BY DEF Others
<1> QED
  BY <1>5, <1>6, <1>7, <1>8, <1>9

-----------------------------------------------------------------------------
\* Writing a value of the type of a variable yields a snapshot.
LEMMA StateUpdate ==
  ASSUME NEW s, IsState(s), NEW v \in Var, NEW x,
         v = BootOrder => x \in OrderValue,
         v = BootNext => x \in NextValue,
         v \in BootId => x \in EntryValue
  PROVE  IsState([s EXCEPT ![v] = x])
<1> DEFINE t == [s EXCEPT ![v] = x]
<1>1. /\ s = [u \in Var |-> s[u]]
      /\ s[BootOrder] \in OrderValue
      /\ s[BootNext] \in NextValue
      /\ \A i \in BootId : s[i] \in EntryValue
  BY DEF IsState
<1>2. t = [u \in Var |-> IF u = v THEN x ELSE s[u]]
  BY <1>1
<1>3. BootOrder \in Var /\ BootNext \in Var /\ BootId \subseteq Var
  BY DEF Var
<1> HIDE DEF t
<1>4. t = [u \in Var |-> t[u]]
  BY <1>2
<1>5. /\ t[BootOrder] \in OrderValue
      /\ t[BootNext] \in NextValue
      /\ \A i \in BootId : t[i] \in EntryValue
  BY <1>1, <1>2, <1>3, NameAssumption
<1>6. IsState(t)
  BY <1>4, <1>5 DEF IsState
<1> QED
  BY <1>6 DEF t

\* Two snapshots are the same up to variable v iff only v may be in the diff.
LEMMA DiffMeansUpdate ==
  ASSUME NEW s, NEW t, IsState(s), IsState(t), NEW v \in Var
  PROVE  Diff(s, t) \ {v} = {} <=> t = [s EXCEPT ![v] = t[v]]
<1>1. s = [u \in Var |-> s[u]] /\ t = [u \in Var |-> t[u]]
  BY DEF IsState
<1>2. [s EXCEPT ![v] = t[v]] = [u \in Var |-> IF u = v THEN t[v] ELSE s[u]]
  BY <1>1
<1>3. ASSUME Diff(s, t) \ {v} = {}
      PROVE  t = [s EXCEPT ![v] = t[v]]
  <2>1. \A u \in Var : t[u] = IF u = v THEN t[v] ELSE s[u]
    BY <1>3 DEF Diff
  <2> QED
    BY <1>1, <1>2, <2>1
<1>4. ASSUME t = [s EXCEPT ![v] = t[v]]
      PROVE  Diff(s, t) \ {v} = {}
  <2>1. \A u \in Var : t[u] = IF u = v THEN t[v] ELSE s[u]
    BY <1>2, <1>4
  <2> QED
    BY <2>1 DEF Diff
<1> QED
  BY <1>3, <1>4

\* guard.rs verify_only_boot_next_changed, as a pure function: it accepts the
\* second snapshot iff it is the first with BootNext set to the target.
LEMMA BootNextVerdict ==
  ASSUME NEW s, NEW t, IsState(s), IsState(t), NEW i \in BootId
  PROVE  VerifyOnlyBootNextChanged(s, t, i) = "Ok"
           <=> t = [s EXCEPT ![BootNext] = i]
<1>1. BootNext \in Var /\ BootOrder \in Var /\ BootOrder # BootNext
  BY NameAssumption DEF Var
<1>2. Diff(s, t) \ {BootNext} = {} <=> t = [s EXCEPT ![BootNext] = t[BootNext]]
  BY <1>1, DiffMeansUpdate
<1>3. Diff(s, t) \ {BootNext} = {} => s[BootOrder] = t[BootOrder]
  BY <1>1 DEF Diff
<1>4. i # Absent /\ i \notin Garbage
  BY AbsentAssumption, GarbageAssumption
<1>5. VerifyOnlyBootNextChanged(s, t, i) = "Ok"
        <=> Diff(s, t) \ {BootNext} = {} /\ t[BootNext] = i
  BY <1>3, <1>4 DEF VerifyOnlyBootNextChanged, BootOrderUnchanged
<1>6. t = [s EXCEPT ![BootNext] = i] => t[BootNext] = i
  <2>1. s = [u \in Var |-> s[u]]
    BY DEF IsState
  <2> QED
    BY <1>1, <2>1
<1> QED
  BY <1>2, <1>5, <1>6

\* The list write_default_system writes, if the firmware obeys, is accepted by
\* verify_only_boot_order_reordered iff the target was listed exactly once.
LEMMA ObeyedReorderingVerdict ==
  ASSUME NEW s, IsState(s), NEW i \in BootId, HasBootOrder(s)
  PROVE  VerifyOnlyBootOrderReordered(
           s, [s EXCEPT ![BootOrder] = MoveToFront(s[BootOrder], i)], i) = "Ok"
           <=> Multiplicity(i, s[BootOrder]) = 1
<1> DEFINE M == MoveToFront(s[BootOrder], i)
           t == [s EXCEPT ![BootOrder] = M]
<1>1. s = [u \in Var |-> s[u]] /\ BootOrder \in Var
  BY DEF IsState, Var
<1>2. s[BootOrder] \in Seq(BootId)
  BY DEF IsState, OrderValue, HasBootOrder
<1>3. /\ M \in Seq(BootId)
      /\ Len(M) = Cardinality(Others(s[BootOrder], i)) + 1
      /\ M[1] = i
  BY <1>2, MoveToFrontType
<1>4. \A j \in BootId \ {i} :
        Multiplicity(j, M) = Multiplicity(j, s[BootOrder])
  BY <1>2, MoveToFrontKeepsOthers
<1>5. Multiplicity(i, M) = 1
  BY <1>2, MoveToFrontListsTargetOnce
<1>6. Cardinality(Others(s[BootOrder], i)) \in Nat
  BY <1>2, OthersFinite
<1> HIDE DEF M
<1>7. t[BootOrder] = M /\ \A u \in Var \ {BootOrder} : t[u] = s[u]
  BY <1>1
<1>8. HasBootOrder(t)
  BY <1>3, <1>7, GarbageAssumption, AbsentAssumption DEF HasBootOrder
<1>9. Len(M) > 0
  BY <1>3, <1>6
<1>10. SameIds(s[BootOrder], M) <=> Multiplicity(i, s[BootOrder]) = 1
  BY <1>4, <1>5 DEF SameIds
<1>11. Diff(s, t) \ {BootOrder} = {}
  BY <1>7 DEF Diff
<1> HIDE DEF t
<1>12. VerifyOnlyBootOrderReordered(s, t, i) = "Ok"
         <=> SameIds(s[BootOrder], M)
  BY <1>3, <1>7, <1>8, <1>9, <1>11 DEF VerifyOnlyBootOrderReordered
<1> QED
  BY <1>10, <1>12 DEF t, M

\* The names of the two global variables and of the entries are variables.
LEMMA NamesInVar ==
  /\ BootOrder \in Var /\ BootNext \in Var /\ BootId \subseteq Var
  /\ BootOrder # BootNext /\ BootOrder \notin BootId /\ BootNext \notin BootId
BY NameAssumption DEF Var

\* Whatever the firmware makes of a write, it stays a firmware.
LEMMA EffectsAreStates ==
  ASSUME NEW s, IsState(s), NEW v, NEW x, NEW b,
         \/ v = BootNext /\ x \in BootId
         \/ v = BootOrder /\ x \in Seq(BootId),
         NEW t \in FirmwareEffects(s, v, x, b)
  PROVE  IsState(t)
<1> DEFINE written == [s EXCEPT ![v] = x]
<1>1. v \in Var /\ v \notin BootId /\ x # Absent
  BY NamesInVar, AbsentAssumption
<1>2. IsState(written)
  <2>1. /\ v = BootOrder => x \in OrderValue
        /\ v = BootNext => x \in NextValue
    BY NamesInVar DEF OrderValue, NextValue
  <2> QED
    BY <1>1, <2>1, StateUpdate
<1>3. \A i \in BootId : IsState([s EXCEPT ![BootNext] = i])
  <2> TAKE i \in BootId
  <2>1. i \in NextValue
    BY DEF NextValue
  <2> QED
    BY <2>1, NamesInVar, StateUpdate
<1>4. \A i \in BootId : IsState([written EXCEPT ![i] = Absent])
  <2> TAKE i \in BootId
  <2>1. Absent \in EntryValue
    BY DEF EntryValue
  <2> HIDE DEF written
  <2> QED
    BY <1>2, <2>1, NamesInVar, StateUpdate
<1>5. ASSUME v = BootNext, HasBootOrder(s)
      PROVE  IsState([written EXCEPT ![BootOrder] = MoveToFront(s[BootOrder], x)])
  <2>1. s[BootOrder] \in Seq(BootId)
    BY <1>5 DEF IsState, OrderValue, HasBootOrder
  <2>2. x \in BootId
    BY <1>5, NamesInVar
  <2>3. MoveToFront(s[BootOrder], x) \in OrderValue
    BY <2>1, <2>2, MoveToFrontType DEF OrderValue
  <2> HIDE DEF written
  <2> QED
    BY <1>2, <2>3, NamesInVar, StateUpdate
<1> HIDE DEF written
<1>6. \/ t = written
      \/ t = s
      \/ \E i \in BootId : t = [s EXCEPT ![BootNext] = i]
      \/ /\ v = BootNext /\ HasBootOrder(s)
         /\ t = [written EXCEPT ![BootOrder] = MoveToFront(s[BootOrder], x)]
      \/ \E i \in BootId : t = [written EXCEPT ![i] = Absent]
  BY DEF FirmwareEffects, written
<1> QED
  BY <1>2, <1>3, <1>4, <1>5, <1>6

=============================================================================
