-------------------------- MODULE WorkerPoolProofs --------------------------
(***************************************************************************)
(* Proofs about the accept thread and the workers, for any number of       *)
(* workers, slots and connections.                                         *)
(***************************************************************************)
EXTENDS WorkerPool, FiniteSetTheorems, TLAPS

-----------------------------------------------------------------------------
(* Numbers, and lists of sets of them.  Induction is by the least counterexample. *)

\* Every nonempty set of naturals has a least element.
LEMMA LeastNatural ==
    ASSUME NEW T \in SUBSET Nat, T # {}
    PROVE  \E x \in T : \A y \in T : x <= y
<1>1. \E x \in T : \A y \in T : ~(<<y, x>> \in OpToRel(<, Nat))
  BY WFMin, NatLessThanWellFounded
<1>2. PICK x \in T : \A y \in T : ~(<<y, x>> \in OpToRel(<, Nat))
  BY <1>1
<1>3. \A y \in T : y < x => <<y, x>> \in OpToRel(<, Nat)
  BY DEF OpToRel
<1>4. \A y \in T : ~(y < x)
  BY <1>2, <1>3, Zenon
<1> QED BY <1>4

\* s lists the members of A in ascending order.
Lists(s, A) ==
    /\ s \in [1 .. Cardinality(A) -> A]
    /\ \A i, j \in 1 .. Cardinality(A) : i < j => s[i] < s[j]

\* A list of all but the least element is completed by putting that in front.
LEMMA ListWithLeast ==
    ASSUME NEW A \in SUBSET Nat, IsFiniteSet(A), NEW m \in A, \A y \in A : m <= y,
           NEW t, Lists(t, A \ {m})
    PROVE  \E s : Lists(s, A)
<1> DEFINE n == Cardinality(A)
           s == [i \in 1 .. n |-> IF i = 1 THEN m ELSE t[i - 1]]
<1>1. n \in Nat /\ n # 0 /\ Cardinality(A \ {m}) = n - 1
  BY FS_CardinalityType, FS_RemoveElement, FS_EmptySet
<1>2. t \in [1 .. n - 1 -> A \ {m}]
  BY <1>1 DEF Lists
<1>3. \A i, j \in 1 .. n - 1 : i < j => t[i] < t[j]
  BY <1>1 DEF Lists
<1> HIDE DEF n
<1>4. s \in [1 .. n -> A]
  BY <1>1, <1>2
<1>5. ASSUME NEW i \in 1 .. n, NEW j \in 1 .. n, i < j PROVE s[i] < s[j]
  <2>1. j - 1 \in 1 .. n - 1 /\ s[j] = t[j - 1] /\ t[j - 1] \in A \ {m}
    BY <1>1, <1>2, <1>5
  <2>2. CASE i = 1
    <3>1. s[i] = m
      BY <2>2, <1>1
    <3>2. m <= t[j - 1] /\ m # t[j - 1] /\ m \in Nat /\ t[j - 1] \in Nat
      BY <2>1
    <3> QED BY <3>1, <3>2, <2>1
  <2>3. CASE i # 1
    <3>1. i - 1 \in 1 .. n - 1 /\ s[i] = t[i - 1] /\ i - 1 < j - 1
      BY <2>3, <1>1, <1>5
    <3> QED BY <3>1, <2>1, <1>3
  <2> QED BY <2>2, <2>3
<1>6. Lists(s, A)
  BY <1>4, <1>5 DEF Lists, n
<1> QED BY <1>6

\* Every finite set of naturals can be listed in ascending order.
LEMMA ListExists ==
    ASSUME NEW S \in SUBSET Nat, IsFiniteSet(S)
    PROVE  \E s : Lists(s, S)
<1> DEFINE Bad == {A \in FiniteSubsetsOf(Nat) : ~\E s : Lists(s, A)}
<1>1. SUFFICES ASSUME Bad # {} PROVE FALSE
  BY DEF FiniteSubsetsOf
<1>2. \E A \in Bad : \A B \in Bad : ~(<<B, A>> \in StrictSubsetOrdering(Nat))
  <2>1. Bad \subseteq FiniteSubsetsOf(Nat)
    OBVIOUS
  <2> HIDE DEF Bad
  <2> QED BY <1>1, <2>1, WFMin, FS_StrictSubsetOrderingWellFounded
<1>3. PICK A \in Bad : \A B \in Bad : ~(<<B, A>> \in StrictSubsetOrdering(Nat))
  BY <1>2
<1>4. IsFiniteSet(A) /\ A \in SUBSET Nat /\ ~\E s : Lists(s, A)
  BY DEF FiniteSubsetsOf
<1>5. A # {}
  <2>1. Cardinality({}) = 0
    BY FS_EmptySet
  <2>2. Lists([i \in 1 .. 0 |-> 0], {})
    BY <2>1 DEF Lists
  <2> QED BY <2>2, <1>4
<1>6. PICK m \in A : \A y \in A : m <= y
  BY <1>4, <1>5, LeastNatural
<1>7. \E t : Lists(t, A \ {m})
  <2>1. A \ {m} \in FiniteSubsetsOf(Nat)
    BY <1>4, FS_RemoveElement DEF FiniteSubsetsOf
  <2>2. <<A \ {m}, A>> \in StrictSubsetOrdering(Nat)
    BY <1>4, <1>6 DEF StrictSubsetOrdering
  <2> QED BY <2>1, <2>2, <1>3
<1> QED BY <1>4, <1>6, <1>7, ListWithLeast

\* Such a list has as many places as the set has members, and names each of them.
LEMMA ListCovers ==
    ASSUME NEW A \in SUBSET Nat, IsFiniteSet(A), NEW s, Lists(s, A)
    PROVE  /\ s \in Seq(A) /\ Len(s) = Cardinality(A)
           /\ {s[i] : i \in 1 .. Len(s)} = A
<1> DEFINE n == Cardinality(A)
<1>1. n \in Nat
  BY FS_CardinalityType
<1>2. s \in [1 .. n -> A] /\ s \in Seq(A) /\ Len(s) = n
  BY <1>1 DEF Lists
<1>6. \A i, j \in 1 .. n : i < j => s[i] < s[j]
  BY DEF Lists
<1> HIDE DEF n
<1>3. s \in Injection(1 .. n, A)
  <2>1. ASSUME NEW i \in 1 .. n, NEW j \in 1 .. n, s[i] = s[j] PROVE i = j
    <3>1. s[i] \in A
      BY <1>1, <1>2
    <3>2. s[i] \in Nat
      BY <3>1
    <3>3. ~(s[i] < s[j]) /\ ~(s[j] < s[i])
      BY <2>1, <3>2
    <3>4. ~(i < j) /\ ~(j < i)
      BY <3>3, <1>6
    <3> QED BY <3>4, <1>1
  <2> QED BY <2>1, <1>2 DEF Injection, IsInjective
<1>4. IsFiniteSet(1 .. n) /\ Cardinality(1 .. n) = n
  BY <1>1, FS_Interval
<1>5. s \in Surjection(1 .. n, A)
  BY <1>3, <1>4, FS_Injection DEF n
<1> QED BY <1>2, <1>5 DEF Surjection, n

-----------------------------------------------------------------------------
(* Operators of the model. *)

\* The slots pushed back by slot_close are those closed, each once.
LEMMA AscendingIs ==
    ASSUME NEW A \in SUBSET Slots
    PROVE  /\ IsFiniteSet(A) /\ Cardinality(A) \in Nat
           /\ Ascending(A) \in Seq(A)
           /\ Len(Ascending(A)) = Cardinality(A)
           /\ ToSet(Ascending(A)) = A
<1>1. A \in SUBSET Nat /\ IsFiniteSet(A)
  <2>1. IsFiniteSet(Slots) /\ Slots \subseteq Nat
    BY FS_Interval, SizesAssumption DEF Slots
  <2> QED BY <2>1, FS_Subset
<1>2. Cardinality(A) \in Nat
  BY <1>1, FS_CardinalityType
<1>3. Lists(Ascending(A), A)
  <2>1. \E s \in [1 .. Cardinality(A) -> A] :
           \A i, j \in 1 .. Cardinality(A) : i < j => s[i] < s[j]
    BY <1>1, ListExists DEF Lists
  <2> QED BY <2>1 DEF Ascending, Lists
<1>4. /\ Ascending(A) \in Seq(A) /\ Len(Ascending(A)) = Cardinality(A)
      /\ {Ascending(A)[i] : i \in 1 .. Len(Ascending(A))} = A
  BY <1>1, <1>3, ListCovers
<1>5. ToSet(Ascending(A)) = A
  <2>1. DOMAIN Ascending(A) = 1 .. Len(Ascending(A))
    BY <1>4
  <2> QED BY <2>1, <1>4 DEF ToSet
<1> QED BY <1>1, <1>2, <1>4, <1>5

\* What concatenation does to the members of a sequence.
LEMMA ToSetConcat ==
    ASSUME NEW S, NEW s \in Seq(S), NEW t \in Seq(S)
    PROVE  ToSet(s \o t) = ToSet(s) \cup ToSet(t)
<1>1. s \o t \in Seq(S) /\ Len(s \o t) = Len(s) + Len(t)
  OBVIOUS
<1>2. \A i \in 1 .. Len(s) : (s \o t)[i] = s[i]
  OBVIOUS
<1>3. \A i \in 1 .. Len(t) : (s \o t)[i + Len(s)] = t[i]
  OBVIOUS
<1>4. \A i \in 1 .. Len(s) + Len(t) : i <= Len(s) \/ i - Len(s) \in 1 .. Len(t)
  OBVIOUS
<1>5. ASSUME NEW x \in ToSet(s \o t) PROVE x \in ToSet(s) \cup ToSet(t)
  <2>1. PICK i \in 1 .. Len(s) + Len(t) : x = (s \o t)[i]
    BY <1>1 DEF ToSet
  <2>2. CASE i <= Len(s)
    BY <2>1, <2>2, <1>2 DEF ToSet
  <2>3. CASE i - Len(s) \in 1 .. Len(t)
    <3>1. x = t[i - Len(s)]
      BY <2>1, <2>3, <1>3
    <3> QED BY <3>1, <2>3 DEF ToSet
  <2> QED BY <2>2, <2>3, <1>4
<1>6. ASSUME NEW x \in ToSet(s) PROVE x \in ToSet(s \o t)
  <2>1. PICK i \in 1 .. Len(s) : x = s[i]
    BY DEF ToSet
  <2>2. i \in 1 .. Len(s \o t) /\ x = (s \o t)[i]
    BY <2>1, <1>1, <1>2
  <2> QED BY <2>2, <1>1 DEF ToSet
<1>7. ASSUME NEW x \in ToSet(t) PROVE x \in ToSet(s \o t)
  <2>1. PICK i \in 1 .. Len(t) : x = t[i]
    BY DEF ToSet
  <2>2. i + Len(s) \in 1 .. Len(s \o t) /\ x = (s \o t)[i + Len(s)]
    BY <2>1, <1>1, <1>3
  <2> QED BY <2>2, <1>1 DEF ToSet
<1> QED BY <1>5, <1>6, <1>7

\* Popping a stack whose members are all different removes its top from the set.
LEMMA ToSetFront ==
    ASSUME NEW S, NEW s \in Seq(S), s # <<>>, Cardinality(ToSet(s)) = Len(s)
    PROVE  /\ Front(s) \in Seq(S) /\ Len(Front(s)) = Len(s) - 1
           /\ Last(s) \in ToSet(s)
           /\ ToSet(Front(s)) = ToSet(s) \ {Last(s)}
<1> DEFINE n == Len(s)
<1>1. n \in Nat /\ n # 0 /\ DOMAIN s = 1 .. n /\ s \in [1 .. n -> S]
  OBVIOUS
<1>2. /\ Front(s) \in Seq(S) /\ Len(Front(s)) = n - 1
      /\ \A i \in 1 .. n - 1 : Front(s)[i] = s[i]
  BY <1>1 DEF Front
<1>3. Last(s) = s[n] /\ Last(s) \in ToSet(s)
  <2>1. n \in DOMAIN s
    BY <1>1
  <2> QED BY <2>1 DEF Last, ToSet
<1>4. \A i \in 1 .. n - 1 : s[i] # s[n]
  <2>1. IsFiniteSet(1 .. n) /\ Cardinality(1 .. n) = n
    BY <1>1, FS_Interval
  <2>2. s \in Surjection(1 .. n, ToSet(s))
    BY <1>1 DEF ToSet, Surjection
  <2>3. s \in Injection(1 .. n, ToSet(s))
    BY <2>1, <2>2, FS_SurjSameCardinalityImpliesInj
  <2> QED BY <2>3, <1>1 DEF Injection, IsInjective
<1>5. ToSet(s) = {s[i] : i \in 1 .. n}
  BY <1>1 DEF ToSet
<1>6. ToSet(Front(s)) = {s[i] : i \in 1 .. n - 1}
  <2>1. DOMAIN Front(s) = 1 .. n - 1
    BY <1>1, <1>2
  <2> QED BY <2>1, <1>2 DEF ToSet
<1> HIDE DEF n
<1>7. {s[i] : i \in 1 .. n - 1} = {s[i] : i \in 1 .. n} \ {s[n]}
  <2>1. \A i \in 1 .. n : i \in 1 .. n - 1 \/ i = n
    BY <1>1
  <2>2. \A i \in 1 .. n - 1 : i \in 1 .. n
    BY <1>1
  <2> QED BY <2>1, <2>2, <1>4, Zenon
<1> QED BY <1>2, <1>3, <1>5, <1>6, <1>7 DEF n

-----------------------------------------------------------------------------
(* slot_close. *)

SlotTypes ==
    /\ slots \in [Workers -> [Slots -> Conns \cup {Vacant}]]
    /\ free \in [Workers -> Seq(Slots)]
    /\ nactive \in [Workers -> 0 .. NSlots]
    /\ expired \in [Workers -> SUBSET Slots]
    /\ closed \in SUBSET Conns

\* There are NSlots slots, and sets of slots are finite.
LEMMA SlotsFinite ==
    /\ IsFiniteSet(Slots) /\ Cardinality(Slots) = NSlots
    /\ \A A \in SUBSET Slots : IsFiniteSet(A) /\ Cardinality(A) \in 0 .. NSlots
<1>1. IsFiniteSet(Slots) /\ Cardinality(Slots) = NSlots
  BY FS_Interval, SizesAssumption DEF Slots
<1>2. ASSUME NEW A \in SUBSET Slots
      PROVE  IsFiniteSet(A) /\ Cardinality(A) \in 0 .. NSlots
  <2>1. IsFiniteSet(A) /\ Cardinality(A) <= Cardinality(Slots)
    BY <1>1, FS_Subset
  <2> QED BY <1>1, <2>1, FS_CardinalityType, SizesAssumption
<1> QED BY <1>1, <1>2

\* slot_close keeps a worker's free stack and count exact, and only ever clears
\* slots of that worker.
LEMMA SlotCloseKeeps ==
    ASSUME SlotTypes, NEW w \in Workers, Exact(w), NEW S, SlotClose(w, S)
    PROVE  /\ SlotTypes' /\ Exact(w)'
           /\ \A v \in Workers \ {w} :
                slots'[v] = slots[v] /\ free'[v] = free[v] /\ nactive'[v] = nactive[v]
           /\ \A i \in Slots : slots'[w][i] = IF i \in S THEN Vacant ELSE slots[w][i]
           /\ closed' = closed \cup {slots[w][i] : i \in S \cap Active(w)}
<1> DEFINE A == S \cap Active(w)
<1>1. A \in SUBSET Slots /\ A \subseteq Active(w) /\ Active(w) \in SUBSET Slots
  BY DEF Active
<1>2. /\ slots' = [slots EXCEPT ![w] = [i \in Slots |-> IF i \in A THEN Vacant ELSE slots[w][i]]]
      /\ free' = [free EXCEPT ![w] = free[w] \o Ascending(A)]
      /\ nactive' = [nactive EXCEPT ![w] = IF nactive[w] >= Cardinality(A)
                                          THEN nactive[w] - Cardinality(A) ELSE 0]
      /\ expired' = [expired EXCEPT ![w] = expired[w] \ A]
      /\ closed' = closed \cup {slots[w][i] : i \in A}
  BY DEF SlotClose
<1>3. /\ IsFiniteSet(A) /\ Cardinality(A) \in Nat /\ Ascending(A) \in Seq(A)
      /\ Len(Ascending(A)) = Cardinality(A) /\ ToSet(Ascending(A)) = A
  BY <1>1, AscendingIs
<1>4. \A i \in A : slots[w][i] \in Conns
  BY <1>1 DEF SlotTypes, Active
<1> HIDE DEF A
<1>5. Ascending(A) \in Seq(Slots)
  BY <1>1, <1>3
<1>6. free[w] \in Seq(Slots)
  BY DEF SlotTypes
<1>7. Cardinality(A) <= nactive[w] /\ nactive[w] \in 0 .. NSlots
  <2>1. IsFiniteSet(Active(w)) /\ Cardinality(A) <= Cardinality(Active(w))
    BY <1>1, SlotsFinite, FS_Subset
  <2> QED BY <2>1 DEF Exact, SlotTypes
<1>8. nactive'[w] = nactive[w] - Cardinality(A)
  BY <1>2, <1>3, <1>7 DEF SlotTypes
<1>9. SlotTypes'
  <2>1. slots' \in [Workers -> [Slots -> Conns \cup {Vacant}]]
    BY <1>2 DEF SlotTypes
  <2>2. free' \in [Workers -> Seq(Slots)]
    <3>1. free[w] \o Ascending(A) \in Seq(Slots)
      BY <1>5, <1>6
    <3> QED BY <3>1, <1>2 DEF SlotTypes
  <2>3. nactive' \in [Workers -> 0 .. NSlots]
    BY <1>2, <1>3, <1>7, SizesAssumption DEF SlotTypes
  <2>4. expired' \in [Workers -> SUBSET Slots] /\ closed' \in SUBSET Conns
    BY <1>2, <1>4 DEF SlotTypes
  <2> QED BY <2>1, <2>2, <2>3, <2>4 DEF SlotTypes
<1>10. \A i \in Slots : slots'[w][i] = IF i \in A THEN Vacant ELSE slots[w][i]
  BY <1>2 DEF SlotTypes
<1>11. Active(w)' = Active(w) \ A
  BY <1>10, <1>1 DEF Active
<1>12. Exact(w)'
  <2>1. Cardinality(Active(w) \ A) = Cardinality(Active(w)) - Cardinality(A)
    <3>1. IsFiniteSet(Active(w)) /\ Active(w) \cap A = A
      BY <1>1, SlotsFinite
    <3> QED BY <3>1, FS_Difference
  <2>2. nactive'[w] = Cardinality(Active(w)')
    BY <2>1, <1>8, <1>11 DEF Exact
  <2>3. free'[w] = free[w] \o Ascending(A)
    BY <1>2 DEF SlotTypes
  <2>4. Len(free'[w]) = Len(free[w]) + Cardinality(A)
    <3>1. Len(free[w] \o Ascending(A)) = Len(free[w]) + Len(Ascending(A))
      BY <1>5, <1>6
    <3> QED BY <3>1, <2>3, <1>3
  <2>5. Len(free'[w]) = NSlots - nactive'[w]
    BY <2>4, <1>8, <1>3, <1>7, SizesAssumption DEF Exact
  <2>6. ToSet(free'[w]) = Slots \ Active(w)'
    <3>1. ToSet(free'[w]) = ToSet(free[w]) \cup A
      BY <2>3, <1>3, <1>5, <1>6, ToSetConcat
    <3> QED BY <3>1, <1>1, <1>11 DEF Exact
  <2> QED BY <2>2, <2>5, <2>6 DEF Exact
<1>13. \A i \in Slots : slots'[w][i] = IF i \in S THEN Vacant ELSE slots[w][i]
  BY <1>10 DEF A, Active
<1>14. \A v \in Workers \ {w} :
          slots'[v] = slots[v] /\ free'[v] = free[v] /\ nactive'[v] = nactive[v]
  BY <1>2 DEF SlotTypes
<1>15. closed' = closed \cup {slots[w][i] : i \in S \cap Active(w)}
  BY <1>2 DEF A
<1> QED BY <1>9, <1>12, <1>13, <1>14, <1>15

-----------------------------------------------------------------------------
(* Start-up. *)

\* The stack a worker starts with holds every slot.
LEMMA FullStack ==
    ASSUME NEW s, s = [i \in 1 .. NSlots |-> NSlots - i]
    PROVE  s \in Seq(Slots) /\ Len(s) = NSlots /\ ToSet(s) = Slots
<1>1. \A i \in 1 .. NSlots : NSlots - i \in Slots
  BY SizesAssumption DEF Slots
<1>2. s \in Seq(Slots) /\ Len(s) = NSlots /\ DOMAIN s = 1 .. NSlots
  BY <1>1, SizesAssumption
<1>3. \A x \in Slots : NSlots - x \in 1 .. NSlots /\ s[NSlots - x] = x
  BY SizesAssumption DEF Slots
<1>4. Slots \subseteq ToSet(s)
  BY <1>2, <1>3 DEF ToSet
<1>5. ToSet(s) \subseteq Slots
  BY <1>1, <1>2 DEF ToSet
<1> QED BY <1>2, <1>4, <1>5

\* A worker that reports status 1 has an exact, full stack.
LEMMA InitWorkerKeeps ==
    ASSUME SlotTypes, LifeCycle, status \in [Workers -> {-1, 0, 1}],
           NEW w \in Workers, InitWorker(w)
    PROVE  /\ free' \in [Workers -> Seq(Slots)]
           /\ status'[w] = 1 => Exact(w)'
           /\ \A v \in Workers \ {w} : free'[v] = free[v] /\ status'[v] = status[v]
<1>1. nactive[w] = 0 /\ \A i \in Slots : slots[w][i] = Vacant
  BY DEF InitWorker, LifeCycle
<1>2. CASE /\ free' = [free EXCEPT ![w] = [i \in 1 .. NSlots |-> NSlots - i]]
           /\ status' = [status EXCEPT ![w] = 1]
  <2> DEFINE s == [i \in 1 .. NSlots |-> NSlots - i]
  <2>1. s \in Seq(Slots) /\ Len(s) = NSlots /\ ToSet(s) = Slots
    BY FullStack
  <2> HIDE DEF s
  <2>2. free' = [free EXCEPT ![w] = s]
    BY <1>2 DEF s
  <2>3. free' \in [Workers -> Seq(Slots)] /\ free'[w] = s
    BY <2>1, <2>2 DEF SlotTypes
  <2>4. nactive' = nactive /\ slots' = slots
    BY DEF InitWorker
  <2>5. Active(w)' = {}
    BY <1>1, <2>4 DEF Active
  <2>6. Exact(w)'
    BY <2>1, <2>3, <2>4, <2>5, <1>1, FS_EmptySet, SizesAssumption DEF Exact
  <2> QED BY <2>2, <2>3, <2>6, <1>2 DEF SlotTypes
<1>3. CASE free' = free /\ status' = [status EXCEPT ![w] = -1]
  BY <1>3 DEF SlotTypes
<1> QED BY <1>2, <1>3 DEF InitWorker

-----------------------------------------------------------------------------
(* try_accept_one. *)

\* The popped slot was vacant; stack and count stay exact.
LEMMA FillSlotKeeps ==
    ASSUME SlotTypes, NEW w \in Workers, Exact(w), free[w] # <<>>, NEW c \in Conns,
           slots' = [slots EXCEPT ![w][Last(free[w])] = c],
           free' = [free EXCEPT ![w] = Front(free[w])],
           nactive' = [nactive EXCEPT ![w] = nactive[w] + 1],
           UNCHANGED <<expired, closed>>
    PROVE  /\ SlotTypes' /\ Exact(w)'
           /\ Last(free[w]) \in Slots /\ slots[w][Last(free[w])] = Vacant
<1> DEFINE i == Last(free[w])
<1>1. free[w] \in Seq(Slots) /\ Len(free[w]) \in Nat /\ Len(free[w]) # 0
  BY DEF SlotTypes
<1>2. /\ Active(w) \in SUBSET Slots /\ IsFiniteSet(Active(w))
      /\ IsFiniteSet(Slots) /\ Cardinality(Slots) = NSlots
  <2>1. Active(w) \in SUBSET Slots
    BY DEF Active
  <2> QED BY <2>1, SlotsFinite
<1>3. Cardinality(ToSet(free[w])) = Len(free[w])
  <2>1. Cardinality(Slots \ Active(w)) = NSlots - Cardinality(Active(w))
    <3>1. Slots \cap Active(w) = Active(w)
      BY <1>2
    <3> QED BY <3>1, <1>2, FS_Difference
  <2> QED BY <2>1 DEF Exact
<1>4. /\ Front(free[w]) \in Seq(Slots) /\ Len(Front(free[w])) = Len(free[w]) - 1
      /\ i \in ToSet(free[w]) /\ ToSet(Front(free[w])) = ToSet(free[w]) \ {i}
  BY <1>1, <1>3, ToSetFront
<1>5. i \in Slots /\ i \notin Active(w)
  BY <1>4 DEF Exact
<1>6. slots[w][i] = Vacant
  BY <1>5 DEF Active
<1> HIDE DEF i
<1>7. slots' = [slots EXCEPT ![w] = [slots[w] EXCEPT ![i] = c]]
  BY DEF i
<1>8. Active(w)' = Active(w) \cup {i}
  <2>1. slots'[w] = [slots[w] EXCEPT ![i] = c]
    BY <1>7 DEF SlotTypes
  <2>2. c # Vacant
    BY SizesAssumption DEF Conns, Vacant
  <2>3. slots[w] \in [Slots -> Conns \cup {Vacant}]
    BY DEF SlotTypes
  <2> QED BY <2>1, <2>2, <2>3, <1>5 DEF Active
<1>9. free'[w] = Front(free[w]) /\ nactive'[w] = nactive[w] + 1
  BY DEF SlotTypes
<1>10. Exact(w)'
  <2>1. Cardinality(Active(w)') = Cardinality(Active(w)) + 1
    BY <1>2, <1>5, <1>8, FS_AddElement
  <2>2. nactive'[w] = Cardinality(Active(w)')
    BY <2>1, <1>9 DEF Exact
  <2>3. Len(free'[w]) = NSlots - nactive'[w]
    BY <1>9, <1>4, <1>1, SizesAssumption DEF Exact, SlotTypes
  <2>4. ToSet(free'[w]) = Slots \ Active(w)'
    BY <1>9, <1>4, <1>8 DEF Exact
  <2> QED BY <2>2, <2>3, <2>4 DEF Exact
<1>11. SlotTypes'
  <2>1. slots' \in [Workers -> [Slots -> Conns \cup {Vacant}]]
    <3>1. slots[w] \in [Slots -> Conns \cup {Vacant}]
      BY DEF SlotTypes
    <3>2. [slots[w] EXCEPT ![i] = c] \in [Slots -> Conns \cup {Vacant}]
      BY <3>1
    <3> QED BY <3>2, <1>7 DEF SlotTypes
  <2>2. free' \in [Workers -> Seq(Slots)]
    BY <1>4 DEF SlotTypes
  <2>3. nactive[w] + 1 \in 0 .. NSlots
    BY <1>1, SizesAssumption DEF Exact, SlotTypes
  <2>4. nactive' \in [Workers -> 0 .. NSlots]
    BY <2>3 DEF SlotTypes
  <2> QED BY <2>1, <2>2, <2>4 DEF SlotTypes
<1> QED BY <1>10, <1>11, <1>5, <1>6 DEF i

-----------------------------------------------------------------------------
(* Types, slots and life cycles, action by action. *)

\* The types of everything but slots.
RestTypes ==
    /\ mpc \in {"create", "await", "failed", "accept", "notify", "destroy",
                "destroyNotify", "join", "done"}
    /\ k \in 0 .. NWorkers
    /\ started \in 0 .. NWorkers
    /\ accepted \in 0 .. MaxConns
    /\ queue \in Seq(Conns)
    /\ Len(queue) <= QueueSize
    /\ wake \in BOOLEAN
    /\ stop \in BOOLEAN
    /\ status \in [Workers -> {-1, 0, 1}]
    /\ wpc \in [Workers -> {"none", "init", "loop", "accept", "wait", "events", "exit", "done"}]
    /\ loop \in [Workers -> 0 .. SweepEvery - 1]
    /\ batch \in [Workers -> SUBSET Events]
    /\ disturb \in 0 .. MaxDisturb

LEMMA TypesSplit == TypeOK <=> RestTypes /\ SlotTypes
BY DEF TypeOK, RestTypes, SlotTypes

\* Whether a worker's slots are exact depends on its own state only.
LEMMA ExactFrame ==
    ASSUME NEW v \in Workers, Exact(v),
           slots'[v] = slots[v], free'[v] = free[v], nactive'[v] = nactive[v]
    PROVE  Exact(v)'
<1>1. Active(v)' = Active(v)
  BY DEF Active
<1> QED BY <1>1 DEF Exact

\* The counter of rounds stays below SweepEvery.
LEMMA RoundTyped ==
    ASSUME NEW r \in 0 .. SweepEvery - 1
    PROVE  (r + 1) % SweepEvery \in 0 .. SweepEvery - 1
BY SizesAssumption

\* What a dequeue leaves in the queue.
LEMMA TailTyped ==
    ASSUME RestTypes, queue # <<>>
    PROVE  /\ Tail(queue) \in Seq(Conns) /\ Len(Tail(queue)) = Len(queue) - 1
           /\ Len(Tail(queue)) <= QueueSize /\ Head(queue) \in Conns
BY SizesAssumption DEF RestTypes

\* Every step keeps the types of everything but slots.
LEMMA RestTypesStep ==
    ASSUME RestTypes, SlotTypes, LifeCycle, [Next]_vars
    PROVE  RestTypes'
<1> USE SizesAssumption
<1>1. CASE CreateWorker
  <2>1. k < NWorkers /\ k \in Workers
    BY <1>1 DEF RestTypes, LifeCycle, CreateWorker, Workers
  <2>2. k' \in 0 .. NWorkers /\ started' \in 0 .. NWorkers
    BY <1>1, <2>1 DEF RestTypes, CreateWorker
  <2>3. wpc' \in [Workers -> {"none", "init", "loop", "accept", "wait", "events", "exit", "done"}]
    BY <1>1, <2>1 DEF RestTypes, CreateWorker
  <2>4. mpc' \in {"create", "await", "failed"} /\ stop' \in BOOLEAN
    BY <1>1 DEF RestTypes, CreateWorker
  <2> QED BY <1>1, <2>2, <2>3, <2>4 DEF RestTypes, CreateWorker
<1>2. CASE AwaitWorker
  <2>1. k < NWorkers
    BY <1>2 DEF LifeCycle, AwaitWorker
  <2>2. k' \in 0 .. NWorkers
    BY <1>2, <2>1 DEF RestTypes, AwaitWorker
  <2>3. mpc' \in {"await", "accept", "failed"} /\ stop' \in BOOLEAN
    BY <1>2 DEF RestTypes, AwaitWorker
  <2> QED BY <1>2, <2>2, <2>3 DEF RestTypes, AwaitWorker
<1>3. CASE NotifyFailure
  BY <1>3 DEF RestTypes, NotifyFailure
<1>4. CASE NotifyQueued
  BY <1>4 DEF RestTypes, NotifyQueued
<1>5. CASE DestroyStop
  BY <1>5 DEF RestTypes, DestroyStop
<1>6. CASE DestroyNotify
  BY <1>6 DEF RestTypes, DestroyNotify
<1>7. CASE JoinWorker
  BY <1>7 DEF RestTypes, JoinWorker
<1>8. CASE AcceptConn
  <2>1. accepted + 1 \in Conns
    BY <1>8 DEF RestTypes, AcceptConn, Conns
  <2>2. queue' \in Seq(Conns) /\ Len(queue') <= QueueSize
    <3>1. /\ Append(queue, accepted + 1) \in Seq(Conns)
          /\ Len(Append(queue, accepted + 1)) = Len(queue) + 1 /\ Len(queue) \in Nat
      BY <2>1 DEF RestTypes
    <3>2. CASE Len(queue) < QueueSize /\ queue' = Append(queue, accepted + 1)
      BY <3>1, <3>2
    <3>3. CASE queue' = queue
      BY <3>3 DEF RestTypes
    <3> QED BY <1>8, <3>2, <3>3 DEF AcceptConn
  <2>3. accepted' \in 0 .. MaxConns /\ mpc' \in {"accept", "notify"}
    BY <1>8 DEF RestTypes, AcceptConn
  <2> QED BY <1>8, <2>2, <2>3 DEF RestTypes, AcceptConn
<1>9. ASSUME NEW w \in Workers, InitWorker(w) PROVE RestTypes'
  BY <1>9 DEF RestTypes, InitWorker
<1>10. ASSUME NEW w \in Workers, LoopTop(w) PROVE RestTypes'
  BY <1>10 DEF RestTypes, LoopTop, mainVars
<1>11. ASSUME NEW w \in Workers, TryAccept(w) PROVE RestTypes'
  <2>1. queue' \in Seq(Conns) /\ Len(queue') <= QueueSize
    BY <1>11, TailTyped DEF RestTypes, TryAccept
  <2>2. wpc' \in [Workers -> {"none", "init", "loop", "accept", "wait", "events", "exit", "done"}]
    BY <1>11 DEF RestTypes, TryAccept
  <2> QED BY <1>11, <2>1, <2>2 DEF RestTypes, TryAccept, mainVars
<1>12. ASSUME NEW w \in Workers, WaitEvents(w) PROVE RestTypes'
  <2>1. PICK B \in SUBSET Ready(w) : batch' = [batch EXCEPT ![w] = {Reported(w, e) : e \in B}]
    BY <1>12 DEF WaitEvents
  <2>2. ASSUME NEW e \in Ready(w) PROVE Reported(w, e) \in Events
    <3>1. CASE e = Wake
      BY <3>1 DEF Reported, Events
    <3>2. CASE e # Wake
      <4>1. e \in [side : Sides, slot : Active(w)]
        BY <3>2 DEF Ready
      <4>2. e.side \in Sides /\ e.slot \in Slots /\ slots[w][e.slot] \in Conns
        BY <4>1 DEF Active, SlotTypes
      <4> QED BY <3>2, <4>2 DEF Reported, Events
    <3> QED BY <3>1, <3>2
  <2>3. batch' \in [Workers -> SUBSET Events]
    BY <2>1, <2>2 DEF RestTypes
  <2>4. loop' \in [Workers -> 0 .. SweepEvery - 1]
    BY <1>12, RoundTyped DEF RestTypes, WaitEvents
  <2> QED BY <1>12, <2>3, <2>4 DEF RestTypes, WaitEvents, mainVars
<1>13. ASSUME NEW w \in Workers, WaitTimeout(w) PROVE RestTypes'
  <2>1. loop' \in [Workers -> 0 .. SweepEvery - 1]
    BY <1>13, RoundTyped DEF RestTypes, WaitTimeout
  <2> QED BY <1>13, <2>1 DEF RestTypes, WaitTimeout, mainVars
<1>14. ASSUME NEW w \in Workers, WaitInterrupted(w) PROVE RestTypes'
  <2>1. loop' \in [Workers -> 0 .. SweepEvery - 1]
    BY <1>14, RoundTyped DEF RestTypes, WaitInterrupted
  <2> QED BY <1>14, <2>1 DEF RestTypes, WaitInterrupted, mainVars
<1>15. ASSUME NEW w \in Workers, WaitFails(w) PROVE RestTypes'
  BY <1>15 DEF RestTypes, WaitFails, mainVars
<1>16. ASSUME NEW w \in Workers, HandleWake(w) PROVE RestTypes'
  BY <1>16 DEF RestTypes, HandleWake, mainVars
<1>17. ASSUME NEW w \in Workers, HandleEvent(w) PROVE RestTypes'
  <2>1. batch' \in [Workers -> SUBSET Events]
    BY <1>17 DEF RestTypes, HandleEvent
  <2> QED BY <1>17, <2>1 DEF RestTypes, HandleEvent, mainVars
<1>18. ASSUME NEW w \in Workers, EndBatch(w) PROVE RestTypes'
  BY <1>18 DEF RestTypes, EndBatch, mainVars
<1>19. ASSUME NEW w \in Workers, ExitWorker(w) PROVE RestTypes'
  BY <1>19 DEF RestTypes, ExitWorker, mainVars
<1>20. ASSUME NEW w \in Workers, Expire(w) PROVE RestTypes'
  BY <1>20 DEF RestTypes, Expire, mainVars
<1>21. CASE UNCHANGED vars
  BY <1>21 DEF RestTypes, vars, mainVars
<1> QED
  BY <1>1, <1>2, <1>3, <1>4, <1>5, <1>6, <1>7, <1>8, <1>9, <1>10, <1>11, <1>12, <1>13, <1>14,
     <1>15, <1>16, <1>17, <1>18, <1>19, <1>20, <1>21
  DEF Next, Main, Run, Wait


-----------------------------------------------------------------------------
(* What a step does to the connections. *)

\* Nothing that says where a connection is changes.
Idle ==
    /\ UNCHANGED <<slots, free, nactive, closed, queue, accepted, status>>
    /\ expired' \in [Workers -> SUBSET Slots]

\* A worker closes slots of its own.
Closes(w) ==
    /\ Running(w)
    /\ \E S : SlotClose(w, S)
    /\ UNCHANGED <<queue, accepted, status>>

\* A sweep closes slots or does nothing.
LEMMA SweepIs ==
    ASSUME NEW w \in Workers, Sweep(w)
    PROVE  (\E S : SlotClose(w, S)) \/ UNCHANGED <<slotVars, closed>>
BY DEF Sweep

LEMMA StepKinds ==
    ASSUME TypeOK, [Next]_vars
    PROVE  \/ Idle
           \/ AcceptConn
           \/ \E w \in Workers : InitWorker(w) \/ TryAccept(w) \/ Closes(w)
<1> USE DEF mainVars, slotVars, Idle
<1>0. expired \in [Workers -> SUBSET Slots]
  BY DEF TypeOK
<1>1. CASE Main
  BY <1>0, <1>1 DEF Main, CreateWorker, AwaitWorker, NotifyFailure, NotifyQueued, DestroyStop,
     DestroyNotify, JoinWorker
<1>2. ASSUME NEW w \in Workers, LoopTop(w) \/ WaitEvents(w) \/ WaitInterrupted(w)
                                  \/ WaitFails(w) \/ HandleWake(w)
      PROVE  Idle
  BY <1>0, <1>2 DEF LoopTop, WaitEvents, WaitInterrupted, WaitFails, HandleWake
<1>3. ASSUME NEW w \in Workers, Expire(w) PROVE Idle
  <2>1. PICK i \in Slots : expired' = [expired EXCEPT ![w] = expired[w] \cup {i}]
    BY <1>3 DEF Expire, Active
  <2>2. expired' \in [Workers -> SUBSET Slots]
    BY <1>0, <2>1
  <2> QED BY <1>3, <2>2 DEF Expire
<1>4. ASSUME NEW w \in Workers, WaitTimeout(w) PROVE Idle \/ Closes(w)
  <2>1. CASE \E S : SlotClose(w, S)
    BY <1>4, <2>1 DEF WaitTimeout, Closes, Running
  <2>2. CASE UNCHANGED <<slotVars, closed>>
    BY <1>0, <1>4, <2>2 DEF WaitTimeout
  <2> QED BY <1>4, <2>1, <2>2, SweepIs DEF WaitTimeout
<1>5. ASSUME NEW w \in Workers, EndBatch(w) PROVE Idle \/ Closes(w)
  <2>1. CASE \E S : SlotClose(w, S)
    BY <1>5, <2>1 DEF EndBatch, Closes, Running
  <2>2. CASE UNCHANGED <<slotVars, closed>>
    BY <1>0, <1>5, <2>2 DEF EndBatch
  <2> QED BY <1>5, <2>1, <2>2, SweepIs DEF EndBatch
<1>6. ASSUME NEW w \in Workers, HandleEvent(w) PROVE Idle \/ Closes(w)
  <2>1. CASE UNCHANGED <<slotVars, closed>>
    BY <1>0, <1>6, <2>1 DEF HandleEvent
  <2>2. CASE \E S : SlotClose(w, S)
    BY <1>6, <2>2 DEF HandleEvent, Closes, Running
  <2>3. CASE /\ \E i : expired' = [expired EXCEPT ![w] = expired[w] \ {i}]
             /\ UNCHANGED <<slots, free, nactive, closed>>
    <3>1. expired' \in [Workers -> SUBSET Slots]
      BY <1>0, <2>3
    <3> QED BY <1>6, <2>3, <3>1 DEF HandleEvent
  <2> QED BY <1>6, <2>1, <2>2, <2>3 DEF HandleEvent
<1>7. ASSUME NEW w \in Workers, ExitWorker(w) PROVE Closes(w)
  BY <1>7 DEF ExitWorker, Closes, Running
<1>8. CASE UNCHANGED vars
  BY <1>0, <1>8 DEF vars
<1> QED
  BY <1>1, <1>2, <1>3, <1>4, <1>5, <1>6, <1>7, <1>8 DEF Next, Run, Wait

\* Every step keeps the slots' types, and the free stacks and counts exact.
LEMMA SlotsStep ==
    ASSUME SlotsAccounted, LifeCycle, [Next]_vars
    PROVE  SlotTypes' /\ \A v \in Workers : status'[v] = 1 => Exact(v)'
<1>0. TypeOK /\ SlotTypes /\ RestTypes /\ \A v \in Workers : status[v] = 1 => Exact(v)
  BY TypesSplit DEF SlotsAccounted
<1>1. CASE Idle
  <2>1. SlotTypes'
    BY <1>0, <1>1 DEF Idle, SlotTypes
  <2> QED BY <1>0, <1>1, <2>1, ExactFrame DEF Idle
<1>2. CASE AcceptConn
  <2>1. accepted + 1 \in Conns
    BY <1>0, <1>2, SizesAssumption DEF RestTypes, AcceptConn, Conns
  <2>2. UNCHANGED <<slots, free, nactive, expired, status>>
    BY <1>2 DEF AcceptConn, slotVars
  <2>3. closed' \in SUBSET Conns
    BY <1>0, <1>2, <2>1 DEF SlotTypes, AcceptConn
  <2>4. SlotTypes'
    BY <1>0, <2>2, <2>3 DEF SlotTypes
  <2> QED BY <1>0, <2>2, <2>4, ExactFrame
<1>3. ASSUME NEW w \in Workers, InitWorker(w)
      PROVE  SlotTypes' /\ \A v \in Workers : status'[v] = 1 => Exact(v)'
  <2>1. UNCHANGED <<slots, nactive, expired, closed>>
    BY <1>3 DEF InitWorker
  <2>2. /\ free' \in [Workers -> Seq(Slots)]
        /\ status'[w] = 1 => Exact(w)'
        /\ \A v \in Workers \ {w} : free'[v] = free[v] /\ status'[v] = status[v]
    BY <1>0, <1>3, InitWorkerKeeps DEF RestTypes
  <2>3. SlotTypes'
    BY <1>0, <2>1, <2>2 DEF SlotTypes
  <2> QED BY <1>0, <2>1, <2>2, <2>3, ExactFrame
<1>4. ASSUME NEW w \in Workers, TryAccept(w)
      PROVE  SlotTypes' /\ \A v \in Workers : status'[v] = 1 => Exact(v)'
  <2>0. Exact(w) /\ status' = status
    BY <1>0, <1>4 DEF TryAccept, LifeCycle, Running, mainVars
  <2>1. CASE /\ UNCHANGED slotVars
             /\ \/ closed' = closed
                \/ queue # <<>> /\ closed' = closed \cup {Head(queue)}
    <3>1. closed' \in SUBSET Conns
      BY <1>0, <2>1, TailTyped DEF SlotTypes
    <3>2. SlotTypes'
      BY <1>0, <2>1, <3>1 DEF SlotTypes, slotVars
    <3> QED BY <1>0, <2>0, <2>1, <3>2, ExactFrame DEF slotVars
  <2>2. CASE /\ free[w] # <<>> /\ queue # <<>>
             /\ slots' = [slots EXCEPT ![w][Last(free[w])] = Head(queue)]
             /\ free' = [free EXCEPT ![w] = Front(free[w])]
             /\ nactive' = [nactive EXCEPT ![w] = nactive[w] + 1]
             /\ UNCHANGED <<expired, closed>>
    <3>1. Head(queue) \in Conns
      BY <1>0, <2>2, TailTyped
    <3>2. SlotTypes' /\ Exact(w)'
      BY <1>0, <2>0, <2>2, <3>1, FillSlotKeeps
    <3>3. \A v \in Workers \ {w} :
             slots'[v] = slots[v] /\ free'[v] = free[v] /\ nactive'[v] = nactive[v]
      BY <1>0, <2>2 DEF SlotTypes
    <3> QED BY <1>0, <2>0, <3>2, <3>3, ExactFrame
  <2> QED BY <1>4, <2>1, <2>2 DEF TryAccept
<1>5. ASSUME NEW w \in Workers, Closes(w)
      PROVE  SlotTypes' /\ \A v \in Workers : status'[v] = 1 => Exact(v)'
  <2>1. Exact(w) /\ status' = status
    BY <1>0, <1>5 DEF Closes, LifeCycle
  <2>2. PICK S : SlotClose(w, S)
    BY <1>5 DEF Closes
  <2>3. /\ SlotTypes' /\ Exact(w)'
        /\ \A v \in Workers \ {w} :
             slots'[v] = slots[v] /\ free'[v] = free[v] /\ nactive'[v] = nactive[v]
    BY <1>0, <2>1, <2>2, SlotCloseKeeps
  <2> QED BY <1>0, <2>1, <2>3, ExactFrame
<1> QED BY <1>0, <1>1, <1>2, <1>3, <1>4, <1>5, StepKinds


\* What a worker's step does to the program counters: it was created before, it
\* leaves the main thread alone, and reports its status once.
LEMMA WorkerMoves ==
    ASSUME RestTypes, NEW w \in Workers, Run(w) \/ Wait(w) \/ Expire(w)
    PROVE  /\ UNCHANGED <<mpc, k, started, accepted>>
           /\ \E p : \/ wpc' = [wpc EXCEPT ![w] = p] /\ p \notin {"none", "init"}
                     \/ wpc' = wpc
           /\ wpc' # wpc => wpc[w] # "none"
           /\ \/ /\ status' = status
                 /\ wpc' # wpc => Running(w)
              \/ /\ wpc[w] = "init"
                 /\ \/ status' = [status EXCEPT ![w] = 1] /\ wpc' = [wpc EXCEPT ![w] = "loop"]
                    \/ status' = [status EXCEPT ![w] = -1] /\ wpc' = [wpc EXCEPT ![w] = "done"]
<1> USE DEF mainVars, Running
<1>1. CASE InitWorker(w)
  BY <1>1 DEF InitWorker
<1>2. CASE LoopTop(w)
  <2>1. wpc' = [wpc EXCEPT ![w] = "exit"] \/ wpc' = [wpc EXCEPT ![w] = "accept"]
    BY <1>2 DEF LoopTop
  <2> QED BY <1>2, <2>1 DEF LoopTop
<1>3. CASE TryAccept(w)
  BY <1>3 DEF TryAccept
<1>4. CASE HandleWake(w) \/ HandleEvent(w) \/ Expire(w)
  BY <1>4 DEF HandleWake, HandleEvent, Expire
<1>5. CASE EndBatch(w) \/ ExitWorker(w)
  BY <1>5 DEF EndBatch, ExitWorker
<1>6. CASE Wait(w)
  BY <1>6 DEF Wait, WaitEvents, WaitTimeout, WaitInterrupted, WaitFails
<1> QED BY <1>1, <1>2, <1>3, <1>4, <1>5, <1>6 DEF Run

\* The main thread moves no worker but the one it creates.
LEMMA MainMoves ==
    ASSUME RestTypes, LifeCycle, Main \/ AcceptConn \/ UNCHANGED vars
    PROVE  /\ UNCHANGED <<status, slots, nactive, batch, free, expired>>
           /\ mpc' \in {"create", "await"} => k' < NWorkers
           /\ \/ wpc' = wpc /\ (mpc' = "create" => mpc = "create" /\ k' = k)
              \/ /\ mpc = "create" /\ k \in Workers /\ wpc' = [wpc EXCEPT ![k] = "init"]
                 /\ mpc' = "create" => k' = k + 1
<1> USE DEF mainVars, slotVars
<1>1. CASE CreateWorker
  <2>1. k < NWorkers /\ k \in Workers
    BY <1>1, SizesAssumption DEF RestTypes, LifeCycle, CreateWorker, Workers
  <2>2. mpc' \in {"create", "await"} => k' < NWorkers
    BY <1>1, <2>1, SizesAssumption DEF CreateWorker, RestTypes
  <2> QED BY <1>1, <2>1, <2>2 DEF CreateWorker
<1>2. CASE AwaitWorker
  <2>1. k < NWorkers
    BY <1>2 DEF LifeCycle, AwaitWorker
  <2> QED BY <1>2, <2>1, SizesAssumption DEF AwaitWorker, RestTypes
<1>3. CASE NotifyFailure \/ NotifyQueued \/ DestroyStop \/ DestroyNotify \/ JoinWorker
  BY <1>3 DEF NotifyFailure, NotifyQueued, DestroyStop, DestroyNotify, JoinWorker
<1>4. CASE AcceptConn
  BY <1>4 DEF AcceptConn
<1>5. CASE UNCHANGED vars
  BY <1>5 DEF vars, LifeCycle
<1> QED BY <1>1, <1>2, <1>3, <1>4, <1>5 DEF Main

\* Outside the event loop a worker has no batch.
LEMMA BatchStep ==
    ASSUME RestTypes, NEW w \in Workers, Run(w) \/ Wait(w) \/ Expire(w),
           \A v \in Workers : wpc[v] # "events" => batch[v] = {}
    PROVE  \A v \in Workers : wpc'[v] # "events" => batch'[v] = {}
<1> USE DEF RestTypes
<1>1. CASE InitWorker(w) \/ LoopTop(w)
  BY <1>1 DEF InitWorker, LoopTop
<1>2. CASE TryAccept(w)
  BY <1>2 DEF TryAccept
<1>3. CASE HandleWake(w) \/ HandleEvent(w)
  BY <1>3 DEF HandleWake, HandleEvent
<1>4. CASE Expire(w)
  BY <1>4 DEF Expire
<1>5. CASE EndBatch(w) \/ ExitWorker(w)
  BY <1>5 DEF EndBatch, ExitWorker
<1>6. CASE WaitEvents(w)
  BY <1>6 DEF WaitEvents
<1>7. CASE WaitTimeout(w) \/ WaitInterrupted(w) \/ WaitFails(w)
  BY <1>7 DEF WaitTimeout, WaitInterrupted, WaitFails
<1> QED BY <1>1, <1>2, <1>3, <1>4, <1>5, <1>6, <1>7 DEF Run, Wait

\* Every step keeps the life cycles.
LEMMA LifeCycleStep ==
    ASSUME SlotsAccounted, LifeCycle, [Next]_vars
    PROVE  LifeCycle'
<1>0. RestTypes /\ SlotTypes /\ TypeOK
  BY TypesSplit DEF SlotsAccounted
<1>1. CASE Main \/ AcceptConn \/ UNCHANGED vars
  <2>1. /\ UNCHANGED <<status, slots, nactive, batch>>
        /\ mpc' \in {"create", "await"} => k' < NWorkers
        /\ \/ wpc' = wpc /\ (mpc' = "create" => mpc = "create" /\ k' = k)
           \/ /\ mpc = "create" /\ k \in Workers /\ wpc' = [wpc EXCEPT ![k] = "init"]
              /\ mpc' = "create" => k' = k + 1
    BY <1>0, <1>1, MainMoves
  <2>2. CASE wpc' = wpc /\ (mpc' = "create" => mpc = "create" /\ k' = k)
    BY <2>1, <2>2 DEF LifeCycle, Running
  <2>3. CASE /\ mpc = "create" /\ k \in Workers /\ wpc' = [wpc EXCEPT ![k] = "init"]
             /\ mpc' = "create" => k' = k + 1
    <3>1. wpc[k] = "none" /\ status[k] = 0 /\ batch[k] = {}
      BY <2>3 DEF LifeCycle, Workers
    <3>2. ASSUME mpc' = "create", NEW v \in Workers, v >= k' PROVE wpc'[v] = "none"
      BY <1>0, <2>3, <3>2 DEF LifeCycle, RestTypes, Workers
    <3>3. ASSUME NEW v \in Workers
          PROVE  /\ Running(v)' => status'[v] = 1
                 /\ wpc'[v] \in {"none", "init"} => status'[v] = 0
                 /\ wpc'[v] # "events" => batch'[v] = {}
      BY <1>0, <2>1, <2>3, <3>1 DEF LifeCycle, RestTypes, Running
    <3>4. \A v \in Workers : status'[v] # 1 => nactive'[v] = 0 /\ \A i \in Slots : slots'[v][i] = Vacant
      BY <2>1 DEF LifeCycle
    <3> QED BY <2>1, <3>2, <3>3, <3>4 DEF LifeCycle
  <2> QED BY <2>1, <2>2, <2>3
<1>2. ASSUME NEW w \in Workers, Run(w) \/ Wait(w) \/ Expire(w) PROVE LifeCycle'
  <2>0. \/ Idle
        \/ \E v \in Workers : InitWorker(v) \/ TryAccept(v) \/ Closes(v)
    <3>1. ~AcceptConn
      BY <1>0, <1>2, WorkerMoves DEF AcceptConn, RestTypes
    <3>2. [Next]_vars
      BY <1>2 DEF Next
    <3> QED BY <1>0, <3>1, <3>2, StepKinds
  <2>1. mpc' \in {"create", "await"} => k' < NWorkers
    BY <1>0, <1>2, WorkerMoves DEF LifeCycle
  <2>2. ASSUME mpc' = "create", NEW v \in Workers, v >= k' PROVE wpc'[v] = "none"
    <3>1. mpc = "create" /\ v >= k
      BY <1>0, <1>2, <2>2, WorkerMoves
    <3>2. wpc[v] = "none"
      BY <3>1 DEF LifeCycle
    <3> QED BY <1>0, <1>2, <3>2, WorkerMoves DEF RestTypes
  <2>3. ASSUME NEW v \in Workers
        PROVE  /\ Running(v)' => status'[v] = 1
               /\ wpc'[v] \in {"none", "init"} => status'[v] = 0
    <3>1. (Running(v) => status[v] = 1) /\ (wpc[v] \in {"none", "init"} => status[v] = 0)
      BY DEF LifeCycle
    <3>2. (Running(w) => status[w] = 1) /\ (wpc[w] \in {"none", "init"} => status[w] = 0)
      BY DEF LifeCycle
    <3>3. CASE status' = status /\ wpc' = wpc
      BY <3>1, <3>3 DEF Running
    <3>4. CASE status' = status /\ wpc' # wpc
      <4>1. Running(w)
        <5>1. wpc[w] = "init" => /\ status' # [status EXCEPT ![w] = 1]
                                 /\ status' # [status EXCEPT ![w] = -1]
          BY <1>0, <3>2, <3>4 DEF RestTypes
        <5> QED BY <1>0, <1>2, <3>4, <5>1, WorkerMoves
      <4>2. PICK p : wpc' = [wpc EXCEPT ![w] = p] /\ p \notin {"none", "init"}
        BY <1>0, <1>2, <3>4, WorkerMoves
      <4> QED BY <1>0, <3>1, <3>2, <3>4, <4>1, <4>2 DEF Running, RestTypes
    <3>5. CASE /\ wpc[w] = "init"
               /\ \/ status' = [status EXCEPT ![w] = 1] /\ wpc' = [wpc EXCEPT ![w] = "loop"]
                  \/ status' = [status EXCEPT ![w] = -1] /\ wpc' = [wpc EXCEPT ![w] = "done"]
      BY <1>0, <3>1, <3>5 DEF Running, RestTypes
    <3> QED BY <1>0, <1>2, <3>3, <3>4, <3>5, WorkerMoves
  <2>4. ASSUME NEW v \in Workers, status'[v] # 1
        PROVE  nactive'[v] = 0 /\ \A i \in Slots : slots'[v][i] = Vacant
    <3>1. \A u \in Workers : status[u] # 1 => nactive[u] = 0 /\ \A i \in Slots : slots[u][i] = Vacant
      BY DEF LifeCycle
    <3>2. CASE Idle
      BY <2>4, <3>1, <3>2 DEF Idle
    <3>3. ASSUME NEW u \in Workers, InitWorker(u)
          PROVE  nactive'[v] = 0 /\ \A i \in Slots : slots'[v][i] = Vacant
      <4>1. status[u] = 0 /\ UNCHANGED <<nactive, slots>>
        BY <3>3 DEF LifeCycle, InitWorker
      <4>2. status[v] # 1
        BY <1>0, <2>4, <3>3, <4>1 DEF InitWorker, RestTypes
      <4> QED BY <3>1, <4>1, <4>2
    <3>4. ASSUME NEW u \in Workers, TryAccept(u)
          PROVE  nactive'[v] = 0 /\ \A i \in Slots : slots'[v][i] = Vacant
      <4>1. status[u] = 1 /\ status' = status
        BY <3>4 DEF LifeCycle, TryAccept, Running, mainVars
      <4>2. nactive'[v] = nactive[v] /\ slots'[v] = slots[v]
        BY <1>0, <2>4, <3>4, <4>1 DEF TryAccept, slotVars, SlotTypes
      <4> QED BY <2>4, <3>1, <4>1, <4>2
    <3>5. ASSUME NEW u \in Workers, Closes(u)
          PROVE  nactive'[v] = 0 /\ \A i \in Slots : slots'[v][i] = Vacant
      <4>1. status[u] = 1 /\ status' = status
        BY <3>5 DEF LifeCycle, Closes
      <4>2. nactive'[v] = nactive[v] /\ slots'[v] = slots[v]
        BY <1>0, <2>4, <3>5, <4>1 DEF Closes, SlotClose, SlotTypes
      <4> QED BY <2>4, <3>1, <4>1, <4>2
    <3> QED BY <2>0, <3>2, <3>3, <3>4, <3>5
  <2>5. \A v \in Workers : wpc'[v] # "events" => batch'[v] = {}
    BY <1>0, <1>2, BatchStep DEF LifeCycle
  <2> QED BY <2>1, <2>2, <2>3, <2>4, <2>5 DEF LifeCycle
<1> QED BY <1>1, <1>2 DEF Next


-----------------------------------------------------------------------------
(* Events and the connections they were reported for. *)

\* Only try_accept_one puts a connection into a slot.
LEMMA SlotsOnlyCleared ==
    ASSUME SlotsAccounted, LifeCycle, [Next]_vars, \A w \in Workers : ~TryAccept(w),
           NEW v \in Workers, NEW i \in Slots
    PROVE  slots'[v][i] \in {Vacant, slots[v][i]}
<1>0. TypeOK /\ SlotTypes /\ \A u \in Workers : status[u] = 1 => Exact(u)
  BY TypesSplit DEF SlotsAccounted
<1>1. CASE Idle \/ AcceptConn
  BY <1>1 DEF Idle, AcceptConn, slotVars
<1>2. ASSUME NEW w \in Workers, InitWorker(w) PROVE slots' = slots
  BY <1>2 DEF InitWorker
<1>3. ASSUME NEW w \in Workers, Closes(w) PROVE slots'[v][i] \in {Vacant, slots[v][i]}
  <2>1. PICK S : SlotClose(w, S)
    BY <1>3 DEF Closes
  <2>2. Exact(w)
    BY <1>0, <1>3 DEF Closes, LifeCycle
  <2>3. /\ \A u \in Workers \ {w} : slots'[u] = slots[u]
        /\ \A j \in Slots : slots'[w][j] = IF j \in S THEN Vacant ELSE slots[w][j]
    BY <1>0, <2>1, <2>2, SlotCloseKeeps
  <2> QED BY <2>3
<1> QED BY <1>0, <1>1, <1>2, <1>3, StepKinds

\* Every step keeps the events of each batch about the connections they were
\* reported for.
LEMMA BatchNotStaleStep ==
    ASSUME SlotsAccounted, LifeCycle, BatchNotStale, [Next]_vars
    PROVE  BatchNotStale'
<1>0. RestTypes /\ SlotTypes
  BY TypesSplit DEF SlotsAccounted
<1>1. \A e \in Events \ {Wake} : e.slot \in Slots
  BY DEF Events
<1>2. \A v \in Workers : batch[v] \in SUBSET Events
  BY <1>0 DEF RestTypes
<1>3. CASE \E w \in Workers : TryAccept(w)
  <2>1. PICK w \in Workers : TryAccept(w)
    BY <1>3
  <2>2. batch' = batch /\ batch[w] = {}
    BY <2>1 DEF TryAccept, LifeCycle
  <2>3. \A v \in Workers \ {w} : slots'[v] = slots[v]
    BY <1>0, <2>1 DEF TryAccept, slotVars, SlotTypes
  <2> QED BY <2>2, <2>3 DEF BatchNotStale
<1>4. CASE \A w \in Workers : ~TryAccept(w) /\ ~WaitEvents(w)
  <2>1. \A v \in Workers : \A i \in Slots : slots'[v][i] \in {Vacant, slots[v][i]}
    BY <1>4, SlotsOnlyCleared
  <2>2. \A v \in Workers : batch'[v] \subseteq batch[v]
    <3>1. CASE Main \/ AcceptConn \/ UNCHANGED vars
      BY <1>0, <3>1, MainMoves
    <3>2. ASSUME NEW w \in Workers, HandleWake(w) \/ HandleEvent(w)
          PROVE  \A v \in Workers : batch'[v] \subseteq batch[v]
      BY <1>0, <3>2 DEF HandleWake, HandleEvent, RestTypes
    <3>3. ASSUME NEW w \in Workers, InitWorker(w) \/ LoopTop(w) \/ EndBatch(w) \/ ExitWorker(w)
                   \/ WaitTimeout(w) \/ WaitInterrupted(w) \/ WaitFails(w) \/ Expire(w)
          PROVE  batch' = batch
      BY <3>3 DEF InitWorker, LoopTop, EndBatch, ExitWorker, WaitTimeout, WaitInterrupted,
         WaitFails, Expire
    <3> QED BY <1>4, <3>1, <3>2, <3>3 DEF Next, Run, Wait
  <2>3. ASSUME NEW v \in Workers, NEW e \in batch'[v] \ {Wake}
        PROVE  slots'[v][e.slot] \in {Vacant, e.conn}
    <3>1. e \in batch[v] \ {Wake}
      BY <2>2
    <3>2. e.slot \in Slots
      BY <3>1, <1>1, <1>2
    <3>3. slots[v][e.slot] \in {Vacant, e.conn}
      BY <3>1 DEF BatchNotStale
    <3> QED BY <2>1, <3>2, <3>3
  <2> QED BY <2>3 DEF BatchNotStale
<1>5. CASE \E w \in Workers : WaitEvents(w)
  <2>1. PICK w \in Workers : WaitEvents(w)
    BY <1>5
  <2>2. PICK B \in SUBSET Ready(w) : batch' = [batch EXCEPT ![w] = {Reported(w, e) : e \in B}]
    BY <2>1 DEF WaitEvents
  <2>3. slots' = slots
    BY <2>1 DEF WaitEvents, slotVars
  <2>4. ASSUME NEW e \in batch'[w] \ {Wake}
        PROVE  slots[w][e.slot] = e.conn
    <3>1. PICK r \in B : e = Reported(w, r)
      BY <1>0, <2>2 DEF RestTypes
    <3>2. r # Wake
      BY <3>1 DEF Reported
    <3> QED BY <3>1, <3>2 DEF Reported
  <2>5. \A v \in Workers \ {w} : batch'[v] = batch[v]
    BY <1>0, <2>2 DEF RestTypes
  <2> QED BY <2>3, <2>4, <2>5 DEF BatchNotStale
<1> QED BY <1>3, <1>4, <1>5

-----------------------------------------------------------------------------
(* Where connections are. *)

Distinct(q) == \A i, j \in 1 .. Len(q) : q[i] = q[j] => i = j
Members(q) == {q[j] : j \in 1 .. Len(q)}

\* Queueing a new connection.
LEMMA AppendMembers ==
    ASSUME NEW q \in Seq(Conns), NEW c \in Conns, c \notin Members(q), Distinct(q)
    PROVE  Members(Append(q, c)) = Members(q) \cup {c} /\ Distinct(Append(q, c))
<1> DEFINE n == Len(q)
           a == Append(q, c)
<1>1. n \in Nat /\ Len(a) = n + 1 /\ a[n + 1] = c /\ \A j \in 1 .. n : a[j] = q[j]
  OBVIOUS
<1>2. Members(q) = {q[j] : j \in 1 .. n} /\ Members(a) = {a[j] : j \in 1 .. n + 1}
  BY <1>1 DEF Members
<1>3. \A i, j \in 1 .. n : q[i] = q[j] => i = j
  BY DEF Distinct
<1> HIDE DEF n, a
<1>4. \A j \in 1 .. n + 1 : j \in 1 .. n \/ j = n + 1
  BY <1>1
<1>5. n + 1 \in 1 .. n + 1 /\ \A j \in 1 .. n : j \in 1 .. n + 1
  BY <1>1
<1>6. Members(a) = Members(q) \cup {c}
  BY <1>1, <1>2, <1>4, <1>5
<1>7. \A j \in 1 .. n : q[j] # c
  BY <1>2
<1>8. \A i, j \in 1 .. n + 1 : a[i] = a[j] => i = j
  BY <1>1, <1>3, <1>4, <1>7
<1> QED BY <1>1, <1>6, <1>8 DEF Distinct, a

\* Taking the oldest one.
LEMMA TailMembers ==
    ASSUME NEW q \in Seq(Conns), q # <<>>, Distinct(q)
    PROVE  /\ Members(Tail(q)) = Members(q) \ {Head(q)} /\ Distinct(Tail(q))
           /\ Head(q) \in Members(q)
<1> DEFINE n == Len(q)
           t == Tail(q)
<1>1. n \in Nat /\ n # 0 /\ Len(t) = n - 1 /\ Head(q) = q[1] /\ \A j \in 1 .. n - 1 : t[j] = q[j + 1]
  OBVIOUS
<1>2. Members(q) = {q[j] : j \in 1 .. n} /\ Members(t) = {t[j] : j \in 1 .. n - 1}
  BY <1>1 DEF Members
<1>3. \A i, j \in 1 .. n : q[i] = q[j] => i = j
  BY DEF Distinct
<1> HIDE DEF n, t
<1>4. \A j \in 1 .. n : j = 1 \/ j - 1 \in 1 .. n - 1
  BY <1>1
<1>5. 1 \in 1 .. n /\ \A j \in 1 .. n - 1 : j + 1 \in 1 .. n /\ j + 1 # 1
  BY <1>1
<1>6. ASSUME NEW x \in Members(q) \ {Head(q)} PROVE x \in Members(t)
  <2>1. PICK j \in 1 .. n : x = q[j]
    BY <1>2
  <2>2. j - 1 \in 1 .. n - 1 /\ t[j - 1] = q[(j - 1) + 1] /\ (j - 1) + 1 = j
    BY <1>1, <1>4, <2>1
  <2> QED BY <1>2, <2>1, <2>2
<1>7. ASSUME NEW x \in Members(t) PROVE x \in Members(q) \ {Head(q)}
  <2>1. PICK j \in 1 .. n - 1 : x = q[j + 1]
    BY <1>1, <1>2
  <2> QED BY <1>1, <1>2, <1>3, <1>5, <2>1
<1>8. \A i, j \in 1 .. n - 1 : t[i] = t[j] => i = j
  <2>1. \A i, j \in 1 .. n - 1 : i + 1 = j + 1 => i = j
    OBVIOUS
  <2> QED BY <1>1, <1>3, <1>5, <2>1
<1>9. Head(q) \in Members(q)
  BY <1>1, <1>2, <1>5
<1> QED BY <1>1, <1>6, <1>7, <1>8, <1>9 DEF Distinct, t


\* Who holds a connection.
Holder(t, x) == \E w \in Workers, i \in Slots : t[w][i] = x

LEMMA HeldIs ==
    /\ \A x : x \in Held <=> x # Vacant /\ Holder(slots, x)
    /\ \A x : x \in Held' <=> x # Vacant /\ Holder(slots', x)
<1>1. ASSUME NEW t, NEW x
      PROVE  x \in {t[at[1]][at[2]] : at \in Workers \X Slots} <=> Holder(t, x)
  <2>1. ASSUME NEW w \in Workers, NEW i \in Slots, t[w][i] = x
        PROVE  x \in {t[at[1]][at[2]] : at \in Workers \X Slots}
    <3>1. <<w, i>> \in Workers \X Slots /\ <<w, i>>[1] = w /\ <<w, i>>[2] = i
      OBVIOUS
    <3> QED BY <2>1, <3>1
  <2>2. \A at \in Workers \X Slots : at[1] \in Workers /\ at[2] \in Slots
    OBVIOUS
  <2> QED BY <2>1, <2>2 DEF Holder
<1> QED BY <1>1 DEF Held

Single(t) ==
    \A w, v \in Workers : \A i, j \in Slots :
        t[w][i] = t[v][j] /\ t[w][i] # Vacant => w = v /\ i = j

LEMMA PlacesSplit ==
    /\ Places <=> /\ Members(queue) \cup Held \cup closed = 1 .. accepted
                  /\ Members(queue) \cap Held = {} /\ Members(queue) \cap closed = {}
                  /\ Held \cap closed = {}
                  /\ Distinct(queue) /\ Single(slots)
    /\ Places' <=> /\ Members(queue') \cup Held' \cup closed' = 1 .. accepted'
                   /\ Members(queue') \cap Held' = {} /\ Members(queue') \cap closed' = {}
                   /\ Held' \cap closed' = {}
                   /\ Distinct(queue') /\ Single(slots')
BY DEF Places, Queued, Members, Distinct, Single

\* accept4: the new connection is queued or closed.
LEMMA AcceptPlaces ==
    ASSUME RestTypes, Places, AcceptConn
    PROVE  Places'
<1> DEFINE c == accepted + 1
<1>1. accepted \in Nat /\ c \in Conns /\ accepted' = c /\ slots' = slots
  BY SizesAssumption DEF RestTypes, AcceptConn, Conns, slotVars
<1>2. 1 .. accepted' = (1 .. accepted) \cup {c} /\ c \notin 1 .. accepted
  BY <1>1
<1>3. Held' = Held
  BY <1>1 DEF Held
<1>4. c \notin Members(queue) /\ c \notin Held /\ c \notin closed
  BY <1>2, PlacesSplit
<1>5. CASE queue' = Append(queue, c) /\ closed' = closed
  <2>1. Members(queue') = Members(queue) \cup {c} /\ Distinct(queue')
    BY <1>1, <1>4, <1>5, AppendMembers, PlacesSplit DEF RestTypes
  <2> HIDE DEF c
  <2> QED BY <1>1, <1>2, <1>3, <1>4, <1>5, <2>1, PlacesSplit
<1>6. CASE queue' = queue /\ closed' = closed \cup {c}
  <2> HIDE DEF c
  <2> QED BY <1>1, <1>2, <1>3, <1>4, <1>6, PlacesSplit
<1> QED BY <1>1, <1>5, <1>6 DEF AcceptConn

\* slot_close moves connections from slots to the closed ones.
LEMMA ClosePlaces ==
    ASSUME SlotTypes, Places, NEW w \in Workers, Exact(w), NEW S, SlotClose(w, S),
           UNCHANGED <<queue, accepted>>
    PROVE  Places'
<1> DEFINE C == {slots[w][i] : i \in S \cap Active(w)}
<1>1. /\ \A v \in Workers \ {w} : slots'[v] = slots[v]
      /\ \A i \in Slots : slots'[w][i] = IF i \in S THEN Vacant ELSE slots[w][i]
      /\ closed' = closed \cup C
  BY SlotCloseKeeps
<1>2. C \subseteq Held
  BY HeldIs DEF Holder, Active
<1>3. ASSUME NEW x \in C PROVE x \notin Held'
  <2>1. PICK i \in S \cap Active(w) : x = slots[w][i]
    OBVIOUS
  <2>2. i \in Slots /\ x # Vacant
    BY <2>1 DEF Active
  <2>3. ASSUME NEW v \in Workers, NEW j \in Slots PROVE slots'[v][j] # x
    <3>1. CASE slots[v][j] = x
      <4>1. v = w /\ j = i
        BY <2>1, <2>2, <3>1, PlacesSplit DEF Single
      <4> QED BY <1>1, <2>1, <2>2, <4>1
    <3>2. CASE slots[v][j] # x
      BY <1>1, <2>2, <3>2
    <3> QED BY <3>1, <3>2
  <2> QED BY <2>3, HeldIs DEF Holder
<1>4. ASSUME NEW x \in Held \ C PROVE x \in Held'
  <2>1. PICK v \in Workers, j \in Slots : slots[v][j] = x
    BY HeldIs DEF Holder
  <2>2. x # Vacant
    BY HeldIs
  <2>3. slots'[v][j] = x
    BY <1>1, <2>1, <2>2 DEF Active
  <2> QED BY <2>2, <2>3, HeldIs DEF Holder
<1>5. ASSUME NEW x \in Held' PROVE x \in Held
  <2>1. x # Vacant
    BY HeldIs
  <2>2. PICK v \in Workers, j \in Slots : slots'[v][j] = x
    BY HeldIs DEF Holder
  <2> QED BY <1>1, <2>1, <2>2, HeldIs DEF Holder
<1>6. Single(slots')
  <2>1. \A v \in Workers : \A j \in Slots : slots'[v][j] # Vacant => slots'[v][j] = slots[v][j]
    BY <1>1
  <2> QED BY <2>1, PlacesSplit DEF Single
<1> HIDE DEF C
<1>7. Held' = Held \ C
  BY <1>3, <1>4, <1>5
<1> QED BY <1>1, <1>2, <1>6, <1>7, PlacesSplit

\* try_accept_one moves the oldest queued connection to a vacant slot, or closes it.
LEMMA TryAcceptPlaces ==
    ASSUME RestTypes, SlotTypes, Places, NEW w \in Workers, Exact(w), TryAccept(w)
    PROVE  Places'
<1> DEFINE h == Head(queue)
<1>0. accepted' = accepted
  BY DEF TryAccept, mainVars
<1>1. CASE UNCHANGED <<queue, slots, closed>>
  <2>1. Held' = Held
    BY <1>1 DEF Held
  <2> QED BY <1>0, <1>1, <2>1, PlacesSplit
<1>2. CASE queue # <<>> /\ queue' = Tail(queue) /\ closed' = closed \cup {h} /\ slots' = slots
  <2>1. Members(queue') = Members(queue) \ {h} /\ Distinct(queue') /\ h \in Members(queue)
    BY <1>2, TailMembers, PlacesSplit DEF RestTypes
  <2>2. Held' = Held
    BY <1>2 DEF Held
  <2> HIDE DEF h
  <2> QED BY <1>0, <1>2, <2>1, <2>2, PlacesSplit
<1>3. CASE /\ free[w] # <<>> /\ queue # <<>> /\ queue' = Tail(queue)
           /\ slots' = [slots EXCEPT ![w][Last(free[w])] = h]
           /\ free' = [free EXCEPT ![w] = Front(free[w])]
           /\ nactive' = [nactive EXCEPT ![w] = nactive[w] + 1]
           /\ UNCHANGED <<expired, closed>>
  <2>1. /\ Members(queue') = Members(queue) \ {h} /\ Distinct(queue') /\ h \in Members(queue)
        /\ h \in Conns
    BY <1>3, TailMembers, TailTyped, PlacesSplit DEF RestTypes
  <2> HIDE DEF h
  <2> DEFINE s == Last(free[w])
  <2>2. s \in Slots /\ slots[w][s] = Vacant
    BY <1>3, <2>1, FillSlotKeeps
  <2>3. slots' = [slots EXCEPT ![w] = [slots[w] EXCEPT ![s] = h]]
    BY <1>3
  <2> HIDE DEF s
  <2>4. \A v \in Workers, j \in Slots :
           slots'[v][j] = IF v = w /\ j = s THEN h ELSE slots[v][j]
    BY <2>2, <2>3 DEF SlotTypes
  <2>5. h # Vacant
    BY <2>1, SizesAssumption DEF Conns, Vacant
  <2>6. Held' = Held \cup {h}
    <3>1. ASSUME NEW x \in Held PROVE x \in Held'
      <4>1. x # Vacant
        BY HeldIs
      <4>2. PICK v \in Workers, j \in Slots : slots[v][j] = x
        BY HeldIs DEF Holder
      <4>3. slots'[v][j] = x
        BY <2>2, <2>4, <4>1, <4>2
      <4> QED BY <4>1, <4>3, HeldIs DEF Holder
    <3>2. h \in Held'
      BY <2>2, <2>4, <2>5, HeldIs DEF Holder
    <3>3. ASSUME NEW x \in Held' PROVE x \in Held \cup {h}
      <4>1. x # Vacant
        BY HeldIs
      <4>2. PICK v \in Workers, j \in Slots : slots'[v][j] = x
        BY HeldIs DEF Holder
      <4>3. x = h \/ slots[v][j] = x
        BY <2>4, <4>2
      <4> QED BY <4>1, <4>3, HeldIs DEF Holder
    <3> QED BY <3>1, <3>2, <3>3
  <2>7. \A v \in Workers, j \in Slots : slots[v][j] # h
    <3>1. h \notin Held
      BY <2>1, PlacesSplit
    <3> QED BY <2>5, <3>1, HeldIs DEF Holder
  <2>8. Single(slots')
    <3>1. Single(slots)
      BY PlacesSplit
    <3> QED BY <2>4, <2>7, <3>1 DEF Single
  <2> QED BY <1>0, <1>3, <2>1, <2>6, <2>8, PlacesSplit
<1> QED BY <1>1, <1>2, <1>3 DEF TryAccept, slotVars

\* Every step keeps every connection in one place.
LEMMA PlacesStep ==
    ASSUME SlotsAccounted, LifeCycle, Places, [Next]_vars
    PROVE  Places'
<1>0. TypeOK /\ RestTypes /\ SlotTypes /\ \A u \in Workers : Running(u) => Exact(u)
  BY TypesSplit DEF SlotsAccounted, LifeCycle
<1>1. CASE UNCHANGED <<slots, closed, queue, accepted>>
  <2>1. Held' = Held
    BY <1>1 DEF Held
  <2> QED BY <1>1, <2>1, PlacesSplit
<1>2. CASE AcceptConn
  BY <1>0, <1>2, AcceptPlaces
<1>3. ASSUME NEW w \in Workers, InitWorker(w) PROVE UNCHANGED <<slots, closed, queue, accepted>>
  BY <1>3 DEF InitWorker
<1>4. ASSUME NEW w \in Workers, TryAccept(w) PROVE Places'
  <2>1. Exact(w)
    BY <1>0, <1>4 DEF TryAccept, Running
  <2> QED BY <1>0, <1>4, <2>1, TryAcceptPlaces
<1>5. ASSUME NEW w \in Workers, Closes(w) PROVE Places'
  <2>1. PICK S : SlotClose(w, S)
    BY <1>5 DEF Closes
  <2>2. Exact(w) /\ UNCHANGED <<queue, accepted>>
    BY <1>0, <1>5 DEF Closes
  <2> QED BY <1>0, <2>1, <2>2, ClosePlaces
<1> QED BY <1>0, <1>1, <1>2, <1>3, <1>4, <1>5, StepKinds DEF Idle

-----------------------------------------------------------------------------
(* The theorems. *)

LEMMA PoolInvInit == Init => PoolInv
<1> SUFFICES ASSUME Init PROVE PoolInv
  OBVIOUS
<1> USE SizesAssumption DEF Init
<1>1. RestTypes
  <2>1. queue \in Seq(Conns) /\ Len(queue) <= QueueSize
    OBVIOUS
  <2>2. /\ 0 \in 0 .. NWorkers /\ 0 \in 0 .. MaxConns /\ 0 \in 0 .. SweepEvery - 1
        /\ MaxDisturb \in 0 .. MaxDisturb
    OBVIOUS
  <2>3. /\ status \in [Workers -> {-1, 0, 1}] /\ loop \in [Workers -> 0 .. SweepEvery - 1]
        /\ batch \in [Workers -> SUBSET Events]
        /\ wpc \in [Workers -> {"none", "init", "loop", "accept", "wait", "events", "exit", "done"}]
    BY <2>2
  <2> QED BY <2>1, <2>2, <2>3 DEF RestTypes
<1>2. SlotTypes
  BY DEF SlotTypes, Conns, Vacant
<1>3. SlotsAccounted
  BY <1>1, <1>2, TypesSplit DEF SlotsAccounted
<1>4. LifeCycle
  BY DEF LifeCycle, Running
<1>5. BatchNotStale
  BY DEF BatchNotStale
<1>6. Places
  <2>1. \A w \in Workers, i \in Slots : slots[w][i] = Vacant
    OBVIOUS
  <2>2. Held = {} /\ Single(slots)
    BY <2>1, HeldIs DEF Holder, Single
  <2>3. Members(queue) = {} /\ Distinct(queue)
    BY DEF Members, Distinct
  <2>4. 1 .. accepted = {} /\ closed = {}
    OBVIOUS
  <2> QED BY <2>2, <2>3, <2>4, PlacesSplit
<1> QED BY <1>3, <1>4, <1>5, <1>6 DEF PoolInv

LEMMA PoolInvStep == PoolInv /\ [Next]_vars => PoolInv'
<1> SUFFICES ASSUME PoolInv, [Next]_vars PROVE PoolInv'
  OBVIOUS
<1>0. SlotsAccounted /\ LifeCycle /\ BatchNotStale /\ Places
  BY DEF PoolInv
<1>1. SlotsAccounted'
  <2>1. SlotTypes' /\ \A v \in Workers : status'[v] = 1 => Exact(v)'
    BY <1>0, SlotsStep
  <2>2. RestTypes'
    BY <1>0, RestTypesStep, TypesSplit DEF SlotsAccounted
  <2>3. TypeOK'
    BY <2>1, <2>2 DEF TypeOK, RestTypes, SlotTypes
  <2> QED BY <2>1, <2>3 DEF SlotsAccounted
<1>2. LifeCycle'
  BY <1>0, LifeCycleStep
<1>3. BatchNotStale'
  BY <1>0, BatchNotStaleStep
<1>4. Places'
  BY <1>0, PlacesStep
<1> QED BY <1>1, <1>2, <1>3, <1>4 DEF PoolInv

\* The invariant of the pool, for any number of workers, slots and connections and
\* whichever calls fail.
THEOREM PoolInvariant == Spec => []PoolInv
<1>1. Init => PoolInv
  BY PoolInvInit
<1>2. PoolInv /\ [Next]_vars => PoolInv'
  BY PoolInvStep
<1> QED BY <1>1, <1>2, PTL DEF Spec

\* The free stacks and counts of active slots kept by try_accept_one and slot_close
\* are exact, so that no slot is lost or given out twice and every worker with an
\* active slot sweeps deadlines.
THEOREM SlotsAreAccounted == Spec => []SlotsAccounted
<1>1. PoolInv => SlotsAccounted
  BY DEF PoolInv
<1> QED BY <1>1, PoolInvariant, PTL

\* No event of a batch acts on a connection that took over the slot after
\* epoll_wait returned, although an event names only the slot.
THEOREM NoEventIsStale == Spec => []BatchNotStale
<1>1. PoolInv => BatchNotStale
  BY DEF PoolInv
<1> QED BY <1>1, PoolInvariant, PTL

\* Every accepted connection is in the queue once, in one slot of one worker, or
\* closed: none leaks and none is served twice.
THEOREM EveryConnInOnePlace == Spec => []OnePlace
<1>1. PoolInv => OnePlace
  <2> SUFFICES ASSUME PoolInv, NEW c \in 1 .. accepted
               PROVE  Cardinality({j \in 1 .. Len(queue) : queue[j] = c})
                        + Cardinality({at \in Workers \X Slots : slots[at[1]][at[2]] = c})
                        + (IF c \in closed THEN 1 ELSE 0) = 1
    BY DEF OnePlace
  <2> DEFINE Q == {j \in 1 .. Len(queue) : queue[j] = c}
             H == {at \in Workers \X Slots : slots[at[1]][at[2]] = c}
  <2>0. c # Vacant /\ Places
    BY SizesAssumption DEF PoolInv, SlotsAccounted, TypeOK, Vacant
  <2>1. Q # {} <=> c \in Queued
    BY DEF Queued
  <2>2. H # {} <=> c \in Held
    BY <2>0 DEF Held
  <2>3. \A i, j \in Q : i = j
    BY <2>0 DEF Places
  <2>4. \A a, b \in H : a = b
    <3> SUFFICES ASSUME NEW a \in H, NEW b \in H PROVE a = b
      OBVIOUS
    <3>1. a[1] = b[1] /\ a[2] = b[2]
      BY <2>0 DEF Places
    <3> QED BY <3>1
  <2> HIDE DEF Q, H
  <2>5. (Q = {} /\ Cardinality(Q) = 0) \/ (Q # {} /\ Cardinality(Q) = 1)
    <3>1. CASE Q # {}
      <4>1. PICK x \in Q : Q = {x}
        BY <3>1, <2>3
      <4> QED BY <4>1, <3>1, FS_Singleton
    <3> QED BY <3>1, FS_EmptySet
  <2>6. (H = {} /\ Cardinality(H) = 0) \/ (H # {} /\ Cardinality(H) = 1)
    <3>1. CASE H # {}
      <4>1. PICK x \in H : H = {x}
        BY <3>1, <2>4
      <4> QED BY <4>1, <3>1, FS_Singleton
    <3> QED BY <3>1, FS_EmptySet
  <2>7. \/ c \in Queued /\ c \notin Held /\ c \notin closed
        \/ c \notin Queued /\ c \in Held /\ c \notin closed
        \/ c \notin Queued /\ c \notin Held /\ c \in closed
    BY <2>0 DEF Places
  <2>8. Cardinality(Q) + Cardinality(H) + (IF c \in closed THEN 1 ELSE 0) = 1
    BY <2>1, <2>2, <2>5, <2>6, <2>7
  <2> QED BY <2>8 DEF Q, H
<1> QED BY <1>1, PoolInvariant, PTL


-----------------------------------------------------------------------------
(* No wake-up is lost. *)

Towards(w) == wpc[w] \in {"loop", "accept", "events"} \/ free[w] = <<>>

\* A worker's step leaves some worker on the way to the queue, or full.
LEMMA TowardsStep ==
    ASSUME TypeOK, NoLostWakeup, mpc = "accept", NEW w \in Workers,
           Run(w) \/ Wait(w) \/ Expire(w), ~WaitFails(w), queue' # <<>>,
           ~wake', \E v \in Workers : Towards(v)
    PROVE  \E v \in Workers : Towards(v)'
<1>0. wpc \in [Workers -> {"none", "init", "loop", "accept", "wait", "events", "exit", "done"}]
  BY DEF TypeOK
<1>1. free \in [Workers -> Seq(Slots)]
  BY DEF TypeOK
<1>2. ~stop /\ wpc[w] # "exit"
  BY DEF NoLostWakeup
<1> SUFFICES Towards(w)' \/ \A v \in Workers : Towards(v) => Towards(v)'
  OBVIOUS
<1> USE DEF Towards
<1>3. CASE InitWorker(w)
  BY <1>0, <1>1, <1>3 DEF InitWorker
<1>4. CASE LoopTop(w)
  BY <1>0, <1>2, <1>4 DEF LoopTop
<1>5. CASE TryAccept(w)
  BY <1>0, <1>1, <1>5 DEF TryAccept, slotVars
<1>6. CASE HandleWake(w) \/ HandleEvent(w) \/ EndBatch(w)
  BY <1>0, <1>6 DEF HandleWake, HandleEvent, EndBatch
<1>7. CASE WaitEvents(w) \/ WaitTimeout(w) \/ WaitInterrupted(w)
  BY <1>0, <1>7 DEF WaitEvents, WaitTimeout, WaitInterrupted
<1>8. CASE Expire(w)
  BY <1>8 DEF Expire
<1>9. CASE ExitWorker(w)
  BY <1>2, <1>9 DEF ExitWorker
<1> QED BY <1>3, <1>4, <1>5, <1>6, <1>7, <1>8, <1>9 DEF Run, Wait

LEMMA NoLostWakeupStep ==
    ASSUME "wait" \notin Faults, PoolInv, NoLostWakeup, [Next]_vars
    PROVE  NoLostWakeup'
<1> DEFINE Up == {"create", "await", "accept", "notify"}
<1>0. RestTypes /\ TypeOK
  BY TypesSplit DEF PoolInv, SlotsAccounted
<1>1. CASE Main \/ AcceptConn \/ UNCHANGED vars
  <2>1. mpc' \in Up => ~stop' /\ \A w \in Workers : wpc'[w] # "exit"
    <3>1. CASE CreateWorker
      BY <1>0, <3>1 DEF CreateWorker, NoLostWakeup, RestTypes
    <3>2. CASE AwaitWorker \/ AcceptConn
      BY <3>2 DEF AwaitWorker, AcceptConn, NoLostWakeup
    <3>3. CASE NotifyFailure \/ NotifyQueued \/ DestroyStop \/ DestroyNotify \/ JoinWorker
      BY <3>3 DEF NotifyFailure, NotifyQueued, DestroyStop, DestroyNotify, JoinWorker, NoLostWakeup
    <3>4. CASE UNCHANGED vars
      BY <3>4 DEF vars, mainVars, NoLostWakeup
    <3> QED BY <1>1, <3>1, <3>2, <3>3, <3>4 DEF Main
  <2>2. mpc' \in {"create", "await"} => queue' = <<>>
    BY <1>1 DEF Main, CreateWorker, AwaitWorker, NotifyFailure, NotifyQueued, DestroyStop,
       DestroyNotify, JoinWorker, AcceptConn, vars, mainVars, NoLostWakeup
  <2>3. mpc' = "accept" /\ queue' # <<>> /\ ~wake' => \E w \in Workers : Towards(w)'
    <3>1. CASE AwaitWorker
      BY <3>1 DEF AwaitWorker, NoLostWakeup
    <3>2. CASE CreateWorker \/ NotifyFailure \/ NotifyQueued \/ DestroyStop \/ DestroyNotify \/ JoinWorker
      BY <3>2 DEF CreateWorker, NotifyFailure, NotifyQueued, DestroyStop, DestroyNotify, JoinWorker
    <3>3. CASE AcceptConn \/ UNCHANGED vars
      BY <3>3 DEF AcceptConn, vars, mainVars, slotVars, NoLostWakeup, Towards
    <3> QED BY <1>1, <3>1, <3>2, <3>3 DEF Main
  <2> QED BY <2>1, <2>2, <2>3 DEF NoLostWakeup, Towards
<1>2. ASSUME NEW w \in Workers, Run(w) \/ Wait(w) \/ Expire(w) PROVE NoLostWakeup'
  <2>0. mpc' = mpc /\ ~WaitFails(w)
    BY <1>0, <1>2, WorkerMoves DEF WaitFails
  <2>1. ASSUME mpc \in Up PROVE ~stop' /\ \A v \in Workers : wpc'[v] # "exit"
    <3>1. ~stop /\ \A v \in Workers : wpc[v] # "exit"
      BY <2>1 DEF NoLostWakeup
    <3>2. wpc \in [Workers -> {"none", "init", "loop", "accept", "wait", "events", "exit", "done"}]
      BY <1>0 DEF RestTypes
    <3>3. CASE InitWorker(w) \/ LoopTop(w)
      BY <3>1, <3>2, <3>3 DEF InitWorker, LoopTop
    <3>4. CASE TryAccept(w)
      BY <3>1, <3>2, <3>4 DEF TryAccept
    <3>5. CASE HandleWake(w) \/ HandleEvent(w) \/ EndBatch(w) \/ ExitWorker(w) \/ Expire(w)
      BY <3>1, <3>2, <3>5 DEF HandleWake, HandleEvent, EndBatch, ExitWorker, Expire
    <3>6. CASE WaitEvents(w) \/ WaitTimeout(w) \/ WaitInterrupted(w)
      BY <3>1, <3>2, <3>6 DEF WaitEvents, WaitTimeout, WaitInterrupted
    <3> QED BY <1>2, <2>0, <3>3, <3>4, <3>5, <3>6 DEF Run, Wait
  <2>2. queue = <<>> => queue' = <<>>
    BY <1>2 DEF Run, Wait, InitWorker, LoopTop, TryAccept, HandleWake, HandleEvent, EndBatch,
       ExitWorker, WaitEvents, WaitTimeout, WaitInterrupted, WaitFails, Expire
  <2>3. ASSUME mpc = "accept", queue' # <<>>, ~wake' PROVE \E v \in Workers : Towards(v)'
    <3>1. CASE ~wake
      <4>1. \E v \in Workers : Towards(v)
        BY <2>2, <2>3, <3>1 DEF NoLostWakeup, Towards
      <4> QED BY <1>0, <1>2, <2>0, <2>3, <4>1, TowardsStep
    <3>2. CASE wake
      <4>1. HandleWake(w)
        BY <1>2, <2>3, <3>2 DEF Run, Wait, InitWorker, LoopTop, TryAccept, HandleEvent, EndBatch,
           ExitWorker, WaitEvents, WaitTimeout, WaitInterrupted, WaitFails, Expire
      <4> QED BY <4>1 DEF HandleWake, Towards
    <3> QED BY <3>1, <3>2
  <2> QED BY <2>0, <2>1, <2>2, <2>3 DEF NoLostWakeup, Towards
<1> QED BY <1>1, <1>2 DEF Next

\* Unless epoll_wait itself fails in some worker, a connection waits in the queue
\* with everybody asleep only while some worker has no slot left: although the
\* eventfd is shared and any worker that sees it drains it for all, its wake-up is
\* not lost to a worker that finds the queue empty.
THEOREM NoWakeupIsLost ==
    ASSUME "wait" \notin Faults
    PROVE  Spec => []QueuedOnlyWhenSomeFull
<1>1. Init => NoLostWakeup
  BY DEF Init, NoLostWakeup
<1>2. PoolInv /\ NoLostWakeup /\ [Next]_vars => NoLostWakeup'
  BY NoLostWakeupStep
<1>3. PoolInv /\ NoLostWakeup => QueuedOnlyWhenSomeFull
  BY DEF NoLostWakeup, QueuedOnlyWhenSomeFull, Quiescent
<1> QED BY <1>1, <1>2, <1>3, PoolInvariant, PTL DEF Spec
=============================================================================
