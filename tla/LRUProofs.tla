------------------------------- MODULE LRUProofs -------------------------------
(***************************************************************************)
(* What the list operations of the policy caches preserve: the absence of  *)
(* duplicates, and which keys are listed.                                  *)
(***************************************************************************)
EXTENDS LRU, TLAPS

LEMMA PositionIs ==
  ASSUME NEW S, NEW list \in Seq(S), NEW k \in Listed(list)
  PROVE  PositionOf(list, k) \in 1..Len(list) /\ list[PositionOf(list, k)] = k
  BY DEF PositionOf, Listed

LEMMA PushFrontKeys ==
  ASSUME NEW S, NEW list \in Seq(S), NoDuplicates(list), NEW k \in S, k \notin Listed(list)
  PROVE  /\ PushFront(list, k) \in Seq(S)
         /\ Len(PushFront(list, k)) = Len(list) + 1
         /\ NoDuplicates(PushFront(list, k))
         /\ Listed(PushFront(list, k)) = Listed(list) \cup {k}
<1> DEFINE new == PushFront(list, k)
<1>0. Len(list) \in Nat /\ \A i \in 1..Len(list) : list[i] \in S
  OBVIOUS
<1>1. new \in [1..(Len(list) + 1) -> S]
  BY <1>0 DEF PushFront
<1>2. new \in Seq(S) /\ Len(new) = Len(list) + 1
  BY <1>0, <1>1
<1>3. new[1] = k /\ \A i \in 1..Len(list) : new[i + 1] = list[i]
  BY <1>0 DEF PushFront
<1>4. \A i \in 1..Len(new) : i = 1 \/ (i - 1 \in 1..Len(list) /\ new[i] = list[i - 1])
  BY <1>0, <1>2 DEF PushFront
<1> HIDE DEF new
<1>5. NoDuplicates(new)
  <2> SUFFICES ASSUME NEW i \in 1..Len(new), NEW j \in 1..Len(new), new[i] = new[j]
               PROVE  i = j
    BY DEF NoDuplicates
  <2>0. \A m \in 1..Len(list) : list[m] # k
    BY DEF Listed
  <2>1. CASE i = 1
    BY <1>3, <1>4, <2>0, <2>1
  <2>2. CASE j = 1
    BY <1>3, <1>4, <2>0, <2>2
  <2>3. CASE i # 1 /\ j # 1
    <3>1. i - 1 \in 1..Len(list) /\ j - 1 \in 1..Len(list) /\ list[i - 1] = list[j - 1]
      BY <1>4, <2>3
    <3>2. i - 1 = j - 1
      BY <3>1 DEF NoDuplicates
    <3> QED BY <1>0, <1>2, <3>2
  <2> QED BY <2>1, <2>2, <2>3
<1>6. Listed(new) = Listed(list) \cup {k}
  <2>1. Listed(new) \subseteq Listed(list) \cup {k}
    <3> SUFFICES ASSUME NEW i \in 1..Len(new)
                 PROVE  new[i] \in Listed(list) \cup {k}
      BY DEF Listed
    <3> QED BY <1>3, <1>4 DEF Listed
  <2>2. \A i \in 1..Len(list) : i + 1 \in 1..Len(new)
    BY <1>0, <1>2
  <2>3. 1 \in 1..Len(new)
    BY <1>0, <1>2
  <2>4. Listed(list) \cup {k} \subseteq Listed(new)
    BY <1>3, <2>2, <2>3 DEF Listed
  <2> QED BY <2>1, <2>4
<1> QED BY <1>2, <1>5, <1>6 DEF new

LEMMA RemoveKeyKeys ==
  ASSUME NEW S, NEW list \in Seq(S), NoDuplicates(list), NEW k \in Listed(list)
  PROVE  /\ RemoveKey(list, k) \in Seq(S)
         /\ Len(RemoveKey(list, k)) = Len(list) - 1
         /\ NoDuplicates(RemoveKey(list, k))
         /\ Listed(RemoveKey(list, k)) = Listed(list) \ {k}
<1> DEFINE new == RemoveKey(list, k)
           p == PositionOf(list, k)
<1>0. /\ Len(list) \in Nat /\ \A i \in 1..Len(list) : list[i] \in S
      /\ p \in 1..Len(list) /\ list[p] = k
  BY PositionIs
<1>1. new = [i \in 1..(Len(list) - 1) |-> IF i < p THEN list[i] ELSE list[i + 1]]
  BY DEF RemoveKey
<1> HIDE DEF new, p
<1>2. new \in [1..(Len(list) - 1) -> S]
  BY <1>0, <1>1
<1>3. new \in Seq(S) /\ Len(new) = Len(list) - 1
  BY <1>0, <1>2
<1>4. \A i \in 1..Len(new) :
         \/ i < p /\ new[i] = list[i]
         \/ i >= p /\ new[i] = list[i + 1]
  BY <1>0, <1>1, <1>3
<1>5. NoDuplicates(new)
  BY <1>0, <1>3, <1>4 DEF NoDuplicates
<1>6. Listed(new) \subseteq Listed(list) \ {k}
  <2> SUFFICES ASSUME NEW i \in 1..Len(new)
               PROVE  new[i] \in Listed(list) /\ new[i] # k
    BY DEF Listed
  <2>1. CASE i < p
    BY <1>0, <1>3, <1>4, <2>1 DEF Listed, NoDuplicates
  <2>2. CASE i >= p
    BY <1>0, <1>3, <1>4, <2>2 DEF Listed, NoDuplicates
  <2> QED BY <1>0, <1>3, <2>1, <2>2
<1>7. Listed(list) \ {k} \subseteq Listed(new)
  <2> SUFFICES ASSUME NEW j \in 1..Len(list), list[j] # k
               PROVE  \E i \in 1..Len(new) : new[i] = list[j]
    BY DEF Listed
  <2>1. CASE j < p
    BY <1>0, <1>3, <1>4, <2>1
  <2>2. CASE j > p
    <3>1. j - 1 \in 1..Len(new) /\ new[j - 1] = list[j]
      BY <1>0, <1>3, <1>4, <2>2
    <3> QED BY <3>1
  <2> QED BY <1>0, <2>1, <2>2
<1> QED BY <1>3, <1>5, <1>6, <1>7 DEF new

LEMMA MoveToFrontKeys ==
  ASSUME NEW S, NEW list \in Seq(S), NoDuplicates(list), NEW k \in Listed(list)
  PROVE  /\ MoveToFront(list, k) \in Seq(S)
         /\ Len(MoveToFront(list, k)) = Len(list)
         /\ NoDuplicates(MoveToFront(list, k))
         /\ Listed(MoveToFront(list, k)) = Listed(list)
<1> DEFINE rest == RemoveKey(list, k)
<1>1. k \in S /\ Len(list) \in Nat
  BY DEF Listed
<1>2. rest \in Seq(S) /\ NoDuplicates(rest) /\ Listed(rest) = Listed(list) \ {k}
      /\ Len(rest) = Len(list) - 1
  BY RemoveKeyKeys
<1> HIDE DEF rest
<1>3. /\ PushFront(rest, k) \in Seq(S) /\ Len(PushFront(rest, k)) = Len(rest) + 1
      /\ NoDuplicates(PushFront(rest, k))
      /\ Listed(PushFront(rest, k)) = Listed(rest) \cup {k}
  BY <1>1, <1>2, PushFrontKeys
<1>4. MoveToFront(list, k) = PushFront(rest, k)
  BY DEF MoveToFront, rest
<1>5. (Listed(list) \ {k}) \cup {k} = Listed(list)
  OBVIOUS
<1>6. (Len(list) - 1) + 1 = Len(list)
  BY <1>1
<1> QED BY <1>2, <1>3, <1>4, <1>5, <1>6, Zenon

LEMMA KeptKeys ==
  ASSUME NEW S, NEW list \in Seq(S), NoDuplicates(list), NEW max \in Nat
  PROVE  /\ Kept(list, max) \in Seq(S)
         /\ Len(Kept(list, max)) <= max
         /\ NoDuplicates(Kept(list, max))
         /\ Listed(Kept(list, max)) = Listed(list) \ Dropped(list, max)
<1> DEFINE new == Kept(list, max)
           n == IF Len(list) > max THEN max ELSE Len(list)
<1>0. Len(list) \in Nat /\ \A i \in 1..Len(list) : list[i] \in S
  OBVIOUS
<1>1. n \in Nat /\ n <= max /\ n <= Len(list) /\ (n < Len(list) => n = max)
  BY <1>0
<1>2. new = [i \in 1..n |-> list[i]]
  BY DEF Kept
<1> HIDE DEF new, n
<1>3. new \in [1..n -> S]
  BY <1>0, <1>1, <1>2
<1>4. new \in Seq(S) /\ Len(new) = n
  BY <1>1, <1>3
<1>5. \A i \in 1..n : new[i] = list[i]
  BY <1>2
<1>6. NoDuplicates(new)
  BY <1>0, <1>1, <1>4, <1>5 DEF NoDuplicates
<1>7. Listed(new) = Listed(list) \ Dropped(list, max)
  <2>1. \A i \in 1..n : i \in 1..Len(list) /\ i \notin (max + 1)..Len(list)
    BY <1>0, <1>1
  <2>2. \A i \in 1..Len(list) : i \in 1..n \/ i \in (max + 1)..Len(list)
    BY <1>0, <1>1
  <2>3. Listed(new) = {list[i] : i \in 1..n}
    BY <1>4, <1>5 DEF Listed
  <2>4. \A j \in (max + 1)..Len(list) : j \in 1..Len(list)
    BY <1>0
  <2>5. \A i \in 1..n, j \in (max + 1)..Len(list) : list[i] # list[j]
    BY <2>1, <2>4 DEF NoDuplicates
  <2>6. Listed(new) \subseteq Listed(list) \ Dropped(list, max)
    BY <2>1, <2>3, <2>5 DEF Listed, Dropped
  <2>7. Listed(list) \ Dropped(list, max) \subseteq Listed(new)
    BY <2>2, <2>3 DEF Listed, Dropped
  <2> QED BY <2>6, <2>7
<1> QED BY <1>1, <1>4, <1>6, <1>7 DEF new

================================================================================
