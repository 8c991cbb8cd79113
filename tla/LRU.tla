---------------------------------- MODULE LRU ----------------------------------
(***************************************************************************)
(* The recency lists of src/internal/authpolicy: container/list elements   *)
(* ordered from the most to the least recently used, each holding its key. *)
(* container/list itself is external; these are the operations the two     *)
(* caches of the policy database use.                                      *)
(***************************************************************************)
EXTENDS Integers, Sequences

CONSTANT MaxEntries   \* max_entries of the cache

ASSUME LRUAssumption == MaxEntries \in Nat \ {0}

\* The keys in a list, and the absence of duplicates.
Listed(list) == {list[i] : i \in 1..Len(list)}

NoDuplicates(list) == \A i, j \in 1..Len(list) : list[i] = list[j] => i = j

\* The element the map of a cache points to for key k.
PositionOf(list, k) == CHOOSE i \in 1..Len(list) : list[i] = k

\* list.PushFront of a new element.
PushFront(list, k) ==
    [i \in 1..(Len(list) + 1) |-> IF i = 1 THEN k ELSE list[i - 1]]

\* list.Remove of the element of key k.
RemoveKey(list, k) ==
    LET p == PositionOf(list, k) IN
    [i \in 1..(Len(list) - 1) |-> IF i < p THEN list[i] ELSE list[i + 1]]

\* list.MoveToFront of the element of key k.
MoveToFront(list, k) == PushFront(RemoveKey(list, k), k)

\* What stays, and which keys go, when Back is removed while the list holds
\* more than max elements.
Kept(list, max) ==
    [i \in 1..(IF Len(list) > max THEN max ELSE Len(list)) |-> list[i]]

Dropped(list, max) == {list[i] : i \in (max + 1)..Len(list)}

================================================================================
