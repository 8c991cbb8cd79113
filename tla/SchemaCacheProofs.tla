--------------------------- MODULE SchemaCacheProofs ---------------------------
(***************************************************************************)
(* Proofs about SchemaCache, for every set of keys and callers and every   *)
(* capacity.  The list keeps each key once only because a flight that      *)
(* compiles holds a key that is not cached, so that is part of the         *)
(* inductive invariant.                                                    *)
(***************************************************************************)
EXTENDS SchemaCache, LRUProofs

\* The inductive invariant.
Inv == TypeOK /\ order \in Seq(Keys) /\ CompilesOnlyMisses /\ SchemaListAgrees

LEMMA InitInv == Init => Inv
  BY LRUAssumption
     DEF Init, Inv, TypeOK, CompilesOnlyMisses, SchemaListAgrees, NoDuplicates, Listed, Caller

LEMMA LookupInv ==
  ASSUME Inv, NEW c \in Callers, Lookup(c)
  PROVE  Inv'
<1> DEFINE k == caller[c].key
<1>1. k \in Keys
  BY DEF Lookup, Inv, TypeOK, Caller, Idle
<1>2. TypeOK' /\ CompilesOnlyMisses'
  BY <1>1 DEF Lookup, Inv, TypeOK, CompilesOnlyMisses, Caller, At
<1>3. CASE k \in cached /\ order' = MoveToFront(order, k)
  BY <1>2, <1>3, MoveToFrontKeys DEF Lookup, Inv, SchemaListAgrees
<1>4. CASE UNCHANGED order
  BY <1>2, <1>4 DEF Lookup, Inv, SchemaListAgrees
<1> QED BY <1>3, <1>4 DEF Lookup

LEMMA RecheckInv ==
  ASSUME Inv, NEW k \in Keys, Recheck(k)
  PROVE  Inv'
<1>1. TypeOK'
  BY DEF Recheck, EndFlight, Inv, TypeOK, Caller, At
<1>2. CASE k \in cached /\ order' = MoveToFront(order, k) /\ EndFlight(k, "schema")
  <2>1. CompilesOnlyMisses'
    BY <1>2 DEF Recheck, EndFlight, Inv, TypeOK, CompilesOnlyMisses
  <2> QED BY <1>1, <1>2, <2>1, MoveToFrontKeys DEF Recheck, Inv, SchemaListAgrees
<1>3. CASE k \notin cached /\ flight' = [flight EXCEPT ![k] = "compile"] /\ UNCHANGED order
  BY <1>1, <1>3 DEF Recheck, Inv, TypeOK, CompilesOnlyMisses, SchemaListAgrees
<1> QED BY <1>2, <1>3 DEF Recheck, FoundAgain

LEMMA InsertInv ==
  ASSUME Inv, NEW k \in Keys, Insert(k)
  PROVE  Inv'
<1> DEFINE list == PushFront(order, k)
<1>1. k \notin Listed(order)
  BY DEF Insert, Inv, CompilesOnlyMisses, SchemaListAgrees
<1>2. list \in Seq(Keys) /\ NoDuplicates(list) /\ Listed(list) = cached \cup {k}
  BY <1>1, PushFrontKeys DEF Inv, SchemaListAgrees
<1>3. order' = Kept(list, MaxEntries) /\ cached' = (cached \cup {k}) \ Dropped(list, MaxEntries)
  BY DEF Insert, Evicted
<1> HIDE DEF list
<1>4. /\ order' \in Seq(Keys) /\ Len(order') <= MaxEntries /\ NoDuplicates(order')
      /\ Listed(order') = cached'
  BY <1>2, <1>3, KeptKeys, LRUAssumption
<1>5. TypeOK'
  BY <1>3 DEF Insert, EndFlight, Inv, TypeOK, Caller, At
<1>6. CompilesOnlyMisses'
  BY <1>3 DEF Insert, EndFlight, Inv, TypeOK, CompilesOnlyMisses
<1> QED BY <1>4, <1>5, <1>6 DEF Inv, SchemaListAgrees

LEMMA OtherInv ==
  ASSUME Inv,
         \/ \E c \in Callers, k \in Keys : Call(c, k)
         \/ \E c \in Callers : Do(c) \/ Return(c)
         \/ \E k \in Keys : CompileFails(k)
         \/ UNCHANGED vars
  PROVE  Inv'
<1>1. order' = order /\ cached' = cached
  BY DEF Call, Do, Return, CompileFails, vars
<1>2. TypeOK'
  <2>1. CASE \E c \in Callers : Do(c)
    BY <2>1 DEF Do, Inv, TypeOK, Caller, At, Idle
  <2> QED BY <2>1 DEF Call, Return, CompileFails, EndFlight, vars, Inv, TypeOK, Caller, At
<1>3. CompilesOnlyMisses'
  BY <1>1 DEF Call, Do, Return, CompileFails, EndFlight, vars, Inv, TypeOK, CompilesOnlyMisses
<1> QED BY <1>1, <1>2, <1>3 DEF Inv, SchemaListAgrees

\* However requests, compilations and evictions interleave, the map and the
\* recency list of compiledSchema hold the same keys, each once, within
\* policy_build_cache.max_entries.
THEOREM SchemaListAgreesHolds == Spec => []SchemaListAgrees
<1>1. Inv /\ [Next]_vars => Inv'
  BY LookupInv, RecheckInv, InsertInv, OtherInv DEF Next
<1>2. Inv => SchemaListAgrees
  BY DEF Inv
<1> QED BY InitInv, <1>1, <1>2, PTL DEF Spec

\* A flight never compiles a key that is cached.
THEOREM CompilesOnlyMissesHolds == Spec => []CompilesOnlyMisses
<1>1. Inv /\ [Next]_vars => Inv'
  BY LookupInv, RecheckInv, InsertInv, OtherInv DEF Next
<1>2. Inv => CompilesOnlyMisses
  BY DEF Inv
<1> QED BY InitInv, <1>1, <1>2, PTL DEF Spec

================================================================================
