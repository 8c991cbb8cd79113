----------------------------- MODULE PolicyProofs ------------------------------
(***************************************************************************)
(* Proofs about what a token exchange looks up, for every set of clients,  *)
(* callers, issuers and rows, every capacity and every setting of the      *)
(* lifetimes and timeouts: ClientCache, TrustExchange (here Exchange) and  *)
(* IssuerKeys (here IssuerCache).                                          *)
(*                                                                         *)
(* AnswerAge is not inductive: an answer comes from a flight or from an    *)
(* entry, so the argument carries how old either can be.  KeysFresh is not *)
(* either: a forced lookup does not look at the age of the keys, so the    *)
(* argument carries that they are fresh whenever one can be made.          *)
(***************************************************************************)
EXTENDS MCPolicy, LRUProofs, FiniteSetTheorems

\* The lifetime an answer has as the settings state it.
Life(value) == IF value THEN TTL ELSE NegativeTTL

\* A flight has not outlived its deadline, which lies at most one query
\* timeout after the moment its row was, or will be, read.
FlightAge ==
    \A f \in FlightKey : flight[f] # None =>
        /\ now <= flight[f].deadline
        /\ flight[f].state = "asked" => flight[f].deadline <= now + QueryTimeout
        /\ flight[f].state = "read" => flight[f].deadline <= flight[f].asOf + QueryTimeout

\* An entry expires at most its lifetime and a query timeout after its row
\* was read.
EntryAge ==
    \A k \in Clients : entry[k] # None =>
        entry[k].expires <= entry[k].asOf + QueryTimeout + Life(entry[k].value)

\* No call began in the future.
CallsBegan == \A c \in Callers : caller[c] # Idle => caller[c].began <= now

\* The inductive invariant.
Inv == TypeOK /\ FlightAge /\ EntryAge /\ CallsBegan /\ AnswerAge

LEMMA InitInv == Init => Inv
  BY ClientCacheAssumption DEF Init, Inv, TypeOK, FlightAge, EntryAge, CallsBegan,
     AnswerAge, Caller, Idle

LEMMA CallInv ==
  ASSUME Inv, NEW c \in Callers, NEW k \in Clients, NEW mode \in Mode, Call(c, k, mode)
  PROVE  Inv'
  BY ClientCacheAssumption DEF Call, Inv, TypeOK, FlightAge, EntryAge, CallsBegan,
     AnswerAge, Caller, Idle

LEMMA LookupInv ==
  ASSUME Inv, NEW c \in Callers, Lookup(c)
  PROVE  Inv'
<1> DEFINE k == caller[c].client
<1>0. caller[c].pc = "called" /\ k \in Clients /\ caller[c].began \in Nat
      /\ caller[c].mode \in Mode /\ caller[c] # Idle
  BY DEF Lookup, Inv, TypeOK, Caller, Idle
<1>1. CASE MayUseCache(c) /\ Live(c, k) /\ entry' = entry
           /\ caller' = [caller EXCEPT ![c] = Answer(c, entry[k].value, entry[k].asOf)]
  <2>1. entry[k] \in Entry
    BY <1>0, <1>1 DEF Live, Inv, TypeOK
  <2>2. Answer(c, entry[k].value, entry[k].asOf) \in Caller
    BY <1>0, <2>1 DEF Answer, Caller, Entry
  <2>3. caller[c].began <= entry[k].asOf + QueryTimeout + Life(entry[k].value)
    <3>1. caller[c].began < entry[k].expires
      BY <1>1 DEF Live
    <3>2. entry[k].expires <= entry[k].asOf + QueryTimeout + Life(entry[k].value)
      BY <1>0, <1>1 DEF Live, Inv, EntryAge
    <3>3. entry[k].expires \in Nat /\ entry[k].asOf \in Nat
      BY <2>1 DEF Entry
    <3>4. Life(entry[k].value) \in Nat
      BY ClientCacheAssumption DEF Life
    <3> QED BY <1>0, <3>1, <3>2, <3>3, <3>4, ClientCacheAssumption
  <2>4. TypeOK'
    BY <1>1, <2>2 DEF Lookup, Inv, TypeOK
  <2>5. FlightAge' /\ EntryAge'
    BY <1>1 DEF Lookup, Inv, FlightAge, EntryAge
  <2>6. CallsBegan'
    BY <1>0, <1>1, <2>2 DEF Lookup, Inv, CallsBegan, Answer, TypeOK
  <2>7. AnswerAge'
    <3> SUFFICES ASSUME NEW d \in Callers, caller'[d].pc = "answered"
                 PROVE  caller'[d].began <= caller'[d].asOf + QueryTimeout
                          + (IF caller'[d].mode = "fresh" THEN 0
                             ELSE IF caller'[d].value THEN TTL ELSE NegativeTTL)
      BY DEF AnswerAge
    <3>1. CASE d # c
      BY <1>1, <3>1 DEF Inv, AnswerAge, TypeOK
    <3>2. CASE d = c
      BY <1>1, <2>3, <3>2 DEF Answer, MayUseCache, Life, Inv, TypeOK
    <3> QED BY <3>1, <3>2
  <2> QED BY <2>4, <2>5, <2>6, <2>7 DEF Inv
<1>2. CASE /\ caller' = [caller EXCEPT ![c] = At(c, "missed")]
           /\ entry' = entry \/ entry' = [entry EXCEPT ![k] = None]
  <2>1. At(c, "missed") \in Caller /\ At(c, "missed").pc = "missed"
        /\ At(c, "missed").began = caller[c].began /\ At(c, "missed") # Idle
    BY <1>0 DEF At, Caller, Inv, TypeOK, Idle
  <2>2. TypeOK'
    BY <1>2, <2>1 DEF Lookup, Inv, TypeOK
  <2>3. FlightAge' /\ EntryAge'
    BY <1>0, <1>2 DEF Lookup, Inv, FlightAge, EntryAge, TypeOK
  <2>4. CallsBegan' /\ AnswerAge'
    BY <1>0, <1>2, <2>1 DEF Lookup, Inv, CallsBegan, AnswerAge, TypeOK
  <2> QED BY <2>2, <2>3, <2>4 DEF Inv
<1> QED BY <1>1, <1>2 DEF Lookup

LEMMA DoInv ==
  ASSUME Inv, NEW c \in Callers, Do(c)
  PROVE  Inv'
<1> DEFINE f == <<caller[c].client, caller[c].mode>>
           r == [state |-> "asked", deadline |-> now + QueryTimeout]
<1>0. caller[c].pc = "missed" /\ f \in FlightKey /\ caller[c] # Idle
  BY DEF Do, Inv, TypeOK, Caller, Idle, FlightKey
<1>1. r \in Flight
  BY ClientCacheAssumption DEF Flight, Inv, TypeOK
<1>2. At(c, "waiting") \in Caller /\ At(c, "waiting").pc = "waiting"
      /\ At(c, "waiting").began = caller[c].began /\ At(c, "waiting") # Idle
  BY <1>0 DEF At, Caller, Inv, TypeOK, Idle
<1>3. flight' = flight \/ flight' = [flight EXCEPT ![f] = r]
  BY DEF Do
<1>4. TypeOK'
  BY <1>0, <1>1, <1>2, <1>3 DEF Do, Inv, TypeOK
<1>5. FlightAge'
  BY <1>0, <1>3, ClientCacheAssumption DEF Do, Inv, FlightAge, TypeOK
<1>6. EntryAge' /\ CallsBegan' /\ AnswerAge'
  BY <1>0, <1>2 DEF Do, Inv, EntryAge, CallsBegan, AnswerAge, TypeOK
<1> QED BY <1>4, <1>5, <1>6 DEF Inv

LEMMA ReadInv ==
  ASSUME Inv, NEW f \in FlightKey, Read(f)
  PROVE  Inv'
<1> DEFINE r == [state |-> "read", deadline |-> flight[f].deadline,
                 value |-> exists[f[1]], asOf |-> now]
<1>0. flight[f] \in Flight /\ flight[f].state = "asked" /\ f[1] \in Clients
  BY DEF Read, Inv, TypeOK, FlightKey
<1>1. r \in Flight
  BY <1>0 DEF Flight, Inv, TypeOK
<1>2. TypeOK'
  BY <1>1 DEF Read, Inv, TypeOK
<1>3. FlightAge'
  BY <1>0, <1>1, ClientCacheAssumption DEF Read, Inv, FlightAge, TypeOK, Flight
<1>4. EntryAge' /\ CallsBegan' /\ AnswerAge'
  BY DEF Read, Inv, EntryAge, CallsBegan, AnswerAge
<1> QED BY <1>2, <1>3, <1>4 DEF Inv

\* What Deliver leaves alone, and what it gives to the callers of a flight.
LEMMA FinishInv ==
  ASSUME Inv, NEW f \in FlightKey, Finish(f)
  PROVE  Inv'
<1> DEFINE k == f[1]
           r == flight[f]
           e == [value |-> r.value, asOf |-> r.asOf, expires |-> now + Lifetime(r.value)]
<1>0. r \in Flight /\ r.state = "read" /\ k \in Clients /\ r.value \in BOOLEAN
      /\ r.asOf \in Nat /\ r.deadline \in Nat
  BY DEF Finish, Inv, TypeOK, FlightKey, Flight
<1>1. now <= r.deadline /\ r.deadline <= r.asOf + QueryTimeout
  BY <1>0 DEF Finish, Inv, FlightAge
<1>2. e \in Entry /\ e.expires <= e.asOf + QueryTimeout + Life(e.value)
  BY <1>0, <1>1, ClientCacheAssumption DEF Entry, Lifetime, Life, Inv, TypeOK
<1>3. \A x \in Clients : entry'[x] \in {None, e, entry[x]}
  BY DEF Finish
<1>4. entry' \in [Clients -> Entry \cup {None}]
  BY <1>2, <1>3 DEF Finish, Inv, TypeOK
<1>5. EntryAge'
  BY <1>2, <1>3 DEF Inv, EntryAge
<1>6. flight' = [flight EXCEPT ![f] = None] /\ now' = now
  BY DEF Finish
<1>7. FlightAge'
  BY <1>6 DEF Inv, FlightAge, TypeOK
<1>8. caller' = [c \in Callers |-> IF c \in Waiters(f) THEN Answer(c, r.value, r.asOf)
                                   ELSE caller[c]]
  BY DEF Finish, Deliver
<1>9. \A c \in Waiters(f) : /\ caller[c] # Idle /\ caller[c].client \in Clients
                            /\ caller[c].mode \in Mode /\ caller[c].began \in Nat
  BY DEF Waiters, Inv, TypeOK, Caller, Idle
<1>10. \A c \in Callers : caller'[c] \in Caller
  BY <1>0, <1>8, <1>9 DEF Answer, Caller, Inv, TypeOK
<1>11. TypeOK'
  BY <1>4, <1>6, <1>8, <1>10 DEF Finish, Inv, TypeOK
<1>12. CallsBegan'
  BY <1>6, <1>8, <1>9 DEF Answer, Inv, CallsBegan, TypeOK
<1>13. AnswerAge'
  <2> SUFFICES ASSUME NEW d \in Callers, caller'[d].pc = "answered"
               PROVE  caller'[d].began <= caller'[d].asOf + QueryTimeout
                        + (IF caller'[d].mode = "fresh" THEN 0
                           ELSE IF caller'[d].value THEN TTL ELSE NegativeTTL)
    BY DEF AnswerAge
  <2>1. CASE d \notin Waiters(f)
    BY <1>8, <2>1 DEF Inv, AnswerAge, TypeOK
  <2>2. CASE d \in Waiters(f)
    <3>1. caller[d].began <= now /\ caller[d].began \in Nat
      BY <1>9, <2>2 DEF Inv, CallsBegan
    <3>2. caller'[d].began = caller[d].began /\ caller'[d].asOf = r.asOf
      BY <1>8, <2>2 DEF Answer
    <3> QED BY <1>0, <1>1, <3>1, <3>2, ClientCacheAssumption DEF Inv, TypeOK
  <2> QED BY <2>1, <2>2
<1> QED BY <1>5, <1>7, <1>11, <1>12, <1>13 DEF Inv

LEMMA FailInv ==
  ASSUME Inv, NEW f \in FlightKey, Fail(f)
  PROVE  Inv'
<1>1. caller' = [c \in Callers |-> IF c \in Waiters(f) THEN At(c, "failed")
                                   ELSE caller[c]]
  BY DEF Fail, Deliver
<1>2. \A c \in Waiters(f) : /\ At(c, "failed") \in Caller /\ At(c, "failed") # Idle
                            /\ At(c, "failed").pc = "failed"
                            /\ At(c, "failed").began = caller[c].began
                            /\ caller[c] # Idle
  BY DEF Waiters, At, Inv, TypeOK, Caller, Idle
<1>3. TypeOK'
  BY <1>1, <1>2 DEF Fail, Inv, TypeOK
<1>4. FlightAge' /\ EntryAge'
  BY DEF Fail, Inv, FlightAge, EntryAge, TypeOK
<1>5. CallsBegan' /\ AnswerAge'
  BY <1>1, <1>2 DEF Fail, Inv, CallsBegan, AnswerAge, TypeOK
<1> QED BY <1>3, <1>4, <1>5 DEF Inv

LEMMA OtherInv ==
  ASSUME Inv,
         \/ \E c \in Callers : Return(c)
         \/ \E k \in Clients : Change(k)
         \/ Tick
         \/ UNCHANGED vars
  PROVE  Inv'
<1>1. CASE \E c \in Callers : Return(c)
  BY <1>1 DEF Return, Inv, TypeOK, FlightAge, EntryAge, CallsBegan, AnswerAge, Caller, Idle
<1>2. CASE \E k \in Clients : Change(k)
  <2> PICK k \in Clients : Change(k)
    BY <1>2
  <2>1. exists' \in [Clients -> BOOLEAN] /\ (~exists[k]) \in BOOLEAN
    BY Zenon DEF Change, Inv, TypeOK
  <2>2. TypeOK'
    BY <2>1 DEF Change, Inv, TypeOK
  <2> QED BY <2>2 DEF Change, Inv, FlightAge, EntryAge, CallsBegan, AnswerAge
<1>3. CASE Tick
  <2>1. TypeOK' /\ EntryAge' /\ AnswerAge'
    BY <1>3 DEF Tick, Inv, TypeOK, EntryAge, AnswerAge
  <2>2. CallsBegan'
    <3>1. \A c \in Callers : caller[c] # Idle => caller[c].began \in Nat
      BY DEF Inv, TypeOK, Caller
    <3> QED BY <1>3, <3>1 DEF Tick, Inv, CallsBegan, TypeOK
  <2>3. FlightAge'
    <3>1. \A g \in FlightKey : flight[g] # None => flight[g].deadline \in Nat
      BY DEF Inv, TypeOK, Flight
    <3> QED BY <1>3, <3>1, ClientCacheAssumption DEF Tick, Inv, FlightAge, TypeOK
  <2> QED BY <2>1, <2>2, <2>3 DEF Inv
<1>4. CASE UNCHANGED vars
  BY <1>4 DEF vars, Inv, TypeOK, FlightAge, EntryAge, CallsBegan, AnswerAge
<1> QED BY <1>1, <1>2, <1>3, <1>4

LEMMA StepInv == Inv /\ [Next]_vars => Inv'
  BY CallInv, LookupInv, DoInv, ReadInv, FinishInv, FailInv, OtherInv DEF Next

\* The state of the client cache keeps its type.
THEOREM ClientTypeCorrect == Spec => []TypeOK
<1>1. Inv => TypeOK
  BY DEF Inv
<1> QED BY InitInv, StepInv, <1>1, PTL DEF Spec

\* However calls, queries, expiries and changes of the rows interleave, no
\* call of clientExists is answered with a row older than its mode allows.
THEOREM AnswerAgeHolds == Spec => []AnswerAge
<1>1. Inv => AnswerAge
  BY DEF Inv
<1> QED BY InitInv, StepInv, <1>1, PTL DEF Spec

--------------------------------------------------------------------------------
\* The structure of the cache, which does not depend on the ages above.
ListInv == order \in Seq(Clients) /\ MapAndListAgree

LEMMA LookupList ==
  ASSUME TypeOK, ListInv, NEW c \in Callers, Lookup(c)
  PROVE  ListInv'
<1> DEFINE k == caller[c].client
<1>0. k \in Clients /\ caller[c].pc = "called"
  BY DEF Lookup, TypeOK, Caller, Idle
<1>1. entry[k] # None => k \in Listed(order)
  BY <1>0 DEF ListInv, MapAndListAgree
<1>2. CASE entry[k] # None /\ entry' = entry /\ order' = MoveToFront(order, k)
  <2>1. order' \in Seq(Clients) /\ Len(order') = Len(order)
        /\ NoDuplicates(order') /\ Listed(order') = Listed(order)
    BY <1>1, <1>2, MoveToFrontKeys DEF ListInv, MapAndListAgree
  <2> QED BY <1>2, <2>1 DEF ListInv, MapAndListAgree
<1>3. CASE entry[k] # None /\ entry' = [entry EXCEPT ![k] = None] /\ order' = RemoveKey(order, k)
  <2>1. order' \in Seq(Clients) /\ Len(order') = Len(order) - 1
        /\ NoDuplicates(order') /\ Listed(order') = Listed(order) \ {k}
    BY <1>1, <1>3, RemoveKeyKeys DEF ListInv, MapAndListAgree
  <2>2. {x \in Clients : entry'[x] # None} = {x \in Clients : entry[x] # None} \ {k}
    BY <1>0, <1>3 DEF TypeOK
  <2>3. Len(order') <= MaxEntries
    BY <2>1, LRUAssumption DEF ListInv, MapAndListAgree
  <2> QED BY <2>1, <2>2, <2>3 DEF ListInv, MapAndListAgree
<1>4. CASE UNCHANGED <<entry, order>>
  BY <1>4 DEF ListInv, MapAndListAgree
<1> QED BY <1>2, <1>3, <1>4 DEF Lookup, Live

LEMMA FinishList ==
  ASSUME TypeOK, ListInv, NEW f \in FlightKey, Finish(f)
  PROVE  ListInv'
<1> DEFINE k == f[1]
           rest == IF entry[k] # None THEN RemoveKey(order, k) ELSE order
           full == Fill(k)
           e == [value |-> flight[f].value, asOf |-> flight[f].asOf,
                 expires |-> now + Lifetime(flight[f].value)]
<1>0. k \in Clients
  BY DEF FlightKey
<1>e. e # None
  <2>1. flight[f].value \in BOOLEAN /\ flight[f].asOf \in Nat
    BY DEF Finish, TypeOK, Flight
  <2>2. now + Lifetime(flight[f].value) \in Nat
    BY ClientCacheAssumption DEF Lifetime, TypeOK
  <2>3. e \in Entry
    BY <2>1, <2>2 DEF Entry
  <2> QED BY <2>3, NoneAssumption
<1>1. CASE UNCHANGED <<entry, order>>
  BY <1>1 DEF ListInv, MapAndListAgree
<1>2. CASE Fills(f)
  <2>1. rest \in Seq(Clients) /\ NoDuplicates(rest) /\ Listed(rest) = Listed(order) \ {k}
    <3>1. CASE entry[k] # None
      BY <1>0, <3>1, RemoveKeyKeys DEF ListInv, MapAndListAgree
    <3>2. CASE entry[k] = None
      BY <1>0, <3>2 DEF ListInv, MapAndListAgree
    <3> QED BY <3>1, <3>2
  <2>2. full = PushFront(rest, k)
    BY DEF Fill
  <2> HIDE DEF rest, full
  <2>3. full \in Seq(Clients) /\ NoDuplicates(full) /\ Listed(full) = Listed(order) \cup {k}
    BY <1>0, <2>1, <2>2, PushFrontKeys
  <2>4. order' = Kept(full, MaxEntries)
    BY <1>2 DEF Finish, full
  <2>5. order' \in Seq(Clients) /\ Len(order') <= MaxEntries /\ NoDuplicates(order')
        /\ Listed(order') = (Listed(order) \cup {k}) \ Dropped(full, MaxEntries)
    BY <2>3, <2>4, KeptKeys, LRUAssumption
  <2>6. \A x \in Clients : entry'[x] # None
                            <=> x \notin Dropped(full, MaxEntries) /\ (x = k \/ entry[x] # None)
    BY <1>2, <1>e DEF Finish, full
  <2>7. Listed(order) = {x \in Clients : entry[x] # None}
    BY DEF ListInv, MapAndListAgree
  <2>8. Listed(order') = {x \in Clients : entry'[x] # None}
    BY <1>0, <2>5, <2>6, <2>7
  <2> QED BY <2>5, <2>8 DEF ListInv, MapAndListAgree
<1> QED BY <1>1, <1>2 DEF Finish

\* The map and the recency list of the client cache always hold the same
\* clients, each once, within the capacity (putClient and removeClient).
THEOREM MapAndListAgreeHolds == Spec => []MapAndListAgree
<1>1. Init => ListInv
  BY LRUAssumption DEF Init, ListInv, MapAndListAgree, NoDuplicates, Listed
<1>2. Inv /\ ListInv /\ [Next]_vars => ListInv'
  <2> SUFFICES ASSUME TypeOK, ListInv, [Next]_vars
               PROVE  ListInv'
    BY DEF Inv
  <2>1. CASE UNCHANGED <<entry, order>>
    BY <2>1 DEF ListInv, MapAndListAgree
  <2>2. CASE \E c \in Callers : Lookup(c)
    BY <2>2, LookupList
  <2>3. CASE \E f \in FlightKey : Finish(f)
    BY <2>3, FinishList
  <2> QED BY <2>1, <2>2, <2>3
          DEF Next, Call, Do, Return, Read, Fail, Change, Tick, vars
<1>3. ListInv => MapAndListAgree
  BY DEF ListInv
<1> QED BY InitInv, StepInv, <1>1, <1>2, <1>3, PTL DEF Spec


--------------------------------------------------------------------------------
(* The token exchange *)

\* The cardinality that the instance of TrustExchange means is the one of FiniteSets.
LEMMA ExchangeCardinality == \A S : Exchange!Cardinality(S) = Cardinality(S)
BY Zenon DEF Exchange!Cardinality, Cardinality

\* What is known of an exchange at each of its stages.
Asked == [pc : {"client", "issuer", "denied", "unavailable"},
          kind : {"static", "dynamic"}, tok : Exchange!Token]
Keyed == [pc : {"keys", "denied"}, kind : {"static", "dynamic"}, tok : Exchange!Token,
          issuer : {"s", "d"}]
Verified == [pc : {"bindings", "denied", "unavailable"}, kind : {"static", "dynamic"},
             tok : Exchange!Token, issuer : {"s", "d"}, verifiedAt : Nat]
Matched == [pc : {"sign", "issued", "failed"}, tok : Exchange!Token, issuer : {"s", "d"},
            verifiedAt : Nat, among : SUBSET (Rows \cup StaticRows),
            binding : Rows \cup StaticRows]

Exchanges == {Exchange!Idle} \cup Asked \cup Keyed \cup Verified \cup Matched

\* The keys that verify a token are those of its issuer: the static issuer's name is only
\* resolved for its own URL.
OwnKeys(q) == q.issuer = "s" => q.tok.iss = "static"

\* The dates of the token at the moment its signature was verified.
Current(q) ==
    /\ q.tok.iat \in (q.verifiedAt - MaxAge) .. q.verifiedAt
    /\ q.verifiedAt < q.tok.exp

\* The binding is the issuer's only one that admits the token.
Only(q) ==
    /\ q.binding.issuer = q.issuer
    /\ \A b \in q.among : ~b.bad /\ (Exchange!Accepts(b, q.tok.claim) => b = q.binding)

\* What each stage has established.
Established(q) ==
    /\ q.pc \in {"keys", "bindings", "sign", "issued"} => OwnKeys(q)
    /\ q.pc \in {"bindings", "sign", "issued"} => Current(q)
    /\ q.pc \in {"sign", "issued"} => Only(q)

ExchangeInv ==
    /\ exchangeNow \in Nat /\ rows \subseteq Rows
    /\ issuerRow \in {None, "s", "d"}
    /\ req \in [Requests -> Exchanges]
    /\ \A r \in Requests : Established(req[r])

\* A step of one exchange is judged by the record it leaves.
LEMMA ExchangeStep ==
    ASSUME ExchangeInv, NEW r \in Requests, NEW x \in Exchanges, Established(x),
           req' = [req EXCEPT ![r] = x],
           UNCHANGED <<exchangeNow, client, issuerRow, rows, policyChanges>>
    PROVE  ExchangeInv'
<1>1. \A o \in Requests : req'[o] = IF o = r THEN x ELSE req[o]
  BY DEF ExchangeInv
<1>2. \A o \in Requests : Established(req'[o])
  BY <1>1 DEF ExchangeInv
<1>3. \A o \in Requests : Established(req[o])' <=> Established(req'[o])
  BY DEF Established, OwnKeys, Current, Only, Exchange!Accepts
<1>4. req' \in [Requests -> Exchanges]
  BY DEF ExchangeInv
<1> QED BY <1>2, <1>3, <1>4 DEF ExchangeInv

\* A step that only ends the exchange, or moves it to a stage that promises no more.
LEMMA ExchangeEnds ==
    ASSUME ExchangeInv, NEW r \in Requests, NEW how, Exchange!End(r, how),
           \/ req[r] \in Asked /\ how \in {"issuer", "denied", "unavailable"}
           \/ req[r] \in Keyed /\ how = "denied"
           \/ req[r] \in Verified /\ how \in {"denied", "unavailable"}
           \/ req[r] \in Matched /\ req[r].pc = "sign" /\ how \in {"issued", "failed"},
           UNCHANGED <<exchangeNow, client, issuerRow, rows, policyChanges>>
    PROVE  ExchangeInv'
<1> DEFINE x == [req[r] EXCEPT !.pc = how]
<1>1. req' = [req EXCEPT ![r] = x]
  BY DEF Exchange!End
<1>2. x \in Exchanges
  BY DEF Exchanges, Asked, Keyed, Verified, Matched
<1>3. x.pc = how
  BY DEF Asked, Keyed, Verified, Matched
<1>4. CASE how = "issued"
  <2>1. /\ req[r].pc = "sign" /\ req[r] \in Matched
        /\ x.tok = req[r].tok /\ x.issuer = req[r].issuer
        /\ x.verifiedAt = req[r].verifiedAt /\ x.among = req[r].among
        /\ x.binding = req[r].binding
    BY <1>4 DEF Matched
  <2>2. OwnKeys(req[r]) /\ Current(req[r]) /\ Only(req[r])
    BY <2>1 DEF ExchangeInv, Established
  <2> HIDE DEF x
  <2>3. OwnKeys(x) /\ Current(x) /\ Only(x)
    BY <2>1, <2>2 DEF OwnKeys, Current, Only
  <2> QED BY <1>1, <1>2, <2>3, ExchangeStep DEF Established
<1>5. CASE how # "issued"
  <2>1. how \in {"issuer", "denied", "unavailable", "failed"}
    BY <1>5
  <2> HIDE DEF x
  <2> QED BY <1>1, <1>2, <1>3, <2>1, ExchangeStep DEF Established
<1> QED BY <1>4, <1>5


\* The record of an exchange tells its stage.
LEMMA Stages ==
    ASSUME ExchangeInv, NEW r \in Requests
    PROVE  /\ req[r].pc \in {"client", "issuer"} => req[r] \in Asked
           /\ req[r].pc = "keys" => req[r] \in Keyed
           /\ req[r].pc = "bindings" => req[r] \in Verified
           /\ req[r].pc = "sign" => req[r] \in Matched
BY DEF ExchangeInv, Exchanges, Exchange!Idle, Asked, Keyed, Verified, Matched

\* The clock of the exchange compares natural numbers.
LEMMA TokenTimes ==
    ASSUME NEW tok \in Exchange!Token
    PROVE  tok.iat \in Nat /\ tok.exp \in Nat /\ tok.iss \in {"static", "dynamic"}
BY ClientCacheAssumption DEF Exchange!Token

\* The exchange with the exactly one binding that matched.
LEMMA EvaluateInv ==
    ASSUME ExchangeInv, NEW r \in Requests, Exchange!Evaluate(r)
    PROVE  ExchangeInv'
<1> DEFINE among == Exchange!Bindings(r)
           matching == {b \in among : Exchange!Accepts(b, req[r].tok.claim)}
           b == CHOOSE b \in matching : TRUE
           x == [pc |-> "sign", tok |-> req[r].tok, issuer |-> req[r].issuer,
                 verifiedAt |-> req[r].verifiedAt, among |-> among, binding |-> b]
<1>1. /\ req[r].pc = "bindings" /\ Exchange!WellFormed(among)
      /\ UNCHANGED <<exchangeNow, client, issuerRow, rows, policyChanges>>
      /\ \/ Exchange!End(r, "denied")
         \/ Exchange!Cardinality(matching) = 1 /\ req' = [req EXCEPT ![r] = x]
  BY DEF Exchange!Evaluate, Exchange!Readable, Exchange!policy
<1>2. req[r] \in Verified
  BY <1>1, Stages
<1>3. CASE Exchange!End(r, "denied")
  BY <1>1, <1>2, <1>3, ExchangeEnds
<1>4. CASE Exchange!Cardinality(matching) = 1 /\ req' = [req EXCEPT ![r] = x]
  <2>1. among \subseteq Rows \cup StaticRows /\ \A a \in among : a.issuer = req[r].issuer
    BY DEF Exchange!Bindings, ExchangeInv
  <2>2. IsFiniteSet(Rows \cup StaticRows)
    BY ExchangeAssumption, FS_Union
  <2>3. matching \in SUBSET (Rows \cup StaticRows)
    BY <2>1
  <2>4. PICK only : matching = {only}
    BY <1>4, <2>2, <2>3, FS_Subset, FS_Singleton, ExchangeCardinality
  <2>5. b = only /\ b \in among /\ Exchange!Accepts(b, req[r].tok.claim)
    BY <2>4
  <2>6. \A a \in among : ~a.bad /\ (Exchange!Accepts(a, req[r].tok.claim) => a = b)
    BY <1>1, <2>4, <2>5 DEF Exchange!WellFormed
  <2>7. /\ req[r].tok \in Exchange!Token /\ req[r].issuer \in {"s", "d"}
        /\ req[r].verifiedAt \in Nat
    BY <1>2 DEF Verified
  <2> HIDE DEF among, matching, b
  <2>8. x \in Exchanges
    BY <2>1, <2>5, <2>7 DEF Exchanges, Matched
  <2>9. /\ x.tok = req[r].tok /\ x.issuer = req[r].issuer
         /\ x.verifiedAt = req[r].verifiedAt /\ x.among = among /\ x.binding = b
    OBVIOUS
  <2> HIDE DEF x
  <2>10. OwnKeys(req[r]) /\ Current(req[r])
    BY <1>1 DEF ExchangeInv, Established
  <2>11. OwnKeys(x) /\ Current(x)
    BY <2>9, <2>10 DEF OwnKeys, Current
  <2>12. Only(x)
    BY <2>1, <2>5, <2>6, <2>9 DEF Only
  <2> QED BY <1>1, <1>4, <2>8, <2>11, <2>12, ExchangeStep DEF Established
<1> QED BY <1>1, <1>3, <1>4

\* Resolving the issuer: the database never names the static one.
LEMMA ResolveInv ==
    ASSUME ExchangeInv, NEW r \in Requests,
           Exchange!ResolveIssuer(r) \/ Exchange!ResolveDynamicIssuer(r)
    PROVE  ExchangeInv'
<1>1. /\ req[r] \in Asked
      /\ UNCHANGED <<exchangeNow, client, issuerRow, rows, policyChanges>>
  BY Stages DEF Exchange!ResolveIssuer, Exchange!ResolveDynamicIssuer, Exchange!policy
<1>2. \/ Exchange!End(r, "denied") \/ Exchange!End(r, "unavailable")
      \/ \E issuer \in {"s", "d"} :
            Exchange!Resolved(r, issuer) /\ (issuer = "s" => req[r].tok.iss = "static")
  BY DEF ExchangeInv, Exchange!ResolveIssuer, Exchange!ResolveDynamicIssuer, Exchange!Conflict
<1>3. ASSUME NEW issuer \in {"s", "d"}, Exchange!Resolved(r, issuer),
             issuer = "s" => req[r].tok.iss = "static"
      PROVE  ExchangeInv'
  <2> DEFINE x == [pc |-> "keys", kind |-> req[r].kind, tok |-> req[r].tok, issuer |-> issuer]
  <2>1. x \in Exchanges
    BY <1>1 DEF Exchanges, Keyed, Asked
  <2>2. Established(x)
    BY <1>3 DEF Established, OwnKeys
  <2>3. req' = [req EXCEPT ![r] = x]
    BY <1>3 DEF Exchange!Resolved
  <2> HIDE DEF x
  <2> QED BY <1>1, <2>1, <2>2, <2>3, ExchangeStep
<1> QED BY <1>1, <1>2, <1>3, ExchangeEnds

\* Verifying the signature: the dates are judged when the keys have been loaded.
LEMMA VerifyInv ==
    ASSUME ExchangeInv, NEW r \in Requests, Exchange!VerifySignature(r)
    PROVE  ExchangeInv'
<1> DEFINE x == [pc |-> "bindings", kind |-> req[r].kind, tok |-> req[r].tok,
                 issuer |-> req[r].issuer, verifiedAt |-> exchangeNow]
<1>1. /\ req[r] \in Keyed /\ req[r].pc = "keys"
      /\ UNCHANGED <<exchangeNow, client, issuerRow, rows, policyChanges>>
  BY Stages DEF Exchange!VerifySignature, Exchange!policy
<1>2. CASE Exchange!End(r, "denied")
  BY <1>1, <1>2, ExchangeEnds
<1>3. CASE /\ Exchange!ValidStandardClaims(req[r].tok) /\ Exchange!Young(req[r].tok)
           /\ req' = [req EXCEPT ![r] = x]
  <2>1. exchangeNow \in Nat /\ req[r].tok \in Exchange!Token /\ MaxAge \in Nat
    BY <1>1, ExchangeAssumption DEF ExchangeInv, Keyed
  <2>2. x \in Exchanges
    BY <1>1, <2>1 DEF Exchanges, Verified, Keyed
  <2>3. x.tok = req[r].tok /\ x.issuer = req[r].issuer /\ x.verifiedAt = exchangeNow
        /\ x.pc = "bindings"
    OBVIOUS
  <2> HIDE DEF x
  <2>4. OwnKeys(x)
    BY <1>1, <2>3 DEF ExchangeInv, Established, OwnKeys
  <2>5. Current(x)
    BY <1>3, <2>1, <2>3, TokenTimes
       DEF Current, Exchange!ValidStandardClaims, Exchange!LibraryAccepts, Exchange!Young
  <2> QED BY <1>1, <1>3, <2>2, <2>3, <2>4, <2>5, ExchangeStep DEF Established
<1> QED BY <1>2, <1>3 DEF Exchange!VerifySignature

\* Every exchange has established what its stage stands for.
THEOREM ExchangeInvariant == Exchange!Spec => []ExchangeInv
<1>1. Exchange!Init => ExchangeInv
  BY DEF Exchange!Init, ExchangeInv, Exchanges, Exchange!Idle, Established
<1>2. ExchangeInv /\ [Exchange!Next]_(Exchange!vars) => ExchangeInv'
  <2> SUFFICES ASSUME ExchangeInv, [Exchange!Next]_(Exchange!vars) PROVE ExchangeInv'
    OBVIOUS
  <2>1. ASSUME NEW r \in Requests, NEW tok \in Exchange!Token, NEW kind \in {"static", "dynamic"},
               Exchange!Begin(r, tok, kind)
        PROVE  ExchangeInv'
    <3> DEFINE x == [pc |-> IF Exchange!ValidStandardClaims(tok) THEN "client" ELSE "denied",
                     kind |-> kind, tok |-> tok]
    <3>1. x \in Exchanges /\ Established(x)
      BY DEF Exchanges, Asked, Established
    <3>2. req' = [req EXCEPT ![r] = x]
          /\ UNCHANGED <<exchangeNow, client, issuerRow, rows, policyChanges>>
      BY <2>1 DEF Exchange!Begin, Exchange!policy
    <3> HIDE DEF x
    <3> QED BY <3>1, <3>2, ExchangeStep
  <2>2. ASSUME NEW r \in Requests, Exchange!ResolveClient(r)
        PROVE  ExchangeInv'
    BY <2>2, Stages, ExchangeEnds DEF Exchange!ResolveClient, Exchange!policy
  <2>3. ASSUME NEW r \in Requests, Exchange!BindingsUnavailable(r)
        PROVE  ExchangeInv'
    BY <2>3, Stages, ExchangeEnds DEF Exchange!BindingsUnavailable, Exchange!policy
  <2>4. ASSUME NEW r \in Requests, Exchange!Sign(r)
        PROVE  ExchangeInv'
    BY <2>4, Stages, ExchangeEnds DEF Exchange!Sign, Exchange!policy
  <2>5. ASSUME NEW r \in Requests, Exchange!Return(r)
        PROVE  ExchangeInv'
    <3>1. Exchange!Idle \in Exchanges /\ Established(Exchange!Idle)
      BY DEF Exchanges, Exchange!Idle, Established
    <3> QED BY <2>5, <3>1, ExchangeStep DEF Exchange!Return, Exchange!policy
  <2>6. CASE Exchange!ChangePolicy
    <3>1. /\ req' = req /\ exchangeNow' = exchangeNow
          /\ rows' \subseteq Rows /\ issuerRow' \in {None, "s", "d"}
      BY <2>6 DEF Exchange!ChangePolicy, ExchangeInv
    <3> QED BY <3>1 DEF ExchangeInv, Established, OwnKeys, Current, Only, Exchange!Accepts
  <2>7. CASE Exchange!Tick
    <3>1. /\ req' = req /\ exchangeNow' \in Nat /\ UNCHANGED <<rows, issuerRow>>
      BY <2>7 DEF Exchange!Tick, Exchange!policy, ExchangeInv
    <3> QED BY <3>1 DEF ExchangeInv, Established, OwnKeys, Current, Only, Exchange!Accepts
  <2>8. CASE UNCHANGED Exchange!vars
    BY <2>8 DEF Exchange!vars, ExchangeInv, Established, OwnKeys, Current, Only, Exchange!Accepts
  <2> QED BY <2>1, <2>2, <2>3, <2>4, <2>5, <2>6, <2>7, <2>8, ResolveInv, VerifyInv, EvaluateInv
          DEF Exchange!Next
<1> QED BY <1>1, <1>2, PTL DEF Exchange!Spec

\* The binding is the only one of its issuer that admits the token, and none of the
\* issuer's rows was malformed (VerifyAndEvaluate, compileBindings).
THEOREM OnlyBindingHolds == Exchange!Spec => []OnlyBinding
<1>1. ExchangeInv => OnlyBinding
  BY DEF ExchangeInv, Established, Only, OnlyBinding, Exchange!OnlyBinding, Exchange!Granted
<1> QED BY <1>1, ExchangeInvariant, PTL

\* When the signature was verified the token was current, however long the lookups before
\* took and also for dates the JWT library skips (validateStandardClaims).
THEOREM TokenCurrentHolds == Exchange!Spec => []TokenCurrent
<1>1. ExchangeInv => TokenCurrent
  BY DEF ExchangeInv, Established, Current, TokenCurrent, Exchange!TokenCurrent, Exchange!Granted
<1> QED BY <1>1, ExchangeInvariant, PTL

\* Bindings of the static issuer are granted only to tokens its own keys verified, whatever
\* the database returns for another URL (ResolveTrustIssuer).
THEOREM StaticIssuerKeysHolds == Exchange!Spec => []StaticIssuerKeys
<1>1. ExchangeInv => StaticIssuerKeys
  BY DEF ExchangeInv, Established, OwnKeys, Only, StaticIssuerKeys, Exchange!StaticIssuerKeys,
         Exchange!Granted
<1> QED BY <1>1, ExchangeInvariant, PTL


--------------------------------------------------------------------------------
(* The keys of external issuers *)

KeyFlight == IssuerCache!Flight \cup {None}

Verification ==
    [pc : {"lookup", "missed", "waiting", "accepted", "refused", "error"},
     issuer : Issuers, kid : IssuerCache!Version \cup {IssuerCache!Unknown}, force : BOOLEAN,
     began : Nat, asOf : Nat \cup {None}]

LEMMA KeysTypes ==
    IssuerCache!TypeOK <=>
        /\ keysNow \in Nat
        /\ published \in [Issuers -> IssuerCache!Version]
        /\ cache \in [Issuers -> IssuerCache!Keys \cup {None}]
        /\ keysFlight \in [Issuers -> KeyFlight]
        /\ verifier \in [Callers -> {IssuerCache!Idle} \cup Verification]
        /\ lastForced \in [Issuers -> Int]
BY Zenon DEF IssuerCache!TypeOK, IssuerCache!Caller, Verification, KeyFlight

\* A verification at any stage is a row.
LEMMA VerificationType ==
    ASSUME IssuerCache!TypeOK, NEW c \in Callers, verifier[c].pc # "idle"
    PROVE  verifier[c] \in Verification
BY KeysTypes DEF IssuerCache!Idle

\* What selectKey makes of a verification.
LEMMA SelectType ==
    ASSUME IssuerCache!TypeOK, NEW c \in Callers, verifier[c] \in Verification,
           NEW keys \in IssuerCache!Keys
    PROVE  LET x == IssuerCache!Select(c, keys) IN
           /\ x \in Verification
           /\ x.issuer = verifier[c].issuer /\ x.began = verifier[c].began
           /\ x.asOf = keys.asOf
           /\ x.pc \in {"lookup", "accepted", "refused"}
BY DEF IssuerCache!Select, Verification, IssuerCache!Keys

LEMMA LoadErrorType ==
    ASSUME IssuerCache!TypeOK, NEW c \in Callers, verifier[c] \in Verification
    PROVE  LET x == IssuerCache!LoadError(c) IN
           /\ x \in Verification
           /\ x.issuer = verifier[c].issuer /\ x.began = verifier[c].began
           /\ x.asOf = verifier[c].asOf
           /\ x.pc \in {"refused", "error"}
BY DEF IssuerCache!LoadError, Verification

\* A flight by its phase.
LEMMA FlightType ==
    ASSUME IssuerCache!TypeOK, NEW i \in Issuers, keysFlight[i] # None
    PROVE  /\ keysFlight[i] \in IssuerCache!Flight
           /\ keysFlight[i].phase \in {"check", "fetch", "fetched"}
           /\ keysFlight[i].force \in BOOLEAN
           /\ keysFlight[i].phase \in {"fetch", "fetched"} =>
                 keysFlight[i].refreshed \in Int /\ keysFlight[i].deadline \in Nat
           /\ keysFlight[i].phase = "fetched" =>
                 keysFlight[i].version \in IssuerCache!Version /\ keysFlight[i].asOf \in Nat
BY KeysTypes DEF KeyFlight, IssuerCache!Flight

\* The keys that a finished fetch stores.
Fetched(i) ==
    [version |-> keysFlight[i].version, expires |-> keysNow + CacheTTL,
     asOf |-> keysFlight[i].asOf, lastRefresh |-> keysFlight[i].refreshed]

LEMMA FetchedType ==
    ASSUME IssuerCache!TypeOK, NEW i \in Issuers, keysFlight[i] # None,
           keysFlight[i].phase = "fetched"
    PROVE  Fetched(i) \in IssuerCache!Keys
BY FlightType, KeysTypes, KeysAssumption DEF Fetched, IssuerCache!Keys

\* Delivering a flight's result keeps the types when each outcome has them.
LEMMA DeliverType ==
    ASSUME IssuerCache!TypeOK, NEW i \in Issuers,
           keysFlight' = [keysFlight EXCEPT ![i] = None],
           \A c \in Callers : \/ verifier'[c] = verifier[c]
                              \/ verifier'[c] \in Verification,
           verifier' = [c \in Callers |-> verifier'[c]]
    PROVE  /\ keysFlight' \in [Issuers -> KeyFlight]
           /\ verifier' \in [Callers -> {IssuerCache!Idle} \cup Verification]
<1>1. keysFlight' \in [Issuers -> KeyFlight]
  BY KeysTypes DEF KeyFlight
<1>2. \A c \in Callers : verifier'[c] \in {IssuerCache!Idle} \cup Verification
  BY KeysTypes
<1> QED BY <1>1, <1>2


\* Who waits on a flight, and what the end of the flight means to everybody.
LEMMA WaiterType ==
    ASSUME IssuerCache!TypeOK, NEW i \in Issuers, NEW c \in IssuerCache!Waiters(i)
    PROVE  c \in Callers /\ verifier[c] \in Verification /\ verifier[c].issuer = i
BY VerificationType DEF IssuerCache!Waiters

\* The three ways a flight ends: with the keys that are cached, with the keys it
\* fetched, or with an error.
Delivered(i, keys) ==
    /\ keysFlight' = [keysFlight EXCEPT ![i] = None]
    /\ verifier' = [c \in Callers |-> IF c \in IssuerCache!Waiters(i)
                                      THEN IssuerCache!Select(c, keys) ELSE verifier[c]]

Failed(i) ==
    /\ keysFlight' = [keysFlight EXCEPT ![i] = None]
    /\ verifier' = [c \in Callers |-> IF c \in IssuerCache!Waiters(i)
                                      THEN IssuerCache!LoadError(c) ELSE verifier[c]]

LEMMA DeliveredType ==
    ASSUME IssuerCache!TypeOK, NEW i \in Issuers,
           Failed(i) \/ \E keys \in IssuerCache!Keys : Delivered(i, keys)
    PROVE  /\ keysFlight' \in [Issuers -> KeyFlight]
           /\ verifier' \in [Callers -> {IssuerCache!Idle} \cup Verification]
<1>1. \A c \in IssuerCache!Waiters(i) :
         /\ IssuerCache!LoadError(c) \in Verification
         /\ \A keys \in IssuerCache!Keys : IssuerCache!Select(c, keys) \in Verification
  BY WaiterType, SelectType, LoadErrorType
<1>2. \A c \in Callers : verifier'[c] = verifier[c] \/ verifier'[c] \in Verification
  BY <1>1 DEF Delivered, Failed
<1>3. verifier' = [c \in Callers |-> verifier'[c]]
  BY DEF Delivered, Failed
<1>4. keysFlight' = [keysFlight EXCEPT ![i] = None]
  BY DEF Delivered, Failed
<1> QED BY <1>2, <1>3, <1>4, DeliverType

\* What the second lookup of a flight does.
Rechecked(i) ==
    [phase |-> "fetch", force |-> keysFlight[i].force,
     refreshed |-> IF keysFlight[i].force THEN keysNow
                   ELSE IF cache[i] = None THEN IssuerCache!Never
                   ELSE cache[i].lastRefresh,
     deadline |-> keysNow + FetchTimeout]

LEMMA RecheckFacts ==
    ASSUME NEW i \in Issuers, IssuerCache!Recheck(i)
    PROVE  /\ keysFlight[i] # None /\ keysFlight[i].phase = "check"
           /\ UNCHANGED <<keysNow, published>>
           /\ \/ /\ IssuerCache!Usable(i, keysFlight[i].force)
                 /\ Delivered(i, cache[i]) /\ UNCHANGED <<cache, lastForced>>
              \/ /\ ~IssuerCache!Usable(i, keysFlight[i].force)
                 /\ keysFlight' = [keysFlight EXCEPT ![i] = Rechecked(i)]
                 /\ cache' = IF keysFlight[i].force /\ cache[i] # None
                             THEN [cache EXCEPT ![i] = [cache[i] EXCEPT !.lastRefresh = keysNow]]
                             ELSE cache
                 /\ lastForced' = IF keysFlight[i].force /\ cache[i] # None
                                  THEN [lastForced EXCEPT ![i] = keysNow] ELSE lastForced
                 /\ UNCHANGED verifier
BY DEF IssuerCache!Recheck, IssuerCache!Deliver, Delivered, Rechecked, IssuerCache!Stamp

\* What storing fetched keys does: at most one other issuer is evicted.
LEMMA FinishFacts ==
    ASSUME NEW i \in Issuers, IssuerCache!Finish(i)
    PROVE  /\ keysFlight[i] # None /\ keysFlight[i].phase = "fetched"
           /\ UNCHANGED <<keysNow, published>>
           /\ Delivered(i, Fetched(i))
           /\ \E gone \in SUBSET Issuers :
                 /\ i \notin gone
                 /\ cache' = [x \in Issuers |-> IF x = i THEN Fetched(i)
                                                ELSE IF x \in gone THEN None ELSE cache[x]]
                 /\ lastForced' = [x \in Issuers |->
                                     IF x \in gone THEN IssuerCache!Never ELSE lastForced[x]]
<1>1. /\ keysFlight[i] # None /\ keysFlight[i].phase = "fetched"
      /\ UNCHANGED <<keysNow, published>>
      /\ Delivered(i, Fetched(i))
  BY DEF IssuerCache!Finish, IssuerCache!Deliver, Delivered, Fetched
<1>2. PICK gone \in IF IssuerCache!Full(i) THEN {{o} : o \in IssuerCache!Oldest} ELSE {{}} :
         /\ cache' = [x \in Issuers |-> IF x = i THEN Fetched(i)
                                        ELSE IF x \in gone THEN None ELSE cache[x]]
         /\ lastForced' = [x \in Issuers |->
                             IF x \in gone THEN IssuerCache!Never ELSE lastForced[x]]
  BY DEF IssuerCache!Finish, Fetched
<1>3. gone \in SUBSET Issuers /\ i \notin gone
  BY DEF IssuerCache!Full, IssuerCache!Oldest, IssuerCache!Cached
<1> QED BY <1>1, <1>2, <1>3

\* Keys, flights and verifications keep their types.
THEOREM KeysTypeCorrect == IssuerCache!Spec => []IssuerCache!TypeOK
<1>1. IssuerCache!Init => IssuerCache!TypeOK
  <2> SUFFICES ASSUME IssuerCache!Init PROVE IssuerCache!TypeOK
    OBVIOUS
  <2>1. IssuerCache!Never \in Int /\ 0 \in IssuerCache!Version
    BY KeysAssumption DEF IssuerCache!Never, IssuerCache!Version
  <2> QED BY <2>1, KeysTypes DEF IssuerCache!Init, KeyFlight
<1>2. IssuerCache!TypeOK /\ [IssuerCache!Next]_(IssuerCache!vars) => IssuerCache!TypeOK'
  <2> SUFFICES ASSUME IssuerCache!TypeOK, [IssuerCache!Next]_(IssuerCache!vars)
               PROVE  IssuerCache!TypeOK'
    OBVIOUS
  <2> DEFINE T == /\ keysNow' \in Nat
                  /\ published' \in [Issuers -> IssuerCache!Version]
                  /\ cache' \in [Issuers -> IssuerCache!Keys \cup {None}]
                  /\ keysFlight' \in [Issuers -> KeyFlight]
                  /\ verifier' \in [Callers -> {IssuerCache!Idle} \cup Verification]
                  /\ lastForced' \in [Issuers -> Int]
  <2>0. /\ keysNow \in Nat
        /\ published \in [Issuers -> IssuerCache!Version]
        /\ cache \in [Issuers -> IssuerCache!Keys \cup {None}]
        /\ keysFlight \in [Issuers -> KeyFlight]
        /\ verifier \in [Callers -> {IssuerCache!Idle} \cup Verification]
        /\ lastForced \in [Issuers -> Int]
    BY KeysTypes
  <2>1. ASSUME NEW c \in Callers, NEW i \in Issuers,
               NEW kid \in IssuerCache!Version \cup {IssuerCache!Unknown},
               IssuerCache!Verify(c, i, kid)
        PROVE  T
    <3>1. [pc |-> "lookup", issuer |-> i, kid |-> kid, force |-> FALSE,
           began |-> keysNow, asOf |-> None] \in Verification
      BY <2>0 DEF Verification
    <3> QED BY <2>0, <2>1, <3>1 DEF IssuerCache!Verify
  <2>2. ASSUME NEW c \in Callers, IssuerCache!Lookup(c) PROVE T
    <3>1. verifier[c] \in Verification
      BY <2>2, VerificationType DEF IssuerCache!Lookup
    <3>2. [verifier[c] EXCEPT !.pc = "missed"] \in Verification
      BY <3>1 DEF Verification
    <3>3. verifier[c].issuer \in Issuers
      BY <3>1 DEF Verification
    <3>4. ASSUME IssuerCache!Usable(verifier[c].issuer, verifier[c].force)
          PROVE  IssuerCache!Select(c, cache[verifier[c].issuer]) \in Verification
      <4>1. cache[verifier[c].issuer] \in IssuerCache!Keys
        BY <2>0, <3>3, <3>4 DEF IssuerCache!Usable
      <4> QED BY <3>1, <4>1, SelectType
    <3> QED BY <2>0, <2>2, <3>2, <3>4 DEF IssuerCache!Lookup
  <2>3. ASSUME NEW c \in Callers, IssuerCache!Do(c) PROVE T
    <3>1. verifier[c] \in Verification
      BY <2>3, VerificationType DEF IssuerCache!Do
    <3>2. /\ [verifier[c] EXCEPT !.pc = "waiting"] \in Verification
          /\ verifier[c].issuer \in Issuers /\ verifier[c].force \in BOOLEAN
      BY <3>1 DEF Verification
    <3>3. verifier' = [verifier EXCEPT ![c] = [verifier[c] EXCEPT !.pc = "waiting"]]
      BY <2>3 DEF IssuerCache!Do
    <3>4. [phase |-> "check", force |-> verifier[c].force] \in KeyFlight
      BY <3>2 DEF KeyFlight, IssuerCache!Flight
    <3>5. keysFlight' \in [Issuers -> KeyFlight]
      BY <2>0, <2>3, <3>4 DEF IssuerCache!Do
    <3> QED BY <2>0, <2>3, <3>2, <3>3, <3>5 DEF IssuerCache!Do
  <2>4. ASSUME NEW c \in Callers, IssuerCache!Return(c) PROVE T
    BY <2>0, <2>4 DEF IssuerCache!Return
  <2>5. ASSUME NEW i \in Issuers, IssuerCache!Recheck(i) PROVE T
    <3>1. CASE IssuerCache!Usable(i, keysFlight[i].force)
      <4>1. cache[i] \in IssuerCache!Keys
        BY <2>0, <3>1 DEF IssuerCache!Usable
      <4> QED BY <2>0, <2>5, <3>1, <4>1, RecheckFacts, DeliveredType
    <3>2. CASE ~IssuerCache!Usable(i, keysFlight[i].force)
      <4>1. keysFlight[i] # None /\ keysFlight[i].force \in BOOLEAN
        BY <2>5, RecheckFacts, FlightType
      <4>2. cache[i] # None => cache[i].lastRefresh \in Int
        BY <2>0 DEF IssuerCache!Keys
      <4>3. Rechecked(i) \in KeyFlight
        BY <2>0, <4>1, <4>2, KeysAssumption
           DEF Rechecked, KeyFlight, IssuerCache!Flight, IssuerCache!Never
      <4>4. cache[i] # None => [cache[i] EXCEPT !.lastRefresh = keysNow] \in IssuerCache!Keys
        BY <2>0 DEF IssuerCache!Keys
      <4>5. cache' \in [Issuers -> IssuerCache!Keys \cup {None}] /\ lastForced' \in [Issuers -> Int]
        BY <2>0, <2>5, <3>2, <4>4, RecheckFacts
      <4> QED BY <2>0, <2>5, <3>2, <4>3, <4>5, RecheckFacts
    <3> QED BY <3>1, <3>2
  <2>6. ASSUME NEW i \in Issuers, IssuerCache!Serve(i) PROVE T
    <3> DEFINE f == keysFlight[i]
               x == [phase |-> "fetched", force |-> f.force, refreshed |-> f.refreshed,
                     deadline |-> f.deadline, version |-> published[i], asOf |-> keysNow]
    <3>1. f # None /\ f.phase = "fetch" /\ keysFlight' = [keysFlight EXCEPT ![i] = x]
      BY <2>6 DEF IssuerCache!Serve
    <3>2. f.force \in BOOLEAN /\ f.refreshed \in Int /\ f.deadline \in Nat
      BY <3>1, FlightType
    <3>3. x \in KeyFlight
      BY <2>0, <3>2 DEF KeyFlight, IssuerCache!Flight
    <3> HIDE DEF x
    <3> QED BY <2>0, <2>6, <3>1, <3>3 DEF IssuerCache!Serve
  <2>7. ASSUME NEW i \in Issuers, IssuerCache!Finish(i) PROVE T
    <3>1. Fetched(i) \in IssuerCache!Keys
      BY <2>7, FinishFacts, FetchedType
    <3>2. /\ keysFlight' \in [Issuers -> KeyFlight]
          /\ verifier' \in [Callers -> {IssuerCache!Idle} \cup Verification]
      BY <2>7, <3>1, FinishFacts, DeliveredType
    <3>3. IssuerCache!Never \in Int
      BY KeysAssumption DEF IssuerCache!Never
    <3>4. cache' \in [Issuers -> IssuerCache!Keys \cup {None}] /\ lastForced' \in [Issuers -> Int]
      BY <2>0, <2>7, <3>1, <3>3, FinishFacts
    <3> QED BY <2>0, <2>7, <3>2, <3>4, FinishFacts
  <2>8. ASSUME NEW i \in Issuers, IssuerCache!Fail(i) PROVE T
    <3>1. Failed(i) /\ UNCHANGED <<keysNow, published, cache, lastForced>>
      BY <2>8 DEF IssuerCache!Fail, IssuerCache!Deliver, Failed
    <3> QED BY <2>0, <3>1, DeliveredType
  <2>9. ASSUME NEW i \in Issuers, IssuerCache!Rotate(i) PROVE T
    <3>1. published[i] + 1 \in IssuerCache!Version
      BY <2>0, <2>9, KeysAssumption DEF IssuerCache!Rotate, IssuerCache!Version
    <3> QED BY <2>0, <2>9, <3>1 DEF IssuerCache!Rotate
  <2>10. ASSUME IssuerCache!Tick PROVE T
    BY <2>0, <2>10 DEF IssuerCache!Tick
  <2>11. ASSUME UNCHANGED IssuerCache!vars PROVE T
    BY <2>0, <2>11 DEF IssuerCache!vars
  <2>12. T
    BY <2>1, <2>2, <2>3, <2>4, <2>5, <2>6, <2>7, <2>8, <2>9, <2>10, <2>11 DEF IssuerCache!Next
  <2> QED BY <2>12, Zenon DEF IssuerCache!TypeOK, IssuerCache!Caller, Verification, KeyFlight,
             IssuerCache!Version, IssuerCache!Keys, IssuerCache!Flight, IssuerCache!Idle,
             IssuerCache!Unknown
<1> QED BY <1>1, <1>2, PTL DEF IssuerCache!Spec


\* Cached keys that were published no longer ago than the limit.
Fresh(keys, t) == keys # None => t <= keys.asOf + CacheTTL + FetchTimeout

\* Cached keys end in time, and so does a fetch.
EntryInv ==
    \A i \in Issuers :
        /\ cache[i] # None => cache[i].expires <= cache[i].asOf + CacheTTL + FetchTimeout
        /\ keysFlight[i] # None =>
              /\ keysFlight[i].phase = "fetch" =>
                    /\ keysNow <= keysFlight[i].deadline
                    /\ keysFlight[i].deadline <= keysNow + FetchTimeout
              /\ keysFlight[i].phase = "fetched" =>
                    /\ keysNow <= keysFlight[i].deadline
                    /\ keysFlight[i].deadline <= keysFlight[i].asOf + FetchTimeout

\* What verification q may rely on, with store as the cache at time t: a forced lookup
\* looks only at its interval, so keys that are still there when a verification turns
\* to one must be fresh by themselves.
CallFresh(q, store, t) ==
    /\ q.began <= t
    /\ q.asOf # None => q.began <= q.asOf + CacheTTL + FetchTimeout
    /\ q.pc \in {"lookup", "missed"} /\ q.force => Fresh(store[q.issuer], t)

FreshInv ==
    /\ EntryInv
    /\ \A c \in Callers : verifier[c] # IssuerCache!Idle =>
          CallFresh(verifier[c], cache, keysNow)
    /\ \A i \in Issuers : keysFlight[i] # None /\ keysFlight[i].phase = "check"
                             /\ keysFlight[i].force => Fresh(cache[i], keysNow)

\* Usable keys are fresh: an ordinary lookup sees to it, a forced one inherits it.
LEMMA UsableFresh ==
    ASSUME IssuerCache!TypeOK, EntryInv, NEW i \in Issuers, NEW force \in BOOLEAN,
           IssuerCache!Usable(i, force), force => Fresh(cache[i], keysNow)
    PROVE  /\ cache[i] \in IssuerCache!Keys
           /\ keysNow <= cache[i].asOf + CacheTTL + FetchTimeout
<1>1. cache[i] # None /\ cache[i] \in IssuerCache!Keys
  BY KeysTypes DEF IssuerCache!Usable
<1>2. CASE force
  BY <1>1, <1>2 DEF Fresh
<1>3. CASE ~force
  <2>1. keysNow < cache[i].expires /\ cache[i].expires <= cache[i].asOf + CacheTTL + FetchTimeout
    BY <1>1, <1>3 DEF IssuerCache!Usable, EntryInv
  <2>2. /\ keysNow \in Nat /\ cache[i].expires \in Nat /\ cache[i].asOf \in Nat
        /\ CacheTTL \in Nat /\ FetchTimeout \in Nat
    BY <1>1, KeysTypes, KeysAssumption DEF IssuerCache!Keys
  <2> QED BY <1>1, <2>1, <2>2
<1> QED BY <1>2, <1>3

\* A verification that is given fresh keys, the ones that are cached from now on.
LEMMA SelectFresh ==
    ASSUME IssuerCache!TypeOK, NEW c \in Callers, verifier[c] \in Verification,
           CallFresh(verifier[c], cache, keysNow), NEW keys \in IssuerCache!Keys,
           keysNow <= keys.asOf + CacheTTL + FetchTimeout,
           keysNow' = keysNow, cache'[verifier[c].issuer] = keys
    PROVE  CallFresh(IssuerCache!Select(c, keys), cache', keysNow')
<1> DEFINE x == IssuerCache!Select(c, keys)
<1>1. /\ x.issuer = verifier[c].issuer /\ x.began = verifier[c].began
      /\ x.asOf = keys.asOf
  BY SelectType
<1>2. verifier[c].began <= keysNow
  BY DEF CallFresh
<1>3. /\ verifier[c].began \in Nat /\ keysNow \in Nat /\ keys.asOf \in Nat
      /\ CacheTTL \in Nat /\ FetchTimeout \in Nat
  BY KeysTypes, KeysAssumption DEF Verification, IssuerCache!Keys
<1> HIDE DEF x
<1>4. x.began <= x.asOf + CacheTTL + FetchTimeout
  BY <1>1, <1>2, <1>3
<1>5. Fresh(cache'[x.issuer], keysNow')
  BY <1>1 DEF Fresh
<1>6. CallFresh(x, cache', keysNow')
  BY <1>1, <1>2, <1>4, <1>5 DEF CallFresh
<1> QED BY <1>6 DEF x

\* A flight that ends with fresh keys leaves every verification fresh.
LEMMA DeliveredFresh ==
    ASSUME IssuerCache!TypeOK, FreshInv, NEW i \in Issuers, NEW keys \in IssuerCache!Keys,
           Delivered(i, keys), keysNow' = keysNow, cache'[i] = keys,
           keysNow <= keys.asOf + CacheTTL + FetchTimeout,
           \A j \in Issuers : Fresh(cache[j], keysNow) => Fresh(cache'[j], keysNow')
    PROVE  /\ \A c \in Callers : verifier'[c] # IssuerCache!Idle =>
                 CallFresh(verifier'[c], cache', keysNow')
           /\ \A j \in Issuers : keysFlight'[j] # None => keysFlight'[j] = keysFlight[j]
<1>1. ASSUME NEW c \in Callers, verifier'[c] # IssuerCache!Idle
      PROVE  CallFresh(verifier'[c], cache', keysNow')
  <2>1. CASE c \in IssuerCache!Waiters(i)
    <3>1. verifier[c] \in Verification /\ verifier[c].issuer = i
      BY <2>1, WaiterType
    <3>2. CallFresh(verifier[c], cache, keysNow)
      BY <3>1 DEF FreshInv, Verification, IssuerCache!Idle
    <3>3. verifier'[c] = IssuerCache!Select(c, keys)
      BY <2>1 DEF Delivered
    <3> QED BY <3>1, <3>2, <3>3, SelectFresh
  <2>2. CASE c \notin IssuerCache!Waiters(i)
    <3>1. verifier'[c] = verifier[c]
      BY <2>2 DEF Delivered
    <3>2. CallFresh(verifier[c], cache, keysNow) /\ verifier[c] \in Verification
      BY <1>1, <3>1, KeysTypes DEF FreshInv
    <3>3. verifier[c].issuer \in Issuers
      BY <3>2 DEF Verification
    <3> QED BY <3>1, <3>2, <3>3 DEF CallFresh
  <2> QED BY <2>1, <2>2
<1>2. \A j \in Issuers : keysFlight'[j] # None => keysFlight'[j] = keysFlight[j]
  BY KeysTypes DEF Delivered
<1> QED BY <1>1, <1>2


\* A step that changes one verification and leaves keys and flights alone.
LEMMA CallFreshStep ==
    ASSUME IssuerCache!TypeOK, FreshInv, NEW c \in Callers, NEW x,
           verifier' = [verifier EXCEPT ![c] = x],
           x # IssuerCache!Idle => CallFresh(x, cache, keysNow),
           UNCHANGED <<keysNow, cache>>
    PROVE  \A o \in Callers : verifier'[o] # IssuerCache!Idle =>
               CallFresh(verifier'[o], cache', keysNow')
<1>1. \A o \in Callers : verifier'[o] = IF o = c THEN x ELSE verifier[o]
  BY KeysTypes
<1> QED BY <1>1 DEF FreshInv

\* The entries and the flights of the cache stay in time.
LEMMA EntryStep ==
    ASSUME IssuerCache!TypeOK, FreshInv, [IssuerCache!Next]_(IssuerCache!vars)
    PROVE  EntryInv'
<1>0. /\ keysNow \in Nat /\ CacheTTL \in Nat /\ FetchTimeout \in Nat
      /\ EntryInv /\ keysFlight \in [Issuers -> KeyFlight]
      /\ cache \in [Issuers -> IssuerCache!Keys \cup {None}]
  BY KeysTypes, KeysAssumption DEF FreshInv
<1>1. CASE UNCHANGED <<keysNow, cache, keysFlight>>
  BY <1>0, <1>1 DEF EntryInv
<1>2. ASSUME NEW c \in Callers, IssuerCache!Do(c) PROVE EntryInv'
  <2>1. /\ UNCHANGED <<keysNow, cache>>
        /\ \A i \in Issuers : keysFlight'[i] = keysFlight[i] \/ keysFlight'[i].phase = "check"
    BY <1>0, <1>2 DEF IssuerCache!Do
  <2> QED BY <1>0, <2>1 DEF EntryInv
<1>3. ASSUME NEW i \in Issuers, Failed(i), UNCHANGED <<keysNow, cache>> PROVE EntryInv'
  BY <1>0, <1>3 DEF EntryInv, Failed
<1>4. ASSUME NEW i \in Issuers, IssuerCache!Recheck(i) PROVE EntryInv'
  <2>1. CASE IssuerCache!Usable(i, keysFlight[i].force)
    BY <1>0, <1>4, <2>1, RecheckFacts DEF EntryInv, Delivered
  <2>2. CASE ~IssuerCache!Usable(i, keysFlight[i].force)
    <3>1. /\ keysNow' = keysNow /\ keysFlight' = [keysFlight EXCEPT ![i] = Rechecked(i)]
          /\ Rechecked(i).phase = "fetch" /\ Rechecked(i).deadline = keysNow + FetchTimeout
      BY <1>4, <2>2, RecheckFacts DEF Rechecked
    <3>2. \A j \in Issuers :
             \/ cache'[j] = cache[j]
             \/ /\ cache[j] # None
                /\ cache'[j] = [cache[j] EXCEPT !.lastRefresh = keysNow]
      BY <1>0, <1>4, <2>2, RecheckFacts
    <3>3. \A j \in Issuers : cache'[j] # None =>
             /\ cache[j] # None
             /\ cache'[j].expires = cache[j].expires /\ cache'[j].asOf = cache[j].asOf
      BY <1>0, <3>2 DEF IssuerCache!Keys
    <3>4. \A j \in Issuers : keysFlight'[j] = IF j = i THEN Rechecked(i) ELSE keysFlight[j]
      BY <1>0, <3>1
    <3>5. keysNow <= keysNow + FetchTimeout
      BY <1>0
    <3> QED BY <1>0, <3>1, <3>3, <3>4, <3>5 DEF EntryInv
  <2> QED BY <2>1, <2>2
<1>5. ASSUME NEW i \in Issuers, IssuerCache!Serve(i) PROVE EntryInv'
  <2> DEFINE f == keysFlight[i]
             x == [phase |-> "fetched", force |-> f.force, refreshed |-> f.refreshed,
                   deadline |-> f.deadline, version |-> published[i], asOf |-> keysNow]
  <2>1. /\ f # None /\ f.phase = "fetch" /\ keysFlight' = [keysFlight EXCEPT ![i] = x]
        /\ UNCHANGED <<keysNow, cache>>
    BY <1>5 DEF IssuerCache!Serve
  <2>2. x.phase = "fetched" /\ x.deadline = f.deadline /\ x.asOf = keysNow
    OBVIOUS
  <2> HIDE DEF x
  <2>3. \A j \in Issuers : keysFlight'[j] = IF j = i THEN x ELSE keysFlight[j]
    BY <1>0, <2>1
  <2> QED BY <1>0, <2>1, <2>2, <2>3 DEF EntryInv
<1>6. ASSUME NEW i \in Issuers, IssuerCache!Finish(i) PROVE EntryInv'
  <2>1. /\ keysFlight[i] # None /\ keysFlight[i].phase = "fetched"
        /\ keysNow' = keysNow /\ keysFlight' = [keysFlight EXCEPT ![i] = None]
        /\ \A j \in Issuers : cache'[j] \in {cache[j], None} \/ (j = i /\ cache'[j] = Fetched(i))
    BY <1>6, FinishFacts DEF Delivered
  <2>2. /\ keysNow <= keysFlight[i].deadline
        /\ keysFlight[i].deadline <= keysFlight[i].asOf + FetchTimeout
        /\ keysFlight[i].deadline \in Nat /\ keysFlight[i].asOf \in Nat
    BY <1>0, <2>1, FlightType DEF EntryInv
  <2>3. Fetched(i).expires <= Fetched(i).asOf + CacheTTL + FetchTimeout
    BY <1>0, <2>2 DEF Fetched
  <2> QED BY <1>0, <2>1, <2>3 DEF EntryInv
<1>7. CASE IssuerCache!Tick
  <2>1. /\ keysNow' = keysNow + 1 /\ UNCHANGED <<cache, keysFlight>>
        /\ \A i \in Issuers : keysFlight[i] # None /\ keysFlight[i].phase # "check" =>
              keysNow < keysFlight[i].deadline
    BY <1>7 DEF IssuerCache!Tick
  <2>2. \A i \in Issuers :
           keysFlight[i] # None /\ keysFlight[i].phase \in {"fetch", "fetched"} =>
               keysFlight[i].deadline \in Nat /\ keysNow + 1 <= keysFlight[i].deadline
    BY <1>0, <2>1, FlightType
  <2>3. \A i \in Issuers : keysFlight[i] # None /\ keysFlight[i].phase = "fetch" =>
           keysFlight[i].deadline <= keysNow + 1 + FetchTimeout
    BY <1>0, <2>2 DEF EntryInv
  <2> QED BY <1>0, <2>1, <2>2, <2>3 DEF EntryInv
<1>8. ASSUME NEW i \in Issuers, IssuerCache!Fail(i)
      PROVE  Failed(i) /\ UNCHANGED <<keysNow, cache>>
  BY <1>8 DEF IssuerCache!Fail, IssuerCache!Deliver, Failed
<1>9. \/ UNCHANGED <<keysNow, cache, keysFlight>>
      \/ \E c \in Callers : IssuerCache!Do(c)
      \/ \E i \in Issuers : \/ IssuerCache!Recheck(i) \/ IssuerCache!Serve(i)
                            \/ IssuerCache!Finish(i) \/ IssuerCache!Fail(i)
      \/ IssuerCache!Tick
  BY DEF IssuerCache!Next, IssuerCache!vars, IssuerCache!Verify, IssuerCache!Lookup,
         IssuerCache!Return, IssuerCache!Rotate
<1> QED BY <1>1, <1>2, <1>3, <1>4, <1>5, <1>6, <1>7, <1>8, <1>9


\* Verifications and flights keep relying on fresh keys only.  That a goroutine which can run
\* takes no time before it does is what lets a forced lookup trust the keys it has seen.
LEMMA FreshStep ==
    ASSUME Prompt, IssuerCache!TypeOK, FreshInv, [IssuerCache!Next]_(IssuerCache!vars)
    PROVE  FreshInv'
<1> DEFINE Calls == \A c \in Callers : verifier'[c] # IssuerCache!Idle =>
                       CallFresh(verifier'[c], cache', keysNow')
           Checks == \A i \in Issuers : keysFlight'[i] # None /\ keysFlight'[i].phase = "check"
                        /\ keysFlight'[i].force => Fresh(cache'[i], keysNow')
<1> SUFFICES Calls /\ Checks
  BY EntryStep DEF FreshInv
<1>0. /\ keysNow \in Nat /\ CacheTTL \in Nat /\ FetchTimeout \in Nat
      /\ EntryInv /\ keysFlight \in [Issuers -> KeyFlight]
      /\ cache \in [Issuers -> IssuerCache!Keys \cup {None}]
      /\ verifier \in [Callers -> {IssuerCache!Idle} \cup Verification]
  BY KeysTypes, KeysAssumption DEF FreshInv
<1>a. ASSUME NEW c \in Callers, verifier[c].pc # "idle"
      PROVE  /\ verifier[c] \in Verification /\ CallFresh(verifier[c], cache, keysNow)
             /\ verifier[c].issuer \in Issuers /\ verifier[c].force \in BOOLEAN
  <2>1. verifier[c] # IssuerCache!Idle /\ verifier[c] \in Verification
    BY <1>a, VerificationType DEF IssuerCache!Idle
  <2> QED BY <2>1 DEF FreshInv, Verification
<1>1. ASSUME NEW c \in Callers, NEW i \in Issuers, NEW kid, IssuerCache!Verify(c, i, kid)
      PROVE  Calls /\ Checks
  <2> DEFINE x == [pc |-> "lookup", issuer |-> i, kid |-> kid, force |-> FALSE,
                   began |-> keysNow, asOf |-> None]
  <2>1. CallFresh(x, cache, keysNow)
    BY <1>0 DEF CallFresh
  <2>2. verifier' = [verifier EXCEPT ![c] = x] /\ UNCHANGED <<keysNow, cache, keysFlight>>
    BY <1>1 DEF IssuerCache!Verify
  <2> HIDE DEF x
  <2>3. Calls
    BY <2>1, <2>2, CallFreshStep
  <2> QED BY <2>2, <2>3 DEF FreshInv
<1>2. ASSUME NEW c \in Callers, IssuerCache!Lookup(c) PROVE Calls /\ Checks
  <2> DEFINE q == verifier[c]
  <2>1. /\ q.pc = "lookup" /\ UNCHANGED <<keysNow, cache, keysFlight>>
        /\ \/ /\ IssuerCache!Usable(q.issuer, q.force)
              /\ verifier' = [verifier EXCEPT ![c] = IssuerCache!Select(c, cache[q.issuer])]
           \/ verifier' = [verifier EXCEPT ![c] = [q EXCEPT !.pc = "missed"]]
    BY <1>2 DEF IssuerCache!Lookup
  <2>2. /\ q \in Verification /\ CallFresh(q, cache, keysNow)
        /\ q.issuer \in Issuers /\ q.force \in BOOLEAN
    BY <1>a, <2>1
  <2>3. q.force => Fresh(cache[q.issuer], keysNow)
    BY <2>1, <2>2 DEF CallFresh
  <2>4. CASE /\ IssuerCache!Usable(q.issuer, q.force)
             /\ verifier' = [verifier EXCEPT ![c] = IssuerCache!Select(c, cache[q.issuer])]
    <3>1. /\ cache[q.issuer] \in IssuerCache!Keys
          /\ keysNow <= cache[q.issuer].asOf + CacheTTL + FetchTimeout
      BY <1>0, <2>2, <2>3, <2>4, UsableFresh
    <3>2. CallFresh(IssuerCache!Select(c, cache[q.issuer]), cache', keysNow')
      BY <2>1, <2>2, <3>1, SelectFresh
    <3>3. CallFresh(IssuerCache!Select(c, cache[q.issuer]), cache, keysNow)
      BY <2>1, <3>2
    <3> QED BY <2>1, <2>4, <3>3, CallFreshStep DEF FreshInv
  <2>5. CASE verifier' = [verifier EXCEPT ![c] = [q EXCEPT !.pc = "missed"]]
    <3> DEFINE x == [q EXCEPT !.pc = "missed"]
    <3>1. /\ x.began = q.began /\ x.asOf = q.asOf /\ x.issuer = q.issuer /\ x.force = q.force
      BY <2>2 DEF Verification
    <3> HIDE DEF x
    <3>2. CallFresh(x, cache, keysNow)
      BY <2>2, <2>3, <3>1 DEF CallFresh
    <3>3. verifier' = [verifier EXCEPT ![c] = x]
      BY <2>5 DEF x
    <3> QED BY <2>1, <3>2, <3>3, CallFreshStep DEF FreshInv
  <2> QED BY <2>1, <2>4, <2>5
<1>3. ASSUME NEW c \in Callers, IssuerCache!Do(c) PROVE Calls /\ Checks
  <2> DEFINE q == verifier[c]
             x == [q EXCEPT !.pc = "waiting"]
             new == [phase |-> "check", force |-> q.force]
  <2>1. /\ q.pc = "missed" /\ UNCHANGED <<keysNow, cache>>
        /\ verifier' = [verifier EXCEPT ![c] = x]
        /\ keysFlight' = keysFlight \/ keysFlight' = [keysFlight EXCEPT ![q.issuer] = new]
    BY <1>3 DEF IssuerCache!Do
  <2>2. /\ q \in Verification /\ CallFresh(q, cache, keysNow)
        /\ q.issuer \in Issuers /\ q.force \in BOOLEAN
    BY <1>a, <2>1
  <2>3. q.force => Fresh(cache[q.issuer], keysNow)
    BY <2>1, <2>2 DEF CallFresh
  <2>4. /\ x.began = q.began /\ x.asOf = q.asOf /\ x.pc = "waiting"
        /\ new.force = q.force
    BY <2>2 DEF Verification
  <2> HIDE DEF x, new
  <2>5. CallFresh(x, cache, keysNow)
    BY <2>2, <2>4 DEF CallFresh
  <2>6. Calls
    BY <2>1, <2>5, CallFreshStep
  <2>7. \A i \in Issuers : keysFlight'[i] = keysFlight[i] \/ (i = q.issuer /\ keysFlight'[i] = new)
    BY <1>0, <2>1
  <2>8. Checks
    BY <2>1, <2>3, <2>4, <2>7 DEF FreshInv
  <2> QED BY <2>6, <2>8
<1>4. ASSUME NEW c \in Callers, IssuerCache!Return(c) PROVE Calls /\ Checks
  BY <1>4, CallFreshStep DEF IssuerCache!Return, FreshInv
<1>5. ASSUME NEW i \in Issuers, IssuerCache!Recheck(i) PROVE Calls /\ Checks
  <2> DEFINE f == keysFlight[i]
  <2>1. /\ f # None /\ f.phase = "check" /\ keysNow' = keysNow /\ f.force \in BOOLEAN
        /\ f.force => Fresh(cache[i], keysNow)
    BY <1>5, RecheckFacts, FlightType DEF FreshInv
  <2>2. CASE IssuerCache!Usable(i, f.force)
    <3>1. Delivered(i, cache[i]) /\ cache' = cache
      BY <1>5, <2>2, RecheckFacts
    <3>2. cache[i] \in IssuerCache!Keys /\ keysNow <= cache[i].asOf + CacheTTL + FetchTimeout
      BY <1>0, <2>1, <2>2, UsableFresh
    <3>3. /\ Calls
          /\ \A j \in Issuers : keysFlight'[j] # None => keysFlight'[j] = keysFlight[j]
      BY <2>1, <3>1, <3>2, DeliveredFresh
    <3> QED BY <2>1, <3>1, <3>3 DEF FreshInv
  <2>3. CASE ~IssuerCache!Usable(i, f.force)
    <3>1. /\ verifier' = verifier /\ keysFlight' = [keysFlight EXCEPT ![i] = Rechecked(i)]
          /\ Rechecked(i).phase = "fetch"
      BY <1>5, <2>3, RecheckFacts DEF Rechecked
    <3>2. \A j \in Issuers :
             \/ cache'[j] = cache[j]
             \/ /\ cache[j] # None
                /\ cache'[j] = [cache[j] EXCEPT !.lastRefresh = keysNow]
      BY <1>0, <1>5, <2>3, RecheckFacts
    <3>a. \A j \in Issuers : cache'[j] # None =>
             cache[j] # None /\ cache'[j].asOf = cache[j].asOf
      BY <1>0, <3>2 DEF IssuerCache!Keys
    <3>3. \A j \in Issuers : Fresh(cache[j], keysNow) => Fresh(cache'[j], keysNow')
      BY <2>1, <3>a DEF Fresh
    <3>4. \A c \in Callers : verifier[c] # IssuerCache!Idle => verifier[c].issuer \in Issuers
      BY <1>0 DEF Verification
    <3>5. Calls
      BY <2>1, <3>1, <3>3, <3>4 DEF FreshInv, CallFresh
    <3>6. \A j \in Issuers : keysFlight'[j] = IF j = i THEN Rechecked(i) ELSE keysFlight[j]
      BY <1>0, <3>1
    <3>7. Checks
      BY <3>1, <3>3, <3>6 DEF FreshInv
    <3> QED BY <3>5, <3>7
  <2> QED BY <2>2, <2>3
<1>6. ASSUME NEW i \in Issuers, IssuerCache!Serve(i) PROVE Calls /\ Checks
  <2>1. /\ UNCHANGED <<keysNow, cache, verifier>>
        /\ \A j \in Issuers : keysFlight'[j] = keysFlight[j] \/ keysFlight'[j].phase = "fetched"
    BY <1>0, <1>6 DEF IssuerCache!Serve
  <2> QED BY <2>1 DEF FreshInv
<1>7. ASSUME NEW i \in Issuers, IssuerCache!Finish(i) PROVE Calls /\ Checks
  <2>1. /\ keysFlight[i] # None /\ keysFlight[i].phase = "fetched" /\ keysNow' = keysNow
        /\ Delivered(i, Fetched(i)) /\ cache'[i] = Fetched(i)
        /\ \A j \in Issuers : j = i \/ cache'[j] \in {cache[j], None}
    BY <1>7, FinishFacts
  <2>2. /\ keysNow <= keysFlight[i].deadline
        /\ keysFlight[i].deadline <= keysFlight[i].asOf + FetchTimeout
        /\ keysFlight[i].deadline \in Nat /\ keysFlight[i].asOf \in Nat
    BY <1>0, <2>1, FlightType DEF EntryInv
  <2>3. keysNow <= Fetched(i).asOf + CacheTTL + FetchTimeout
    BY <1>0, <2>2 DEF Fetched
  <2>4. \A j \in Issuers : Fresh(cache[j], keysNow) => Fresh(cache'[j], keysNow')
    BY <2>1, <2>3 DEF Fresh
  <2>5. /\ Calls
        /\ \A j \in Issuers : keysFlight'[j] # None => keysFlight'[j] = keysFlight[j]
    BY <2>1, <2>3, <2>4, FetchedType, DeliveredFresh
  <2> QED BY <2>4, <2>5 DEF FreshInv
<1>8. ASSUME NEW i \in Issuers, IssuerCache!Fail(i) PROVE Calls /\ Checks
  <2>1. Failed(i) /\ UNCHANGED <<keysNow, cache>>
    BY <1>8 DEF IssuerCache!Fail, IssuerCache!Deliver, Failed
  <2>2. Checks
    BY <1>0, <2>1 DEF Failed, FreshInv
  <2>3. ASSUME NEW c \in Callers, verifier'[c] # IssuerCache!Idle
        PROVE  CallFresh(verifier'[c], cache', keysNow')
    <3>1. CASE c \in IssuerCache!Waiters(i)
      <4>1. verifier[c] \in Verification /\ verifier'[c] = IssuerCache!LoadError(c)
        BY <2>1, <3>1, WaiterType DEF Failed
      <4>2. /\ verifier'[c].began = verifier[c].began /\ verifier'[c].asOf = verifier[c].asOf
            /\ verifier'[c].pc \in {"refused", "error"}
        BY <4>1, LoadErrorType
      <4>3. verifier[c].pc # "idle"
        BY <4>1 DEF Verification
      <4> QED BY <1>a, <2>1, <4>2, <4>3 DEF CallFresh
    <3>2. CASE c \notin IssuerCache!Waiters(i)
      BY <2>1, <2>3, <3>2 DEF Failed, FreshInv
    <3> QED BY <3>1, <3>2
  <2> QED BY <2>2, <2>3
<1>9. CASE UNCHANGED <<keysNow, cache, keysFlight, verifier>>
  BY <1>9 DEF FreshInv
<1>10. CASE IssuerCache!Tick
  <2>1. /\ keysNow' = keysNow + 1 /\ UNCHANGED <<cache, keysFlight, verifier>>
        /\ ~IssuerCache!Runnable
    BY <1>10 DEF IssuerCache!Tick
  <2>2. /\ \A c \in Callers : verifier[c].pc \notin {"lookup", "missed"}
        /\ \A i \in Issuers : ~(keysFlight[i] # None /\ keysFlight[i].phase = "check")
    BY <2>1 DEF IssuerCache!Runnable
  <2>3. \A c \in Callers : verifier[c] # IssuerCache!Idle => verifier[c].began \in Nat
    BY <1>0 DEF Verification
  <2>4. \A c \in Callers : verifier[c] # IssuerCache!Idle => verifier[c].began <= keysNow + 1
    BY <1>0, <2>3 DEF FreshInv, CallFresh
  <2> QED BY <2>1, <2>2, <2>4 DEF FreshInv, CallFresh
<1>11. ASSUME NEW i \in Issuers, IssuerCache!Rotate(i)
       PROVE  UNCHANGED <<keysNow, cache, keysFlight, verifier>>
  BY <1>11 DEF IssuerCache!Rotate
<1>12. UNCHANGED IssuerCache!vars => UNCHANGED <<keysNow, cache, keysFlight, verifier>>
  BY DEF IssuerCache!vars
<1> HIDE DEF Calls, Checks
<1> QED BY <1>1, <1>2, <1>3, <1>4, <1>5, <1>6, <1>7, <1>8, <1>9, <1>10, <1>11, <1>12
        DEF IssuerCache!Next

\* A verification concludes from keys that were published at most cacheTTL and one fetch
\* before it began, also when its forced load is throttled or joins a flight (loadIssuer).
\* Scheduling is assumed prompt: a goroutine that can run does so before the clock moves.
THEOREM KeysFreshHolds == ASSUME Prompt PROVE IssuerCache!Spec => []KeysFresh
<1>1. IssuerCache!Init => FreshInv
  BY DEF IssuerCache!Init, FreshInv, EntryInv
<1>2. IssuerCache!TypeOK /\ FreshInv /\ [IssuerCache!Next]_(IssuerCache!vars) => FreshInv'
  BY FreshStep
<1>3. FreshInv => KeysFresh
  BY DEF FreshInv, CallFresh, KeysFresh, IssuerCache!KeysFresh
<1> QED BY <1>1, <1>2, <1>3, KeysTypeCorrect, PTL DEF IssuerCache!Spec


\* The stamp of cached keys, and of a fetch under way, is no older than the last forced load
\* that was counted; an issuer that is not cached has none.
StampInv ==
    \A i \in Issuers :
        /\ IssuerCache!Never <= lastForced[i] /\ lastForced[i] <= keysNow
        /\ cache[i] = None => lastForced[i] = IssuerCache!Never
        /\ cache[i] # None => lastForced[i] <= cache[i].lastRefresh
        /\ keysFlight[i] # None /\ keysFlight[i].phase \in {"fetch", "fetched"} =>
              lastForced[i] <= keysFlight[i].refreshed

\* One step: forced loads are apart, and the stamps stay in order.
Spaced ==
    \A i \in Issuers :
        lastForced'[i] # lastForced[i] /\ lastForced'[i] # IssuerCache!Never
            => lastForced'[i] - lastForced[i] >= RefreshWait

LEMMA StampStep ==
    ASSUME IssuerCache!TypeOK, StampInv, [IssuerCache!Next]_(IssuerCache!vars)
    PROVE  StampInv' /\ Spaced
<1>0. /\ keysNow \in Nat /\ RefreshWait \in Nat /\ IssuerCache!Never \in Int
      /\ IssuerCache!Never <= 0 /\ None \notin IssuerCache!Keys
      /\ keysFlight \in [Issuers -> KeyFlight] /\ lastForced \in [Issuers -> Int]
      /\ cache \in [Issuers -> IssuerCache!Keys \cup {None}]
      /\ \A i \in Issuers : cache[i] # None => cache[i].lastRefresh \in Int
  BY KeysTypes, KeysAssumption DEF IssuerCache!Never, IssuerCache!Keys
<1>1. ASSUME UNCHANGED <<keysNow, cache, lastForced>>,
             \A i \in Issuers : keysFlight'[i] = keysFlight[i] \/ keysFlight'[i] = None
                                  \/ keysFlight'[i].phase = "check"
      PROVE  StampInv' /\ Spaced
  BY <1>1 DEF StampInv, Spaced
<1>2. ASSUME NEW c \in Callers, IssuerCache!Do(c) PROVE StampInv' /\ Spaced
  <2>1. /\ UNCHANGED <<keysNow, cache, lastForced>>
        /\ \A i \in Issuers : keysFlight'[i] = keysFlight[i] \/ keysFlight'[i].phase = "check"
    BY <1>0, <1>2 DEF IssuerCache!Do
  <2> QED BY <1>1, <2>1
<1>3. ASSUME NEW i \in Issuers, IssuerCache!Fail(i) PROVE StampInv' /\ Spaced
  <2>1. /\ UNCHANGED <<keysNow, cache, lastForced>>
        /\ \A j \in Issuers : keysFlight'[j] = keysFlight[j] \/ keysFlight'[j] = None
    BY <1>0, <1>3 DEF IssuerCache!Fail, IssuerCache!Deliver
  <2> QED BY <1>1, <2>1
<1>4. ASSUME NEW i \in Issuers, IssuerCache!Serve(i) PROVE StampInv' /\ Spaced
  <2> DEFINE f == keysFlight[i]
             x == [phase |-> "fetched", force |-> f.force, refreshed |-> f.refreshed,
                   deadline |-> f.deadline, version |-> published[i], asOf |-> keysNow]
  <2>1. /\ f # None /\ f.phase = "fetch" /\ keysFlight' = [keysFlight EXCEPT ![i] = x]
        /\ UNCHANGED <<keysNow, cache, lastForced>>
    BY <1>4 DEF IssuerCache!Serve
  <2>2. x.refreshed = f.refreshed
    OBVIOUS
  <2> HIDE DEF x
  <2>3. \A j \in Issuers : keysFlight'[j] = IF j = i THEN x ELSE keysFlight[j]
    BY <1>0, <2>1
  <2> QED BY <2>1, <2>2, <2>3 DEF StampInv, Spaced
<1>5. ASSUME NEW i \in Issuers, IssuerCache!Finish(i) PROVE StampInv' /\ Spaced
  <2>1. /\ keysFlight[i] # None /\ keysFlight[i].phase = "fetched" /\ keysNow' = keysNow
        /\ keysFlight' = [keysFlight EXCEPT ![i] = None]
    BY <1>5, FinishFacts DEF Delivered
  <2>2. PICK gone \in SUBSET Issuers :
           /\ i \notin gone
           /\ cache' = [x \in Issuers |-> IF x = i THEN Fetched(i)
                                          ELSE IF x \in gone THEN None ELSE cache[x]]
           /\ lastForced' = [x \in Issuers |->
                               IF x \in gone THEN IssuerCache!Never ELSE lastForced[x]]
    BY <1>5, FinishFacts
  <2>3. Fetched(i) # None /\ Fetched(i).lastRefresh = keysFlight[i].refreshed
    BY <1>0, <2>1, FetchedType DEF Fetched
  <2>4. Spaced
    BY <2>2 DEF Spaced
  <2>5. ASSUME NEW j \in Issuers
        PROVE  /\ IssuerCache!Never <= lastForced'[j] /\ lastForced'[j] <= keysNow'
               /\ cache'[j] = None => lastForced'[j] = IssuerCache!Never
               /\ cache'[j] # None => lastForced'[j] <= cache'[j].lastRefresh
               /\ keysFlight'[j] # None /\ keysFlight'[j].phase \in {"fetch", "fetched"} =>
                     lastForced'[j] <= keysFlight'[j].refreshed
    <3>0. keysFlight'[j] = IF j = i THEN None ELSE keysFlight[j]
      BY <1>0, <2>1
    <3>1. CASE j = i
      <4>1. lastForced'[j] = lastForced[j] /\ cache'[j] = Fetched(i)
        BY <2>2, <3>1
      <4> QED BY <2>1, <2>3, <3>0, <3>1, <4>1 DEF StampInv
    <3>2. CASE j # i /\ j \in gone
      <4>1. lastForced'[j] = IssuerCache!Never /\ cache'[j] = None
        BY <2>2, <3>2
      <4>2. /\ keysFlight[j] # None /\ keysFlight[j].phase \in {"fetch", "fetched"} =>
                  IssuerCache!Never <= keysFlight[j].refreshed
        <5> SUFFICES ASSUME keysFlight[j] # None, keysFlight[j].phase \in {"fetch", "fetched"}
                     PROVE  IssuerCache!Never <= keysFlight[j].refreshed
          OBVIOUS
        <5>1. keysFlight[j].refreshed \in Int /\ lastForced[j] \in Int
          BY <1>0, FlightType
        <5>2. IssuerCache!Never <= lastForced[j] /\ lastForced[j] <= keysFlight[j].refreshed
          BY DEF StampInv
        <5> QED BY <1>0, <5>1, <5>2
      <4>3. IssuerCache!Never <= IssuerCache!Never /\ IssuerCache!Never <= keysNow
        BY <1>0
      <4> QED BY <2>1, <3>0, <3>2, <4>1, <4>2, <4>3
    <3>3. CASE j # i /\ j \notin gone
      <4>1. lastForced'[j] = lastForced[j] /\ cache'[j] = cache[j]
        BY <2>2, <3>3
      <4> QED BY <2>1, <3>0, <3>3, <4>1 DEF StampInv
    <3> QED BY <3>1, <3>2, <3>3
  <2> QED BY <2>4, <2>5 DEF StampInv
<1>6. ASSUME NEW i \in Issuers, IssuerCache!Recheck(i) PROVE StampInv' /\ Spaced
  <2> DEFINE f == keysFlight[i]
  <2>1. /\ f # None /\ f.phase = "check" /\ keysNow' = keysNow /\ f.force \in BOOLEAN
    BY <1>6, RecheckFacts, FlightType
  <2>2. CASE IssuerCache!Usable(i, f.force)
    <3>1. /\ UNCHANGED <<keysNow, cache, lastForced>>
          /\ \A j \in Issuers : keysFlight'[j] = keysFlight[j] \/ keysFlight'[j] = None
      BY <1>0, <1>6, <2>2, RecheckFacts DEF Delivered
    <3> QED BY <1>1, <3>1
  <2>3. CASE ~IssuerCache!Usable(i, f.force)
    <3>1. /\ \A j \in Issuers : keysFlight'[j] = IF j = i THEN Rechecked(i) ELSE keysFlight[j]
          /\ Rechecked(i).refreshed = IF f.force THEN keysNow
                                      ELSE IF cache[i] = None THEN IssuerCache!Never
                                      ELSE cache[i].lastRefresh
      BY <1>0, <1>6, <2>3, RecheckFacts DEF Rechecked
    <3>2. CASE f.force /\ cache[i] # None
      <4>1. /\ \A j \in Issuers : lastForced'[j] = IF j = i THEN keysNow ELSE lastForced[j]
            /\ \A j \in Issuers : j # i => cache'[j] = cache[j]
            /\ cache'[i] = [cache[i] EXCEPT !.lastRefresh = keysNow]
        BY <1>0, <1>6, <2>3, <3>2, RecheckFacts
      <4>2. cache'[i] \in IssuerCache!Keys /\ cache'[i].lastRefresh = keysNow
        BY <1>0, <3>2, <4>1 DEF IssuerCache!Keys
      <4>3. ~(keysNow - cache[i].lastRefresh < RefreshWait)
        BY <2>3, <3>2 DEF IssuerCache!Usable
      <4>4. /\ lastForced[i] <= cache[i].lastRefresh
            /\ lastForced[i] \in Int /\ cache[i].lastRefresh \in Int
        BY <1>0, <3>2 DEF StampInv
      <4>5. keysNow - lastForced[i] >= RefreshWait
        BY <1>0, <4>3, <4>4
      <4>6. Spaced
        BY <4>1, <4>5 DEF Spaced
      <4>7. IssuerCache!Never <= keysNow /\ keysNow <= keysNow
        BY <1>0
      <4>8. cache'[i] # None
        BY <1>0, <4>2
      <4>9. StampInv'
        BY <2>1, <3>1, <3>2, <4>1, <4>2, <4>7, <4>8 DEF StampInv
      <4> QED BY <4>6, <4>9
    <3>3. CASE ~(f.force /\ cache[i] # None)
      <4>1. UNCHANGED <<cache, lastForced>>
        BY <1>6, <2>3, <3>3, RecheckFacts
      <4>2. lastForced[i] <= Rechecked(i).refreshed
        BY <1>0, <3>1, <3>3 DEF StampInv
      <4> QED BY <2>1, <3>1, <4>1, <4>2 DEF StampInv, Spaced
    <3> QED BY <3>2, <3>3
  <2> QED BY <2>2, <2>3
<1>7. CASE IssuerCache!Tick
  <2>1. keysNow' = keysNow + 1 /\ UNCHANGED <<cache, lastForced, keysFlight>>
    BY <1>7 DEF IssuerCache!Tick
  <2>2. \A i \in Issuers : lastForced[i] <= keysNow + 1
    BY <1>0 DEF StampInv
  <2> QED BY <2>1, <2>2 DEF StampInv, Spaced
<1>8. \/ UNCHANGED <<keysNow, cache, lastForced, keysFlight>>
      \/ \E c \in Callers : IssuerCache!Do(c)
      \/ \E i \in Issuers : \/ IssuerCache!Recheck(i) \/ IssuerCache!Serve(i)
                            \/ IssuerCache!Finish(i) \/ IssuerCache!Fail(i)
      \/ IssuerCache!Tick
  BY DEF IssuerCache!Next, IssuerCache!vars, IssuerCache!Verify, IssuerCache!Lookup,
         IssuerCache!Return, IssuerCache!Rotate
<1> QED BY <1>1, <1>2, <1>3, <1>4, <1>5, <1>6, <1>7, <1>8

\* Tokens with unknown keys send the server to an issuer at most once every refreshWait
\* while it is cached, also when the issuer fails (the stamp set before going upstream).
THEOREM ForcedLoadsSpacedHolds == IssuerCache!Spec => ForcedLoadsSpaced
<1>1. IssuerCache!Init => StampInv
  <2> SUFFICES ASSUME IssuerCache!Init, NEW i \in Issuers
               PROVE  /\ lastForced[i] = IssuerCache!Never /\ cache[i] = None
                      /\ keysFlight[i] = None /\ keysNow = 0
                      /\ IssuerCache!Never <= IssuerCache!Never /\ IssuerCache!Never <= 0
    BY DEF StampInv
  <2> QED BY KeysAssumption DEF IssuerCache!Init, IssuerCache!Never
<1>2. IssuerCache!TypeOK /\ StampInv /\ [IssuerCache!Next]_(IssuerCache!vars) => StampInv'
  BY StampStep
<1>3. IssuerCache!TypeOK /\ StampInv /\ [IssuerCache!Next]_(IssuerCache!vars)
         => [Spaced]_(IssuerCache!vars)
  BY StampStep
<1>4. IssuerCache!Spec => [][Spaced]_(IssuerCache!vars)
  BY <1>1, <1>2, <1>3, KeysTypeCorrect, PTL DEF IssuerCache!Spec
<1> QED BY <1>4 DEF ForcedLoadsSpaced, IssuerCache!ForcedLoadsSpaced, Spaced

================================================================================
