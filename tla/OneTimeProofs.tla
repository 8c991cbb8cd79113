----------------------------- MODULE OneTimeProofs -----------------------------
(* Proofs about what may be used once: DPoP proofs (ReplayCache), emailed    *)
(* codes (OTP, here Codes) and the grants page (SelfService, here Page), for *)
(* every set of requests, proofs, challenges, pages, grants and addresses    *)
(* and for every limit and lifetime.                                         *)
EXTENDS MCOneTime, FiniteSetTheorems, TLAPS

-----------------------------------------------------------------------------
(* The cache of DPoP proofs *)

\* The map that removeExpired leaves has the type of the map.
LEMMA KeptType ==
    ASSUME TypeOK, NEW now \in Nat
    PROVE  Kept(now) \in [Proofs -> Nat]
BY DEF TypeOK, Kept

\* What both outcomes of Reserve have in common.
LEMMA ReserveFacts ==
    ASSUME TypeOK, NEW r \in Requests, req[r].pc \in {"verified", "stamped"}
    PROVE  req[r].proof \in Proofs /\ req[r].now \in Nat
BY DEF TypeOK, Request

\* Ending a request keeps the requests well typed.
LEMMA IdleType ==
    ASSUME TypeOK, NEW r \in Requests, req' = [req EXCEPT ![r] = Idle]
    PROVE  req' \in [Requests -> Request]
BY DEF TypeOK, Request, Idle

\* The map, the heap, the requests and the history keep their types.
THEOREM CacheTypeCorrect == Spec => []TypeOK
<1>1. Init => TypeOK
  BY CacheAssumption DEF Init, TypeOK, Request, Idle
<1>2. TypeOK /\ [Next]_vars => TypeOK'
  <2> SUFFICES ASSUME TypeOK, [Next]_vars PROVE TypeOK'
    OBVIOUS
  <2>1. ASSUME NEW r \in Requests, NEW p \in Proofs, Verify(r, p)
        PROVE  TypeOK'
    BY <2>1 DEF Verify, TypeOK, Request
  <2>2. ASSUME NEW r \in Requests, Mismatch(r)
        PROVE  TypeOK'
    BY <2>2, IdleType DEF Mismatch, TypeOK
  <2>3. ASSUME NEW r \in Requests, ReadClock(r)
        PROVE  TypeOK'
    <3>1. req[r] \in [pc : {"verified", "stamped"}, proof : Proofs, now : Nat]
      BY <2>3 DEF ReadClock, TypeOK, Request
    <3>2. [req[r] EXCEPT !.pc = "stamped", !.now = clock] \in Request
      BY <3>1 DEF TypeOK, Request
    <3> QED
      BY <2>3, <3>2 DEF ReadClock, TypeOK
  <2>4. ASSUME NEW r \in Requests, Reject(r)
        PROVE  TypeOK'
    <3>1. req[r].now \in Nat
      BY <2>4, ReserveFacts DEF Reject
    <3> QED
      BY <2>4, <3>1, KeptType, IdleType DEF Reject, TypeOK
  <2>5. ASSUME NEW r \in Requests, Accept(r)
        PROVE  TypeOK'
    <3>1. req[r].now \in Nat /\ req[r].proof \in Proofs
      BY <2>5, ReserveFacts DEF Accept
    <3>2. req[r].now + Retention \in Nat
      BY <3>1, CacheAssumption DEF Retention
    <3>3. entries' \in [Proofs -> Nat]
      BY <2>5, <3>1, <3>2, KeptType DEF Accept
    <3>4. expiries' \subseteq Reservation
      BY <2>5, <3>1, <3>2 DEF Accept, TypeOK, Reservation
    <3>5. accepted' \in [Proofs -> Nat]
      BY <2>5, <3>1 DEF Accept, TypeOK
    <3>6. req' \in [Requests -> Request]
      BY <2>5, IdleType DEF Accept
    <3> QED
      BY <2>5, <3>3, <3>4, <3>5, <3>6 DEF Accept, TypeOK
  <2>6. CASE Tick \/ UNCHANGED vars
    BY <2>6 DEF Tick, vars, TypeOK
  <2> QED
    BY <2>1, <2>2, <2>3, <2>4, <2>5, <2>6 DEF Next
<1> QED
  BY <1>1, <1>2, PTL DEF Spec

-----------------------------------------------------------------------------
(* Replays. An accepted proof stays in the map until its window closes,      *)
(* because a reservation is never made with a reading of the clock earlier   *)
(* than the window's start, nor purged with one later than the present.      *)

\* An accepted proof is in the map for as long as its window is open.
RetainedInv ==
    \A p \in Proofs : accepted[p] > 0 /\ clock < iat[p] + Past => entries[p] >= iat[p] + Past

\* Readings are past ones, taken no earlier than the window's start.
ReadingInv ==
    \A r \in Requests : req[r].pc \in {"verified", "stamped"} =>
        req[r].now <= clock /\ iat[req[r].proof] <= req[r].now + Future

\* Purging with a past reading keeps every entry of a window still open.
LEMMA KeptInWindow ==
    ASSUME TypeOK, RetainedInv, NEW now \in Nat, now <= clock, NEW p \in Proofs,
           accepted[p] > 0, clock < iat[p] + Past
    PROVE  Kept(now)[p] = entries[p] /\ entries[p] > 0
<1>1. entries[p] >= iat[p] + Past /\ entries[p] \in Nat /\ iat[p] \in Nat /\ clock \in Nat
  BY DEF RetainedInv, TypeOK
<1>2. entries[p] > now /\ entries[p] > 0
  BY <1>1, CacheAssumption
<1>3. \A e \in Popped(now) : e.exp # entries[p]
  BY <1>1, <1>2 DEF Popped, TypeOK, Reservation
<1> QED
  BY <1>2, <1>3 DEF Kept

\* Every step keeps accepted proofs in the map while their window is open.
LEMMA RetainedStep ==
    ASSUME TypeOK, RetainedInv, ReadingInv, [Next]_vars
    PROVE  RetainedInv' /\ ReadingInv'
<1> USE CacheAssumption
<1>1. ASSUME NEW r \in Requests, NEW p \in Proofs, Verify(r, p)
      PROVE  RetainedInv' /\ ReadingInv'
  BY <1>1 DEF Verify, InWindow, RetainedInv, ReadingInv, TypeOK
<1>2. ASSUME NEW r \in Requests, Mismatch(r)
      PROVE  RetainedInv' /\ ReadingInv'
  BY <1>2 DEF Mismatch, Idle, RetainedInv, ReadingInv, TypeOK
<1>3. ASSUME NEW r \in Requests, ReadClock(r)
      PROVE  RetainedInv' /\ ReadingInv'
  <2>1. req[r] \in [pc : {"verified", "stamped"}, proof : Proofs, now : Nat]
    BY <1>3 DEF ReadClock, TypeOK, Request
  <2>2. /\ req'[r].proof = req[r].proof /\ req'[r].now = clock
        /\ \A s \in Requests : s # r => req'[s] = req[s]
    BY <1>3, <2>1 DEF ReadClock, TypeOK
  <2>3. req[r].now <= clock /\ iat[req[r].proof] <= req[r].now + Future
    BY <1>3 DEF ReadClock, ReadingInv
  <2>4. iat[req[r].proof] <= clock + Future
    BY <2>1, <2>3 DEF TypeOK
  <2> QED
    BY <1>3, <2>2, <2>4 DEF ReadClock, RetainedInv, ReadingInv, TypeOK
<1>4. ASSUME NEW r \in Requests, Reject(r)
      PROVE  RetainedInv' /\ ReadingInv'
  <2>1. req[r].now \in Nat /\ req[r].now <= clock
    BY <1>4, ReserveFacts DEF Reject, ReadingInv
  <2>2. RetainedInv'
    BY <1>4, <2>1, KeptInWindow DEF Reject, RetainedInv
  <2>3. ReadingInv'
    BY <1>4 DEF Reject, Idle, ReadingInv, TypeOK
  <2> QED
    BY <2>2, <2>3
<1>5. ASSUME NEW r \in Requests, Accept(r)
      PROVE  RetainedInv' /\ ReadingInv'
  <2> DEFINE p == req[r].proof
             now == req[r].now
  <2>1. /\ now \in Nat /\ now <= clock /\ p \in Proofs
        /\ iat[p] <= now + Future
    BY <1>5, ReserveFacts DEF Accept, ReadingInv
  <2>2. /\ entries'[p] = now + Retention
        /\ \A q \in Proofs : q # p => entries'[q] = Kept(now)[q] /\ accepted'[q] = accepted[q]
        /\ iat' = iat /\ clock' = clock
    BY <1>5, <2>1, KeptType DEF Accept, TypeOK
  <2>3. entries'[p] >= iat[p] + Past
    BY <2>1, <2>2 DEF Retention, TypeOK
  <2> HIDE DEF p, now
  <2>4. ASSUME NEW q \in Proofs, q # p, accepted[q] > 0, clock < iat[q] + Past
        PROVE  entries'[q] >= iat[q] + Past
    BY <2>1, <2>2, <2>4, KeptInWindow DEF RetainedInv
  <2>5. RetainedInv'
    BY <2>2, <2>3, <2>4 DEF RetainedInv
  <2>6. ReadingInv'
    BY <1>5 DEF Accept, Idle, ReadingInv, TypeOK
  <2> QED
    BY <2>5, <2>6
<1>6. CASE Tick
  <2>1. clock' = clock + 1 /\ UNCHANGED <<iat, entries, req, accepted>>
    BY <1>6 DEF Tick
  <2>2. RetainedInv'
    BY <2>1 DEF RetainedInv, TypeOK
  <2>3. ASSUME NEW r \in Requests, req[r].pc \in {"verified", "stamped"}
        PROVE  req[r].now <= clock + 1
    BY <2>3, ReserveFacts DEF ReadingInv, TypeOK
  <2>4. ReadingInv'
    BY <2>1, <2>3 DEF ReadingInv
  <2> QED
    BY <2>2, <2>4
<1>7. CASE UNCHANGED vars
  BY <1>7 DEF vars, RetainedInv, ReadingInv
<1> QED
  BY <1>1, <1>2, <1>3, <1>4, <1>5, <1>6, <1>7 DEF Next

\* A proof accepted within its window stays in the map until the window closes,
\* and no request carries a reading from the future (removeExpired, Reserve).
THEOREM Retained == Spec => [](RetainedInv /\ ReadingInv)
<1>1. Init => RetainedInv /\ ReadingInv
  BY DEF Init, Idle, RetainedInv, ReadingInv
<1> QED
  BY <1>1, RetainedStep, CacheTypeCorrect, PTL DEF Spec

\* Reserve rejects every further use of a proof until its window has closed.
THEOREM ReplayRejected == Spec => NoReplayInWindow
<1> DEFINE Fresh == \A p \in Proofs : accepted[p] > 0 /\ accepted'[p] # accepted[p] =>
                        clock >= iat[p] + Past
<1>1. TypeOK /\ RetainedInv /\ ReadingInv /\ [Next]_vars => Fresh
  <2> SUFFICES ASSUME TypeOK, RetainedInv, ReadingInv, [Next]_vars,
                      NEW p \in Proofs, accepted[p] > 0, accepted'[p] # accepted[p]
               PROVE  clock >= iat[p] + Past
    OBVIOUS
  <2>1. PICK r \in Requests : Accept(r)
    BY DEF Next, vars, Verify, Mismatch, ReadClock, Reject, Tick
  <2>2. req[r].proof = p /\ Kept(req[r].now)[p] = 0
    BY <2>1 DEF Accept, TypeOK
  <2>3. req[r].now \in Nat /\ req[r].now <= clock
    BY <2>1, ReserveFacts DEF Accept, ReadingInv
  <2>4. ~(clock < iat[p] + Past)
    BY <2>2, <2>3, KeptInWindow
  <2> QED
    BY <2>4, CacheAssumption DEF TypeOK
<1>2. TypeOK /\ RetainedInv /\ ReadingInv /\ [Next]_vars => [Fresh]_vars
  BY <1>1
<1> HIDE DEF Fresh
<1>3. Spec => [][Fresh]_vars
  BY <1>2, CacheTypeCorrect, Retained, PTL DEF Spec
<1> QED
  BY <1>3 DEF NoReplayInWindow, Fresh

-----------------------------------------------------------------------------
(* The heap and the map.                                                     *)

\* Purging heap and map with one reading leaves them in agreement.
LEMMA KeptMatches ==
    ASSUME TypeOK, HeapMatchesMap, NEW now \in Nat
    PROVE  /\ \A p \in Proofs : Kept(now)[p] = IF entries[p] <= now THEN 0 ELSE entries[p]
           /\ expiries \ Popped(now) =
                {[hash |-> p, exp |-> Kept(now)[p]] : p \in {q \in Proofs : Kept(now)[q] # 0}}
<1>1. \A e \in expiries : e.hash \in Proofs /\ e.exp = entries[e.hash] /\ e.exp # 0
                          /\ e = [hash |-> e.hash, exp |-> e.exp]
  BY DEF HeapMatchesMap
<1>2. \A p \in Proofs : entries[p] # 0 => [hash |-> p, exp |-> entries[p]] \in expiries
  BY DEF HeapMatchesMap
<1>3. ASSUME NEW p \in Proofs
      PROVE  Kept(now)[p] = IF entries[p] <= now THEN 0 ELSE entries[p]
  <2>1. CASE entries[p] = 0
    BY <2>1 DEF Kept
  <2>2. CASE entries[p] # 0 /\ entries[p] <= now
    <3>1. [hash |-> p, exp |-> entries[p]] \in Popped(now)
      BY <1>2, <2>2 DEF Popped
    <3> QED
      BY <2>2, <3>1 DEF Kept
  <2>3. CASE ~(entries[p] <= now)
    <3>1. \A e \in Popped(now) : ~(e.hash = p /\ e.exp = entries[p])
      BY <2>3 DEF Popped
    <3> QED
      BY <2>3, <3>1 DEF Kept
  <2> QED
    BY <2>1, <2>2, <2>3
<1>4. \A e : e \in expiries \ Popped(now) <=>
               \E p \in Proofs : Kept(now)[p] # 0 /\ e = [hash |-> p, exp |-> Kept(now)[p]]
  <2>1. ASSUME NEW e \in expiries, e \notin Popped(now)
        PROVE  Kept(now)[e.hash] = entries[e.hash] /\ Kept(now)[e.hash] # 0
    BY <1>1, <1>3, <2>1 DEF Popped, TypeOK
  <2>2. ASSUME NEW p \in Proofs, Kept(now)[p] # 0
        PROVE  [hash |-> p, exp |-> Kept(now)[p]] \in expiries \ Popped(now)
    BY <1>2, <1>3, <2>2 DEF Popped, TypeOK
  <2> QED
    BY <1>1, <2>1, <2>2
<1> QED
  BY <1>3, <1>4

\* The heap and the map of the cache describe the same entries.
THEOREM HeapFollowsMap == Spec => []HeapMatchesMap
<1>1. Init => HeapMatchesMap
  BY DEF Init, HeapMatchesMap
<1>2. TypeOK /\ HeapMatchesMap /\ [Next]_vars => HeapMatchesMap'
  <2> SUFFICES ASSUME TypeOK, HeapMatchesMap, [Next]_vars PROVE HeapMatchesMap'
    OBVIOUS
  <2>1. ASSUME NEW r \in Requests, Reject(r)
        PROVE  HeapMatchesMap'
    <3>1. req[r].now \in Nat
      BY <2>1, ReserveFacts DEF Reject
    <3> QED
      BY <2>1, <3>1, KeptMatches DEF Reject, HeapMatchesMap
  <2>2. ASSUME NEW r \in Requests, Accept(r)
        PROVE  HeapMatchesMap'
    <3> DEFINE p == req[r].proof
               now == req[r].now
               new == now + Retention
    <3>1. now \in Nat /\ p \in Proofs /\ Kept(now)[p] = 0
      BY <2>2, ReserveFacts DEF Accept
    <3>2. new # 0
      BY <3>1, CacheAssumption DEF Retention
    <3>3. /\ entries'[p] = new
          /\ \A q \in Proofs : q # p => entries'[q] = Kept(now)[q]
      BY <2>2, <3>1, KeptType DEF Accept
    <3>4. expiries' = (expiries \ Popped(now)) \cup {[hash |-> p, exp |-> new]}
      BY <2>2 DEF Accept
    <3> HIDE DEF p, now, new
    <3>5. expiries \ Popped(now) =
                {[hash |-> q, exp |-> Kept(now)[q]] : q \in {s \in Proofs : Kept(now)[s] # 0}}
      BY <3>1, KeptMatches
    <3> QED
      BY <3>1, <3>2, <3>3, <3>4, <3>5 DEF HeapMatchesMap
  <2>3. CASE UNCHANGED <<entries, expiries>>
    BY <2>3 DEF HeapMatchesMap
  <2> QED
    BY <2>1, <2>2, <2>3 DEF Next, vars, Verify, Mismatch, ReadClock, Tick
<1> QED
  BY <1>1, <1>2, CacheTypeCorrect, PTL DEF Spec

-----------------------------------------------------------------------------
(* Capacity.                                                                 *)

Cached(map) == {p \in Proofs : map[p] # 0}

\* The cache never holds more than its capacity.
THEOREM CapacityHolds == Spec => []WithinCapacity
<1> DEFINE Small == IsFiniteSet(Cached(entries)) /\ Cardinality(Cached(entries)) <= MaxEntries
<1>1. Init => Small
  <2> SUFFICES ASSUME Init PROVE Small
    OBVIOUS
  <2>1. Cached(entries) = {}
    BY DEF Init, Cached
  <2> QED
    BY <2>1, FS_EmptySet, CacheAssumption
<1>2. TypeOK /\ Small /\ [Next]_vars => Small'
  <2> SUFFICES ASSUME TypeOK, Small, [Next]_vars PROVE Small'
    OBVIOUS
  <2>1. ASSUME NEW now \in Nat
        PROVE  /\ IsFiniteSet(Cached(Kept(now)))
               /\ Cardinality(Cached(Kept(now))) \in Nat
               /\ Cardinality(Cached(Kept(now))) <= MaxEntries
    <3>1. Cached(Kept(now)) \subseteq Cached(entries)
      BY DEF Cached, Kept
    <3>2. /\ IsFiniteSet(Cached(Kept(now)))
          /\ Cardinality(Cached(Kept(now))) <= Cardinality(Cached(entries))
      BY <3>1, FS_Subset
    <3> QED
      BY <3>2, FS_CardinalityType, CacheAssumption
  <2>2. ASSUME NEW r \in Requests, Reject(r)
        PROVE  Small'
    <3>1. req[r].now \in Nat /\ entries' = Kept(req[r].now)
      BY <2>2, ReserveFacts DEF Reject
    <3>2. Cached(entries)' = Cached(Kept(req[r].now))
      BY <3>1 DEF Cached
    <3> QED
      BY <2>1, <3>1, <3>2
  <2>3. ASSUME NEW r \in Requests, Accept(r)
        PROVE  Small'
    <3> DEFINE p == req[r].proof
               now == req[r].now
    <3>1. now \in Nat /\ p \in Proofs /\ Kept(now)[p] = 0
      BY <2>3, ReserveFacts DEF Accept
    <3>2. Cardinality(Cached(Kept(now))) < MaxEntries
      BY <2>3 DEF Accept, Size, Cached
    <3>3. entries' = [Kept(now) EXCEPT ![p] = now + Retention] /\ now + Retention # 0
      BY <2>3, <3>1, CacheAssumption DEF Accept, Retention
    <3> HIDE DEF p, now
    <3>4. Cached(entries)' = Cached(Kept(now)) \cup {p} /\ p \notin Cached(Kept(now))
      BY <3>1, <3>3, KeptType DEF Cached
    <3>5. /\ IsFiniteSet(Cached(Kept(now)) \cup {p})
          /\ Cardinality(Cached(Kept(now)) \cup {p}) = Cardinality(Cached(Kept(now))) + 1
      BY <2>1, <3>1, <3>4, FS_AddElement
    <3> QED
      BY <2>1, <3>1, <3>2, <3>4, <3>5, CacheAssumption
  <2>4. CASE entries' = entries
    <3>1. Cached(entries)' = Cached(entries)
      BY <2>4 DEF Cached
    <3> QED
      BY <3>1
  <2> QED
    BY <2>2, <2>3, <2>4 DEF Next, vars, Verify, Mismatch, ReadClock, Tick
<1>3. Small => WithinCapacity
  BY DEF WithinCapacity, Size, Cached
<1> HIDE DEF Small
<1> QED
  BY <1>1, <1>2, <1>3, CacheTypeCorrect, PTL DEF Spec

-----------------------------------------------------------------------------
(* Emailed codes *)

\* The cardinality that the instance of OTP means is the one of FiniteSets.
LEMMA CodesCardinality == \A S : Codes!Cardinality(S) = Cardinality(S)
BY Zenon DEF Codes!Cardinality, Cardinality

\* The histories and rows are well typed, codes are numbered in the order they are
\* mailed, and a request that is under way names a challenge.
MailInv ==
    /\ Codes!TypeOK
    /\ IsFiniteSet(mailed)
    /\ Cardinality(mailed) <= MaxCodes
    /\ \A s \in mailed : s.code \in 1 .. Cardinality(mailed) /\ s.at <= clock
    /\ \A s, u \in mailed : s.code = u.code => s = u
    /\ \A r \in Requests : verifying[r] # Codes!Idle => verifying[r].challenge \in Challenges

\* The send that Issue records.
NewSend(c) == [code |-> Cardinality(mailed) + 1, at |-> clock, to |-> c]

\* What Issue does: the row, the send and the number of codes.
LEMMA IssueFacts ==
    ASSUME MailInv, NEW c \in Challenges, Codes!Issue(c)
    PROVE  /\ Cardinality(mailed) \in Nat
           /\ NewSend(c) \in Codes!Send /\ NewSend(c) \notin mailed
           /\ sends' = sends \cup {NewSend(c)}
           /\ mailed' = mailed \cup {NewSend(c)}
           /\ IsFiniteSet(mailed')
           /\ Cardinality(mailed') = Cardinality(mailed) + 1
           /\ Cardinality(mailed') <= MaxCodes
           /\ challenge' \in [Challenges -> Codes!Row]
           /\ challenge' = [challenge EXCEPT ![c] =
                  [exists |-> TRUE, code |-> Cardinality(mailed) + 1, attempts |-> 0,
                   sent |-> clock, exp |-> clock + TTL]]
<1>1. Cardinality(mailed) \in Nat /\ Codes!NewCode = Cardinality(mailed) + 1
  BY FS_CardinalityType, CodesCardinality DEF MailInv, Codes!NewCode
<1>2. clock \in Nat /\ TTL \in Nat /\ challenge \in [Challenges -> Codes!Row]
  BY CodesAssumption DEF MailInv, Codes!TypeOK
<1>3. NewSend(c) \in Codes!Send
  BY <1>1, <1>2 DEF Codes!Send, NewSend
<1>4. NewSend(c) \notin mailed
  BY <1>1 DEF MailInv, NewSend
<1>5. [exists |-> TRUE, code |-> Cardinality(mailed) + 1, attempts |-> 0,
       sent |-> clock, exp |-> clock + TTL] \in Codes!Row
  BY <1>1, <1>2 DEF Codes!Row
<1>6. /\ sends' = sends \cup {NewSend(c)}
      /\ mailed' = mailed \cup {NewSend(c)}
      /\ Cardinality(mailed) + 1 <= MaxCodes
      /\ challenge' = [challenge EXCEPT ![c] =
             [exists |-> TRUE, code |-> Cardinality(mailed) + 1, attempts |-> 0,
              sent |-> clock, exp |-> clock + TTL]]
  BY <1>1 DEF Codes!Issue, NewSend
<1>7. IsFiniteSet(mailed') /\ Cardinality(mailed') = Cardinality(mailed) + 1
  BY <1>4, <1>6, FS_AddElement DEF MailInv
<1>8. challenge' \in [Challenges -> Codes!Row]
  BY <1>2, <1>5, <1>6
<1> QED BY <1>1, <1>3, <1>4, <1>6, <1>7, <1>8

\* The row that a request compares its guess with.
LEMMA RowType ==
    ASSUME MailInv, NEW c \in Challenges
    PROVE  /\ challenge[c] \in Codes!Row
           /\ challenge[c].exists \in BOOLEAN /\ challenge[c].code \in Nat
           /\ challenge[c].attempts \in Nat /\ challenge[c].sent \in Nat
           /\ challenge[c].exp \in Nat
BY DEF MailInv, Codes!TypeOK, Codes!Row

\* Every step issues a code, compares a guess, or leaves codes, guesses and histories alone;
\* such a step at most deletes rows that are over, forgets sends that are an hour old, starts
\* or ends a request and lets time pass.
Quiet ==
    /\ \A c \in Challenges :
          challenge'[c] = challenge[c] \/ challenge'[c] = Codes!NoRow
    /\ clock' \in {clock, clock + 1}
    /\ sends' \subseteq sends
    /\ \A s \in sends : s \in sends' \/ s.at < clock - Hour
    /\ UNCHANGED <<mailed, compared, redeemed>>

Issues(c) ==
    /\ Codes!BelowQuota /\ Codes!Issue(c)
    /\ challenge[c].exists \/ \A s \in mailed : s.to # c
    /\ UNCHANGED <<clock, verifying, compared, redeemed>>

LEMMA CodesMove ==
    ASSUME MailInv, [Codes!Next]_(Codes!vars)
    PROVE  \/ Quiet
           \/ \E c \in Challenges : Issues(c)
           \/ \E r \in Requests : Codes!Redeem(r) \/ Codes!CountWrong(r)
<1> USE DEF Quiet
<1>1. ASSUME NEW c \in Challenges, Codes!CreateOTP(c) \/ Codes!ResendOTP(c)
      PROVE  Issues(c)
  BY <1>1 DEF Issues, Codes!CreateOTP, Codes!ResendOTP
<1>2. ASSUME NEW r \in Requests, NEW c \in Challenges, NEW code, Codes!Lookup(r, c, code)
      PROVE  Quiet
  BY <1>2 DEF Codes!Lookup
<1>3. ASSUME NEW r \in Requests, Codes!Refuse(r) \/ Codes!Abandon(r)
      PROVE  Quiet
  BY <1>3 DEF Codes!Refuse, Codes!Abandon
<1>4. CASE Codes!CleanupChallenges
  BY <1>4 DEF Codes!CleanupChallenges
<1>5. CASE Codes!CleanupSends
  <2>1. /\ sends' \subseteq sends
        /\ \A s \in sends : s \in sends' \/ ~(s.at >= clock - Hour)
    BY <1>5, Zenon DEF Codes!CleanupSends
  <2>2. \A s \in sends : s.at \in Nat
    BY DEF MailInv, Codes!TypeOK, Codes!Send
  <2>3. clock \in Nat /\ Hour \in Nat
    BY CodesAssumption DEF MailInv, Codes!TypeOK
  <2>4. \A s \in sends : s \in sends' \/ s.at < clock - Hour
    BY <2>1, <2>2, <2>3
  <2> QED BY <1>5, <2>1, <2>4 DEF Codes!CleanupSends
<1>6. CASE Codes!Tick
  BY <1>6 DEF Codes!Tick
<1>7. CASE UNCHANGED Codes!vars
  BY <1>7 DEF Codes!vars
<1> QED BY <1>1, <1>2, <1>3, <1>4, <1>5, <1>6, <1>7 DEF Codes!Next


\* ConsumeOTP's comparison: the request names a challenge whose row exists, and the
\* count of that row's code is raised by one.
LEMMA CompareFacts ==
    ASSUME MailInv, NEW r \in Requests, Codes!Redeem(r) \/ Codes!CountWrong(r)
    PROVE  LET q == verifying[r]
               row == challenge[q.challenge]
           IN  /\ q.challenge \in Challenges
               /\ row.exists /\ q.now < row.exp /\ row.attempts < MaxAttempts
               /\ compared' = [compared EXCEPT ![row.code] = @ + 1]
               /\ UNCHANGED <<clock, sends, mailed>>
BY DEF Codes!Redeem, Codes!CountWrong, Codes!Comparable, Codes!Compare, MailInv

\* Types and the numbering of the codes hold in every state of the codes' specification.
THEOREM MailInvariant == Codes!Spec => []MailInv
<1>1. Codes!Init => MailInv
  <2> SUFFICES ASSUME Codes!Init PROVE MailInv
    OBVIOUS
  <2>1. Codes!TypeOK
    BY DEF Codes!Init, Codes!TypeOK, Codes!NoRow, Codes!Row, Codes!Idle, Codes!Request
  <2>2. IsFiniteSet(mailed) /\ Cardinality(mailed) = 0 /\ mailed = {}
    BY FS_EmptySet DEF Codes!Init
  <2> QED BY <2>1, <2>2, CodesAssumption DEF MailInv, Codes!Init
<1>2. MailInv /\ [Codes!Next]_(Codes!vars) => MailInv'
  <2> SUFFICES ASSUME MailInv, [Codes!Next]_(Codes!vars) PROVE MailInv'
    OBVIOUS
  <2>0. /\ Codes!Idle \in Codes!Request /\ Codes!NoRow \in Codes!Row
        /\ clock \in Nat /\ verifying \in [Requests -> Codes!Request]
        /\ challenge \in [Challenges -> Codes!Row]
    BY DEF MailInv, Codes!TypeOK, Codes!Idle, Codes!Request, Codes!NoRow, Codes!Row
  <2>1. /\ verifying' \in [Requests -> Codes!Request]
        /\ \A r \in Requests :
              verifying'[r] # Codes!Idle => verifying'[r].challenge \in Challenges
    <3>1. ASSUME NEW r \in Requests, verifying' = [verifying EXCEPT ![r] = Codes!Idle]
          PROVE  <2>1!1 /\ <2>1!2
      BY <2>0, <3>1 DEF MailInv
    <3>2. ASSUME NEW r \in Requests, NEW c \in Challenges, NEW code \in 0 .. MaxCodes,
                 Codes!Lookup(r, c, code)
          PROVE  <2>1!1 /\ <2>1!2
      BY <2>0, <3>2, CodesAssumption DEF MailInv, Codes!Lookup, Codes!Request
    <3>3. CASE UNCHANGED verifying
      BY <2>0, <3>3 DEF MailInv
    <3>4. \/ UNCHANGED verifying
          \/ \E r \in Requests : verifying' = [verifying EXCEPT ![r] = Codes!Idle]
          \/ \E r \in Requests, c \in Challenges, code \in 0 .. MaxCodes : Codes!Lookup(r, c, code)
      BY DEF Codes!Next, Codes!vars, Codes!CreateOTP, Codes!ResendOTP, Codes!Redeem,
             Codes!CountWrong, Codes!Refuse, Codes!Abandon, Codes!CleanupChallenges,
             Codes!CleanupSends, Codes!Tick
    <3> QED BY <3>1, <3>2, <3>3, <3>4
  <2>2. CASE Quiet
    <3>1. challenge' \in [Challenges -> Codes!Row]
      <4>1. DOMAIN challenge' = Challenges /\ challenge' = [c \in Challenges |-> challenge'[c]]
        BY <2>0 DEF Codes!Next, Codes!vars, Codes!CreateOTP, Codes!ResendOTP, Codes!Issue,
               Codes!Redeem, Codes!CountWrong, Codes!Refuse, Codes!Abandon, Codes!Lookup,
               Codes!CleanupChallenges, Codes!CleanupSends, Codes!Tick
      <4> QED BY <2>0, <2>2, <4>1 DEF Quiet
    <3>2. clock' \in Nat /\ clock <= clock'
      BY <2>0, <2>2 DEF Quiet
    <3>3. Codes!TypeOK'
      BY <2>1, <2>2, <3>1, <3>2 DEF Quiet, MailInv, Codes!TypeOK
    <3>4. \A s \in mailed : s.at \in Nat
      BY DEF MailInv, Codes!TypeOK, Codes!Send
    <3>5. \A s \in mailed' : s.code \in 1 .. Cardinality(mailed') /\ s.at <= clock'
      BY <2>0, <2>2, <3>2, <3>4 DEF Quiet, MailInv
    <3> QED BY <2>1, <2>2, <3>3, <3>5 DEF Quiet, MailInv
  <2>3. ASSUME NEW c \in Challenges, Issues(c)
        PROVE  MailInv'
    <3>1. Codes!TypeOK'
      BY <2>1, <2>3, IssueFacts DEF Issues, MailInv, Codes!TypeOK
    <3>a. NewSend(c).code = Cardinality(mailed) + 1 /\ NewSend(c).at = clock
      BY DEF NewSend
    <3>b. /\ Cardinality(mailed) \in Nat
          /\ Cardinality(mailed') = Cardinality(mailed) + 1
          /\ mailed' = mailed \cup {NewSend(c)} /\ clock' = clock
      BY <2>3, IssueFacts DEF Issues
    <3>c. \A s \in mailed : s.code \in 1 .. Cardinality(mailed) /\ s.at <= clock
      BY DEF MailInv
    <3>2. \A s \in mailed' : s.code \in 1 .. Cardinality(mailed') /\ s.at <= clock'
      BY <2>0, <3>a, <3>b, <3>c
    <3>3. \A s, u \in mailed' : s.code = u.code => s = u
      BY <3>a, <3>b, <3>c DEF MailInv
    <3> QED BY <2>1, <2>3, <3>1, <3>2, <3>3, IssueFacts DEF Issues, MailInv
  <2>4. ASSUME NEW r \in Requests, Codes!Redeem(r) \/ Codes!CountWrong(r)
        PROVE  MailInv'
    <3>1. compared' \in [1 .. MaxCodes -> Nat]
      BY <2>4, CompareFacts DEF MailInv, Codes!TypeOK
    <3>2. challenge' \in [Challenges -> Codes!Row]
      BY <2>0, <2>4, CompareFacts DEF Codes!Redeem, Codes!CountWrong, Codes!Row
    <3>3. redeemed' \subseteq [code : Nat, by : Requests, at : Nat]
      <4>1. verifying[r].code \in Nat /\ verifying[r].now \in Nat
        BY <2>0 DEF Codes!Request
      <4> QED BY <2>4, <4>1 DEF Codes!Redeem, Codes!CountWrong, MailInv, Codes!TypeOK
    <3>4. Codes!TypeOK'
      BY <2>1, <2>4, <3>1, <3>2, <3>3, CompareFacts DEF MailInv, Codes!TypeOK
    <3> QED BY <2>1, <2>4, <3>4, CompareFacts DEF MailInv
  <2> QED BY <2>2, <2>3, <2>4, CodesMove
<1> QED BY <1>1, <1>2, PTL DEF Codes!Spec


\* The sends of the hour that ends at t.
Window(t) == {s \in mailed : t - Hour < s.at /\ s.at <= t}

\* Cleanup forgets no send of the last hour, so that counting the remaining ones is counting
\* them all; and no hour that has ended or is running saw more than the quota.
QuotaInv ==
    /\ sends \subseteq mailed
    /\ \A s \in mailed : s.at > clock - Hour => s \in sends
    /\ \A t \in 0 .. clock : Cardinality(Window(t)) <= Quota

\* What the count of the start and resend handlers says of the hour that is running.
LEMMA QuotaCount ==
    ASSUME MailInv, QuotaInv, Codes!BelowQuota
    PROVE  Cardinality(Window(clock)) + 1 <= Quota
<1> DEFINE recent == {s \in sends : s.at > clock - Hour}
<1>1. clock \in Nat /\ Hour \in Nat /\ Quota \in Nat /\ \A s \in mailed : s.at \in Nat
  BY CodesAssumption DEF MailInv, Codes!TypeOK, Codes!Send
<1>2. Window(clock) \in SUBSET recent /\ recent \in SUBSET mailed
  BY <1>1 DEF QuotaInv, Window
<1>3. Cardinality(recent) < Quota
  BY CodesCardinality, Zenon DEF Codes!BelowQuota
<1>4. IsFiniteSet(recent) /\ Cardinality(recent) \in Nat
  BY <1>2, FS_Subset, FS_CardinalityType DEF MailInv
<1> HIDE DEF recent
<1>5. Cardinality(Window(clock)) <= Cardinality(recent) /\ Cardinality(Window(clock)) \in Nat
  BY <1>2, <1>4, FS_Subset, FS_CardinalityType
<1> QED BY <1>1, <1>3, <1>4, <1>5

\* In no rolling hour is an address sent more codes than its quota, new challenges and
\* resends together and whatever the cleanup removed (CreateOTP, ResendOTP).
THEOREM HourlyQuotaHolds == Codes!Spec => []HourlyQuota
<1>1. Codes!Init => QuotaInv
  <2> SUFFICES ASSUME Codes!Init PROVE QuotaInv
    OBVIOUS
  <2>1. \A t : Window(t) = {}
    BY DEF Codes!Init, Window
  <2>2. \A t : Cardinality(Window(t)) <= Quota
    BY <2>1, FS_EmptySet, CodesAssumption
  <2> QED BY <2>2 DEF QuotaInv, Codes!Init
<1>2. MailInv /\ MailInv' /\ QuotaInv /\ [Codes!Next]_(Codes!vars) => QuotaInv'
  <2> SUFFICES ASSUME MailInv, MailInv', QuotaInv, [Codes!Next]_(Codes!vars) PROVE QuotaInv'
    OBVIOUS
  <2>0. /\ clock \in Nat /\ Hour \in Nat /\ Quota \in Nat
        /\ \A s \in mailed : s.at \in Nat /\ s.at <= clock
    BY CodesAssumption DEF MailInv, Codes!TypeOK, Codes!Send
  <2>1. CASE Quiet
    <3>1. /\ mailed' = mailed /\ sends' \subseteq sends /\ clock' \in {clock, clock + 1}
          /\ \A s \in sends : s \in sends' \/ s.at < clock - Hour
      BY <2>1 DEF Quiet
    <3>2. sends' \subseteq mailed'
      BY <3>1 DEF QuotaInv
    <3>3. \A s \in mailed : s.at > clock' - Hour => s \in sends'
      <4> SUFFICES ASSUME NEW s \in mailed, s.at > clock' - Hour PROVE s \in sends'
        OBVIOUS
      <4>1. s.at > clock - Hour /\ ~(s.at < clock - Hour)
        BY <2>0, <3>1
      <4>2. s \in sends
        BY <4>1 DEF QuotaInv
      <4> QED BY <3>1, <4>1, <4>2
    <3>4. ASSUME NEW t \in 0 .. clock' PROVE Cardinality(Window(t)) <= Quota
      <4>1. CASE t \in 0 .. clock
        BY <4>1 DEF QuotaInv
      <4>2. CASE t = clock + 1
        <5>1. Window(t) \in SUBSET Window(clock)
          BY <2>0, <4>2 DEF Window
        <5>2. Window(clock) \in SUBSET mailed
          BY DEF Window
        <5>3. IsFiniteSet(Window(clock))
          BY <5>2, FS_Subset DEF MailInv
        <5>4. Cardinality(Window(t)) <= Cardinality(Window(clock))
          BY <5>1, <5>3, FS_Subset
        <5>5. Cardinality(Window(t)) \in Nat /\ Cardinality(Window(clock)) \in Nat
          BY <5>1, <5>3, FS_Subset, FS_CardinalityType
        <5>6. Cardinality(Window(clock)) <= Quota
          BY <2>0 DEF QuotaInv
        <5> QED BY <2>0, <5>4, <5>5, <5>6
      <4> QED BY <2>0, <3>1, <4>1, <4>2
    <3>5. \A t \in 0 .. clock' : Window(t)' = Window(t)
      BY <3>1 DEF Window
    <3> QED BY <3>1, <3>2, <3>3, <3>4, <3>5 DEF QuotaInv
  <2>2. ASSUME NEW c \in Challenges, Issues(c)
        PROVE  QuotaInv'
    <3> DEFINE new == NewSend(c)
    <3>1. new.at = clock
      BY DEF NewSend
    <3>2. /\ mailed' = mailed \cup {new} /\ sends' = sends \cup {new}
          /\ clock' = clock
      BY <2>2, IssueFacts DEF Issues
    <3>3. Codes!BelowQuota
      BY <2>2 DEF Issues
    <3> HIDE DEF new
    <3>4. ASSUME NEW t \in 0 .. clock
          PROVE  Cardinality(Window(t)') <= Quota
      <4>1. CASE t < clock
        <5>1. Window(t)' = Window(t)
          BY <2>0, <3>1, <3>2, <4>1 DEF Window
        <5> QED BY <5>1 DEF QuotaInv
      <4>2. CASE t = clock
        <5>1. Window(clock) \in SUBSET mailed
          BY DEF Window
        <5>2. IsFiniteSet(Window(clock)) /\ Cardinality(Window(clock)) \in Nat
          BY <5>1, FS_Subset, FS_CardinalityType DEF MailInv
        <5>3. Window(t)' \in SUBSET (Window(clock) \cup {new})
          BY <2>0, <3>2, <4>2 DEF Window
        <5>4. /\ IsFiniteSet(Window(clock) \cup {new})
              /\ Cardinality(Window(clock) \cup {new}) <= Cardinality(Window(clock)) + 1
          BY <5>2, FS_AddElement
        <5>5. /\ Cardinality(Window(t)') <= Cardinality(Window(clock) \cup {new})
              /\ Cardinality(Window(t)') \in Nat
              /\ Cardinality(Window(clock) \cup {new}) \in Nat
          BY <5>3, <5>4, FS_Subset, FS_CardinalityType
        <5>6. Cardinality(Window(clock)) + 1 <= Quota
          BY <3>3, QuotaCount
        <5> QED BY <2>0, <5>2, <5>4, <5>5, <5>6
      <4> QED BY <2>0, <4>1, <4>2
    <3>5. sends' \subseteq mailed' /\ \A s \in mailed' : s.at > clock' - Hour => s \in sends'
      BY <3>2 DEF QuotaInv
    <3> QED BY <3>2, <3>4, <3>5 DEF QuotaInv
  <2>3. ASSUME NEW r \in Requests, Codes!Redeem(r) \/ Codes!CountWrong(r)
        PROVE  QuotaInv'
    BY <2>3, CompareFacts DEF QuotaInv, Window
  <2> QED BY <2>1, <2>2, <2>3, CodesMove
<1>3. QuotaInv => HourlyQuota
  BY CodesCardinality, Zenon DEF QuotaInv, HourlyQuota, Codes!HourlyQuota, Window
<1> QED BY <1>1, <1>2, <1>3, MailInvariant, PTL DEF Codes!Spec


\* The code of a row is the last one mailed for its challenge and lives for TTL; the
\* row's attempts are the guesses that code was compared with.
RowInv ==
    \A c \in Challenges : challenge[c].exists =>
        /\ \E s \in mailed :
              /\ s.to = c /\ s.code = challenge[c].code
              /\ challenge[c].exp = s.at + TTL
              /\ \A u \in mailed : u.to = c => u.code <= s.code
        /\ compared[challenge[c].code] = challenge[c].attempts

\* No code is compared too often, and one that was not mailed yet not at all.
GuessInv ==
    \A n \in 1 .. MaxCodes :
        compared[n] <= MaxAttempts /\ (n > Cardinality(mailed) => compared[n] = 0)

\* A redeemed code was the last of its challenge, whose row is gone and never comes back.
RedeemInv ==
    \A d \in redeemed :
        /\ \A e \in redeemed : e.code = d.code => e = d
        /\ \E s \in mailed :
              /\ s.code = d.code /\ d.at < s.at + TTL
              /\ \A u \in mailed : u.to = s.to => u.code <= s.code
              /\ ~challenge[s.to].exists

CodeInv == RowInv /\ GuessInv /\ RedeemInv

\* The code of a row is one of those whose comparisons are counted.
LEMMA RowCode ==
    ASSUME MailInv, RowInv, NEW c \in Challenges, challenge[c].exists
    PROVE  challenge[c].code \in 1 .. Cardinality(mailed) /\ challenge[c].code \in 1 .. MaxCodes
<1>1. challenge[c].code \in 1 .. Cardinality(mailed)
  BY DEF RowInv, MailInv
<1>2. Cardinality(mailed) \in Nat /\ Cardinality(mailed) <= MaxCodes /\ MaxCodes \in Nat
  BY FS_CardinalityType, CodesAssumption DEF MailInv
<1> QED BY <1>1, <1>2

\* Two challenges never hold the same code.
LEMMA RowsDiffer ==
    ASSUME MailInv, RowInv, NEW c \in Challenges, NEW d \in Challenges,
           challenge[c].exists, challenge[d].exists, challenge[c].code = challenge[d].code
    PROVE  c = d
BY DEF RowInv, MailInv

\* Deleting rows and letting time pass keeps CodeInv.
LEMMA QuietCodes ==
    ASSUME MailInv, CodeInv, Quiet
    PROVE  CodeInv'
<1>1. /\ \A c \in Challenges : challenge'[c] = challenge[c] \/ ~challenge'[c].exists
      /\ mailed' = mailed /\ compared' = compared /\ redeemed' = redeemed
  BY DEF Quiet, Codes!NoRow
<1>2. RowInv'
  BY <1>1 DEF CodeInv, RowInv
<1>3. GuessInv'
  BY <1>1 DEF CodeInv, GuessInv
<1>4. \A s \in mailed : s.to \in Challenges
  BY DEF MailInv, Codes!TypeOK, Codes!Send
<1>5. RedeemInv'
  BY <1>1, <1>4 DEF CodeInv, RedeemInv
<1> QED BY <1>2, <1>3, <1>5 DEF CodeInv

\* A new code starts with no guesses against it and ends the codes before it, none of
\* which was redeemed.
LEMMA IssueCodes ==
    ASSUME MailInv, CodeInv, NEW c \in Challenges, Issues(c)
    PROVE  CodeInv'
<1> DEFINE new == NewSend(c)
           n == Cardinality(mailed) + 1
<1>1. new.code = n /\ new.at = clock /\ new.to = c
  BY DEF NewSend
<1>2. /\ Cardinality(mailed) \in Nat /\ n <= MaxCodes
      /\ mailed' = mailed \cup {new} /\ Cardinality(mailed') = n
      /\ compared' = compared /\ redeemed' = redeemed
  BY IssueFacts DEF Issues
<1>3. challenge' = [challenge EXCEPT ![c] =
         [exists |-> TRUE, code |-> n, attempts |-> 0, sent |-> clock, exp |-> clock + TTL]]
  BY IssueFacts DEF Issues
<1>4. \A s \in mailed : s.code \in 1 .. Cardinality(mailed) /\ s.code \in Nat /\ s.to \in Challenges
  BY DEF MailInv, Codes!TypeOK, Codes!Send
<1>5. /\ challenge'[c].exists /\ challenge'[c].code = n /\ challenge'[c].attempts = 0
      /\ challenge'[c].exp = clock + TTL
      /\ \A d \in Challenges : d # c => challenge'[d] = challenge[d]
  BY <1>3 DEF MailInv, Codes!TypeOK
<1>6. compared[n] = 0 /\ MaxCodes \in Nat
  BY <1>2, CodesAssumption DEF CodeInv, GuessInv
<1>7. challenge[c].exists \/ \A s \in mailed : s.to # c
  BY DEF Issues
<1> HIDE DEF new, n
<1>8. RowInv'
  <2> SUFFICES ASSUME NEW d \in Challenges, challenge'[d].exists
               PROVE  /\ \E s \in mailed' :
                            /\ s.to = d /\ s.code = challenge'[d].code
                            /\ challenge'[d].exp = s.at + TTL
                            /\ \A u \in mailed' : u.to = d => u.code <= s.code
                      /\ compared'[challenge'[d].code] = challenge'[d].attempts
    BY DEF RowInv
  <2>1. CASE d = c
    <3>1. \A u \in mailed' : u.code <= n
      <4>1. n \in Nat /\ Cardinality(mailed) \in Nat /\ Cardinality(mailed) < n
        BY <1>2 DEF n
      <4> QED BY <1>1, <1>2, <1>4, <4>1
    <3>2. new \in mailed'
      BY <1>2
    <3> QED BY <1>1, <1>2, <1>5, <1>6, <2>1, <3>1, <3>2
  <2>2. CASE d # c
    <3>1. challenge'[d] = challenge[d]
      BY <1>5, <2>2
    <3>2. PICK s \in mailed : /\ s.to = d /\ s.code = challenge[d].code
                              /\ challenge[d].exp = s.at + TTL
                              /\ \A u \in mailed : u.to = d => u.code <= s.code
      BY <3>1 DEF CodeInv, RowInv
    <3>3. compared[challenge[d].code] = challenge[d].attempts
      BY <3>1 DEF CodeInv, RowInv
    <3>4. s \in mailed' /\ \A u \in mailed' : u.to = d => u.code <= s.code
      BY <1>1, <1>2, <2>2, <3>2
    <3> QED BY <1>2, <3>1, <3>2, <3>3, <3>4
  <2> QED BY <2>1, <2>2
<1>9. GuessInv'
  <2>1. n \in Nat /\ n > Cardinality(mailed)
    BY <1>2 DEF n
  <2> QED BY <1>2, <1>6, <2>1 DEF CodeInv, GuessInv
<1>10. RedeemInv'
  <2> SUFFICES ASSUME NEW d \in redeemed
               PROVE  /\ \A e \in redeemed : e.code = d.code => e = d
                      /\ \E s \in mailed' :
                            /\ s.code = d.code /\ d.at < s.at + TTL
                            /\ \A u \in mailed' : u.to = s.to => u.code <= s.code
                            /\ ~challenge'[s.to].exists
    BY <1>2 DEF RedeemInv
  <2>1. PICK s \in mailed : /\ s.code = d.code /\ d.at < s.at + TTL
                            /\ \A u \in mailed : u.to = s.to => u.code <= s.code
                            /\ ~challenge[s.to].exists
    BY DEF CodeInv, RedeemInv
  <2>2. s.to # c
    BY <1>7, <2>1
  <2>3. ~challenge'[s.to].exists
    BY <1>4, <1>5, <2>1, <2>2
  <2>4. s \in mailed' /\ \A u \in mailed' : u.to = s.to => u.code <= s.code
    BY <1>1, <1>2, <2>1, <2>2
  <2> QED BY <2>1, <2>3, <2>4 DEF CodeInv, RedeemInv
<1> QED BY <1>8, <1>9, <1>10 DEF CodeInv


\* A comparison is counted against the code and, when the guess was wrong, in its row.
LEMMA CompareCodes ==
    ASSUME MailInv, CodeInv, NEW r \in Requests, Codes!Redeem(r) \/ Codes!CountWrong(r)
    PROVE  CodeInv'
<1> DEFINE c == verifying[r].challenge
           n == challenge[c].code
<1>1. /\ c \in Challenges /\ challenge[c].exists
      /\ verifying[r].now < challenge[c].exp /\ challenge[c].attempts < MaxAttempts
      /\ compared' = [compared EXCEPT ![n] = @ + 1]
      /\ mailed' = mailed
  BY CompareFacts
<1>2. /\ challenge[c].attempts \in Nat /\ MaxAttempts \in Nat /\ MaxCodes \in Nat
      /\ challenge \in [Challenges -> Codes!Row] /\ compared \in [1 .. MaxCodes -> Nat]
      /\ Cardinality(mailed) \in Nat
  BY <1>1, RowType, CodesAssumption, FS_CardinalityType DEF MailInv, Codes!TypeOK
<1>3. /\ n \in 1 .. Cardinality(mailed) /\ n \in 1 .. MaxCodes
      /\ compared[n] = challenge[c].attempts
  BY <1>1, RowCode DEF CodeInv, RowInv
<1>4. \A d \in Challenges : d # c /\ challenge[d].exists => challenge[d].code # n
  BY <1>1, RowsDiffer DEF CodeInv
<1>5. /\ \A d \in Challenges : d # c => challenge'[d] = challenge[d]
      /\ \/ ~challenge'[c].exists
         \/ challenge'[c] = [challenge[c] EXCEPT !.attempts = @ + 1]
  BY <1>1, <1>2 DEF Codes!Redeem, Codes!CountWrong, Codes!NoRow
<1>6. /\ compared'[n] = compared[n] + 1
      /\ \A m \in 1 .. MaxCodes : m # n => compared'[m] = compared[m]
  BY <1>1, <1>2, <1>3
<1>7. RowInv'
  <2> SUFFICES ASSUME NEW d \in Challenges, challenge'[d].exists
               PROVE  /\ \E s \in mailed :
                            /\ s.to = d /\ s.code = challenge'[d].code
                            /\ challenge'[d].exp = s.at + TTL
                            /\ \A u \in mailed : u.to = d => u.code <= s.code
                      /\ compared'[challenge'[d].code] = challenge'[d].attempts
    BY <1>1 DEF RowInv
  <2>1. CASE d = c
    <3>1. /\ challenge'[c].code = n /\ challenge'[c].exp = challenge[c].exp
          /\ challenge'[c].attempts = challenge[c].attempts + 1
      BY <1>1, <1>2, <1>5, <2>1 DEF Codes!Row
    <3> QED BY <1>1, <1>3, <1>6, <2>1, <3>1 DEF CodeInv, RowInv
  <2>2. CASE d # c
    <3>1. challenge'[d] = challenge[d] /\ challenge[d].code # n
      BY <1>4, <1>5, <2>2
    <3>2. challenge[d].code \in 1 .. MaxCodes
      BY <3>1, RowCode DEF CodeInv
    <3> QED BY <1>6, <3>1, <3>2 DEF CodeInv, RowInv
  <2> QED BY <2>1, <2>2
<1> HIDE DEF n
<1>8. GuessInv'
  <2>1. compared'[n] <= MaxAttempts /\ ~(n > Cardinality(mailed))
    BY <1>1, <1>2, <1>3, <1>6
  <2> QED BY <1>1, <1>3, <1>6, <2>1 DEF CodeInv, GuessInv
<1>9. RedeemInv'
  <2>1. \A s \in mailed : s.to \in Challenges
    BY DEF MailInv, Codes!TypeOK, Codes!Send
  <2>2. \A s \in mailed : ~challenge[s.to].exists => ~challenge'[s.to].exists
    BY <1>1, <1>5, <2>1
  <2>3. CASE Codes!CountWrong(r)
    <3>1. redeemed' = redeemed
      BY <2>3 DEF Codes!CountWrong
    <3> QED BY <1>1, <2>2, <3>1 DEF CodeInv, RedeemInv
  <2>4. CASE Codes!Redeem(r)
    <3> DEFINE new == [code |-> verifying[r].code, by |-> r, at |-> verifying[r].now]
    <3>1. redeemed' = redeemed \cup {new} /\ ~challenge'[c].exists /\ n = verifying[r].code
      BY <1>1, <1>2, <2>4 DEF Codes!Redeem, Codes!NoRow, n
    <3>2. new.code = n /\ new.at = verifying[r].now
      BY <3>1
    <3> HIDE DEF new
    <3>3. PICK s \in mailed : /\ s.to = c /\ s.code = n
                              /\ challenge[c].exp = s.at + TTL
                              /\ \A u \in mailed : u.to = c => u.code <= s.code
      BY <1>1 DEF CodeInv, RowInv, n
    <3>4. \A d \in redeemed : d.code # n
      <4> SUFFICES ASSUME NEW d \in redeemed, d.code = n PROVE FALSE
        OBVIOUS
      <4>1. PICK u \in mailed : u.code = n /\ ~challenge[u.to].exists
        BY DEF CodeInv, RedeemInv
      <4>2. u = s
        BY <3>3, <4>1 DEF MailInv
      <4> QED BY <1>1, <3>3, <4>1, <4>2
    <3>5. \A d, e \in redeemed' : e.code = d.code => e = d
      BY <3>1, <3>2, <3>4 DEF CodeInv, RedeemInv
    <3>6. /\ s.code = new.code /\ new.at < s.at + TTL
          /\ \A u \in mailed : u.to = s.to => u.code <= s.code
          /\ ~challenge'[s.to].exists
      BY <1>1, <3>1, <3>2, <3>3
    <3>7. \A d \in redeemed :
             \E u \in mailed :
                /\ u.code = d.code /\ d.at < u.at + TTL
                /\ \A v \in mailed : v.to = u.to => v.code <= u.code
                /\ ~challenge'[u.to].exists
      BY <2>2 DEF CodeInv, RedeemInv
    <3> QED BY <1>1, <3>1, <3>5, <3>6, <3>7 DEF RedeemInv
  <2> QED BY <2>3, <2>4
<1> QED BY <1>7, <1>8, <1>9 DEF CodeInv

\* Rows, guesses and redeemed codes stay tied to the codes that were mailed.
THEOREM CodeInvariant == Codes!Spec => []CodeInv
<1>1. Codes!Init => CodeInv
  BY CodesAssumption DEF Codes!Init, Codes!NoRow, CodeInv, RowInv, GuessInv, RedeemInv
<1>2. MailInv /\ CodeInv /\ [Codes!Next]_(Codes!vars) => CodeInv'
  BY CodesMove, QuietCodes, IssueCodes, CompareCodes
<1> QED BY <1>1, <1>2, MailInvariant, PTL DEF Codes!Spec

\* No code is compared with more guesses than the attempts of a challenge, also when
\* requests that found it active race (ConsumeOTP).
THEOREM GuessesPerCodeHolds == Codes!Spec => []GuessesPerCode
<1>1. CodeInv => GuessesPerCode
  BY DEF CodeInv, GuessInv, GuessesPerCode, Codes!GuessesPerCode
<1> QED BY <1>1, CodeInvariant, PTL

\* A code signs in once, before it ends, and only the last code of its challenge does
\* (ConsumeOTP, ResendOTP).
THEOREM SingleUseHolds == Codes!Spec => []SingleUse
<1>1. CodeInv => SingleUse
  BY DEF CodeInv, RedeemInv, SingleUse, Codes!SingleUse
<1> QED BY <1>1, CodeInvariant, PTL


-----------------------------------------------------------------------------
(* The grants page *)

GrantRow ==
    [pc : {"row"}, revoked : BOOLEAN, idle : 0 .. IdleTTL, absolute : 0 .. AbsoluteTTL]

PageRow ==
    [pc : {"creating", "shown", "failed"}, email : Emails, sids : SUBSET SIDs,
     todo : SUBSET SIDs, left : 0 .. ActionTTL, used : SUBSET SIDs]

\* The type of the grants page, in the parts the proofs speak of.
LEMMA PageTypes ==
    Page!TypeOK <=>
        /\ grant \in [SIDs -> {Page!Never, Page!Gone} \cup GrantRow]
        /\ action \subseteq Page!Action
        /\ page \in [Pages -> {Page!Never} \cup PageRow]
        /\ revokedBy \in [SIDs -> Emails \cup {None}]
BY Zenon DEF Page!TypeOK, GrantRow, PageRow

\* A grant that exists, and a page that was begun, are rows.
LEMMA RowsTyped ==
    ASSUME Page!TypeOK
    PROVE  /\ \A s \in SIDs : Page!Exists(s) => grant[s] \in GrantRow
           /\ \A p \in Pages : page[p].pc # "never" => page[p] \in PageRow
BY PageTypes DEF Page!Exists, Page!Never, Page!Gone

\* What is left of a lifetime after a moment.
LEMMA LessType ==
    ASSUME NEW max \in Nat, NEW n \in 0 .. max
    PROVE  Page!Less(n) \in 0 .. max
BY DEF Page!Less

LEMMA EarlierType ==
    ASSUME NEW max \in Nat, NEW other \in Nat
    PROVE  Page!Earlier(max, other) \in 0 .. max
BY DEF Page!Earlier

\* Grants, actions and pages keep their types.
THEOREM PageTypeCorrect == Page!Spec => []Page!TypeOK
<1>1. Page!Init => Page!TypeOK
  BY DEF Page!Init, Page!TypeOK
<1>2. Page!TypeOK /\ [Page!Next]_(Page!vars) => Page!TypeOK'
  <2> SUFFICES ASSUME Page!TypeOK, [Page!Next]_(Page!vars) PROVE Page!TypeOK'
    OBVIOUS
  <2> DEFINE T == /\ grant' \in [SIDs -> {Page!Never, Page!Gone} \cup GrantRow]
                  /\ action' \subseteq Page!Action
                  /\ page' \in [Pages -> {Page!Never} \cup PageRow]
                  /\ revokedBy' \in [SIDs -> Emails \cup {None}]
  <2>0. /\ grant \in [SIDs -> {Page!Never, Page!Gone} \cup GrantRow]
        /\ action \subseteq Page!Action
        /\ page \in [Pages -> {Page!Never} \cup PageRow]
        /\ revokedBy \in [SIDs -> Emails \cup {None}]
    BY PageTypes
  <2>a. IdleTTL \in Nat /\ AbsoluteTTL \in Nat /\ ActionTTL \in Nat
    BY PageAssumption
  <2>1. ASSUME NEW s \in SIDs, Page!Create(s) PROVE T
    <3>1. [pc |-> "row", revoked |-> FALSE, absolute |-> AbsoluteTTL,
           idle |-> Page!Earlier(IdleTTL, AbsoluteTTL)] \in GrantRow
      BY <2>a, EarlierType DEF GrantRow
    <3> QED BY <2>0, <2>1, <3>1 DEF Page!Create
  <2>2. ASSUME NEW s \in SIDs, Page!RevokeElsewhere(s) PROVE T
    <3>1. [grant[s] EXCEPT !.revoked = TRUE] \in GrantRow
      BY <2>2, RowsTyped DEF Page!RevokeElsewhere, Page!Active, GrantRow
    <3>2. grant' = [grant EXCEPT ![s] = [grant[s] EXCEPT !.revoked = TRUE]]
      BY <2>2 DEF Page!RevokeElsewhere
    <3> QED BY <2>0, <2>2, <3>1, <3>2 DEF Page!RevokeElsewhere
  <2>3. ASSUME NEW s \in SIDs, NEW absolute \in 1 .. AbsoluteTTL, Page!Refresh(s, absolute)
        PROVE  T
    <3>1. Page!Earlier(IdleTTL, absolute) \in 0 .. IdleTTL /\ absolute \in 0 .. AbsoluteTTL
      BY <2>a, EarlierType
    <3>2. [grant[s] EXCEPT !.idle = Page!Earlier(IdleTTL, absolute), !.absolute = absolute]
             \in GrantRow
      BY <2>3, <3>1, RowsTyped DEF Page!Refresh, Page!Active, GrantRow
    <3>3. grant' = [grant EXCEPT ![s] =
             [grant[s] EXCEPT !.idle = Page!Earlier(IdleTTL, absolute), !.absolute = absolute]]
      BY <2>0, <2>3 DEF Page!Refresh
    <3> QED BY <2>0, <2>3, <3>2, <3>3 DEF Page!Refresh
  <2>4. ASSUME NEW p \in Pages, NEW email \in Emails, Page!ListActiveGrants(p, email)
        PROVE  T
    <3> DEFINE active == {s \in SIDs : Owner[s] = email /\ Page!Active(s)}
    <3>1. active \in SUBSET SIDs
      OBVIOUS
    <3>2. page' = [page EXCEPT ![p] = [pc |-> "creating", email |-> email, sids |-> active,
                                       todo |-> active, left |-> ActionTTL, used |-> {}]]
      BY <2>4 DEF Page!ListActiveGrants
    <3> HIDE DEF active
    <3>3. [pc |-> "creating", email |-> email, sids |-> active,
           todo |-> active, left |-> ActionTTL, used |-> {}] \in PageRow
      BY <2>a, <3>1 DEF PageRow
    <3> QED BY <2>0, <2>4, <3>2, <3>3 DEF Page!ListActiveGrants
  <2>5. ASSUME NEW p \in Pages, NEW sids \in SUBSET SIDs, Page!CreateGrantActions(p, sids)
        PROVE  T
    <3>1. page[p] \in PageRow
      BY <2>5, RowsTyped DEF Page!CreateGrantActions, Page!Batch
    <3>2. [page[p] EXCEPT !.todo = @ \ sids] \in PageRow
      BY <3>1 DEF PageRow
    <3>3. page' = [page EXCEPT ![p] = [page[p] EXCEPT !.todo = @ \ sids]]
      BY <2>5 DEF Page!CreateGrantActions
    <3>4. action' \subseteq Page!Action
      BY <2>0, <2>5, <3>1 DEF Page!CreateGrantActions, Page!Action, PageRow
    <3> QED BY <2>0, <2>5, <3>2, <3>3, <3>4 DEF Page!CreateGrantActions, Page!Batch
  <2>6. ASSUME NEW p \in Pages, NEW sids \in SUBSET SIDs, Page!CreateFails(p, sids)
        PROVE  T
    <3>1. page[p] \in PageRow
      BY <2>6, RowsTyped DEF Page!CreateFails, Page!Batch
    <3>2. [page[p] EXCEPT !.pc = "failed"] \in PageRow
      BY <3>1 DEF PageRow
    <3>3. page' = [page EXCEPT ![p] = [page[p] EXCEPT !.pc = "failed"]]
      BY <2>6 DEF Page!CreateFails
    <3> QED BY <2>0, <2>6, <3>2, <3>3 DEF Page!CreateFails, Page!Batch
  <2>7. ASSUME NEW p \in Pages, Page!Render(p) PROVE T
    <3>1. page[p] \in PageRow
      BY <2>7, RowsTyped DEF Page!Render
    <3>2. [page[p] EXCEPT !.pc = "shown"] \in PageRow
      BY <3>1 DEF PageRow
    <3>3. page' = [page EXCEPT ![p] = [page[p] EXCEPT !.pc = "shown"]]
      BY <2>7 DEF Page!Render
    <3> QED BY <2>0, <2>7, <3>2, <3>3 DEF Page!Render
  <2>8. ASSUME NEW p \in Pages, NEW token \in SIDs, NEW s \in SIDs, NEW email \in Emails,
               Page!ConsumeGrantActionAndRevoke(p, token, email, s)
        PROVE  T
    <3>1. page[p] \in PageRow
      BY <2>8, RowsTyped DEF Page!ConsumeGrantActionAndRevoke
    <3>2. [page[p] EXCEPT !.used = @ \cup {token}] \in PageRow /\ page[p].email \in Emails
      BY <3>1 DEF PageRow
    <3>3. page' = [page EXCEPT ![p] = [page[p] EXCEPT !.used = @ \cup {token}]]
      BY <2>8 DEF Page!ConsumeGrantActionAndRevoke
    <3>4. [grant[s] EXCEPT !.revoked = TRUE] \in GrantRow
      BY <2>8, RowsTyped DEF Page!ConsumeGrantActionAndRevoke, Page!Active, GrantRow
    <3>5. grant' = [grant EXCEPT ![s] = [grant[s] EXCEPT !.revoked = TRUE]]
      BY <2>8 DEF Page!ConsumeGrantActionAndRevoke
    <3>6. action' \subseteq action /\ revokedBy' = [revokedBy EXCEPT ![s] = page[p].email]
      BY <2>8 DEF Page!ConsumeGrantActionAndRevoke
    <3> QED BY <2>0, <3>2, <3>3, <3>4, <3>5, <3>6
  <2>9. ASSUME NEW expired, Page!CleanActions(expired) PROVE T
    BY <2>0, <2>9 DEF Page!CleanActions
  <2>10. ASSUME NEW expired, Page!CleanGrants(expired) PROVE T
    BY <2>0, <2>10 DEF Page!CleanGrants
  <2>11. ASSUME Page!Tick PROVE T
    <3>1. \A s \in SIDs : Page!Exists(s) =>
             [grant[s] EXCEPT !.idle = Page!Less(@), !.absolute = Page!Less(@)] \in GrantRow
      BY <2>a, LessType, RowsTyped DEF GrantRow
    <3>2. grant' \in [SIDs -> {Page!Never, Page!Gone} \cup GrantRow]
      BY <2>0, <2>11, <3>1 DEF Page!Tick
    <3>3. \A a \in action : [a EXCEPT !.left = Page!Less(@)] \in Page!Action
      BY <2>0, <2>a, LessType DEF Page!Action
    <3>4. action' \subseteq Page!Action
      BY <2>11, <3>3 DEF Page!Tick
    <3>5. \A p \in Pages : page[p] # Page!Never =>
             [page[p] EXCEPT !.left = Page!Less(@)] \in PageRow
      BY <2>0, <2>a, LessType DEF PageRow
    <3>6. page' \in [Pages -> {Page!Never} \cup PageRow]
      BY <2>0, <2>11, <3>5 DEF Page!Tick
    <3> QED BY <2>0, <2>11, <3>2, <3>4, <3>6 DEF Page!Tick
  <2>12. ASSUME UNCHANGED Page!vars PROVE T
    BY <2>0, <2>12 DEF Page!vars
  <2>13. T
    BY <2>1, <2>2, <2>3, <2>4, <2>5, <2>6, <2>7, <2>8, <2>9, <2>10, <2>11, <2>12
       DEF Page!Next
  <2> QED BY <2>13, Zenon DEF Page!TypeOK, GrantRow, PageRow, Page!Never, Page!Gone, Page!Action
<1> QED BY <1>1, <1>2, PTL DEF Page!Spec


\* An action belongs to a page that was begun, is for its address and ends with it.
ActionInv ==
    \A a \in action :
        /\ page[a.page].pc # "never"
        /\ a.email = page[a.page].email /\ a.left = page[a.page].left

\* Every grant that a page lists was there; as long as the page is not over, each listed
\* grant whose turn has come and whose button was not used has its action or is gone.
Backed(p, s) ==
    page[p].left > 0 => grant[s].pc = "gone" \/ \E a \in action : a.page = p /\ a.sid = s

Buttons(p) ==
    page[p].pc # "never" =>
        /\ page[p].pc = "shown" => page[p].todo = {}
        /\ \A s \in page[p].sids :
              /\ grant[s].pc # "never"
              /\ s \notin page[p].todo \cup page[p].used => Backed(p, s)

ButtonInv == \A p \in Pages : Buttons(p)

\* A grant that was made stays made, and one that is gone stays gone.
LEMMA GrantsMove ==
    ASSUME Page!TypeOK, [Page!Next]_(Page!vars), NEW s \in SIDs
    PROVE  /\ grant[s].pc # "never" => grant'[s].pc # "never"
           /\ grant[s].pc = "gone" => grant'[s].pc = "gone"
<1>0. grant \in [SIDs -> {Page!Never, Page!Gone} \cup GrantRow]
  BY PageTypes
<1>1. ASSUME NEW t \in SIDs, Page!Create(t)
      PROVE  /\ grant[s].pc # "never" => grant'[s].pc # "never"
             /\ grant[s].pc = "gone" => grant'[s].pc = "gone"
  BY <1>0, <1>1 DEF Page!Create, Page!Never
<1>2. ASSUME NEW t \in SIDs, Page!Exists(t), grant'[t].pc = grant[t].pc,
             \A u \in SIDs : u # t => grant'[u] = grant[u]
      PROVE  grant'[s].pc = grant[s].pc
  BY <1>2
<1>3. ASSUME NEW t \in SIDs, Page!RevokeElsewhere(t)
      PROVE  grant'[s].pc = grant[s].pc
  <2>1. /\ grant' = [grant EXCEPT ![t] = [grant[t] EXCEPT !.revoked = TRUE]]
        /\ Page!Exists(t) /\ grant[t] \in GrantRow
    BY <1>3, RowsTyped DEF Page!RevokeElsewhere, Page!Active
  <2> QED BY <1>0, <1>2, <2>1 DEF GrantRow
<1>4. ASSUME NEW t \in SIDs, NEW absolute, Page!Refresh(t, absolute)
      PROVE  grant'[s].pc = grant[s].pc
  <2>1. Page!Exists(t) /\ grant[t] \in GrantRow
    BY <1>4, RowsTyped DEF Page!Refresh, Page!Active
  <2>2. grant' = [grant EXCEPT ![t] =
           [grant[t] EXCEPT !.idle = Page!Earlier(IdleTTL, absolute), !.absolute = absolute]]
    BY <1>0, <1>4 DEF Page!Refresh
  <2> QED BY <1>0, <1>2, <2>1, <2>2 DEF GrantRow
<1>5. ASSUME NEW p, NEW token, NEW email, NEW t \in SIDs,
             Page!ConsumeGrantActionAndRevoke(p, token, email, t)
      PROVE  grant'[s].pc = grant[s].pc
  <2>1. /\ grant' = [grant EXCEPT ![t] = [grant[t] EXCEPT !.revoked = TRUE]]
        /\ Page!Exists(t) /\ grant[t] \in GrantRow
    BY <1>5, RowsTyped DEF Page!ConsumeGrantActionAndRevoke, Page!Active
  <2> QED BY <1>0, <1>2, <2>1 DEF GrantRow
<1>6. ASSUME NEW expired \in SUBSET {t \in SIDs : Page!Exists(t) /\ grant[t].absolute = 0},
             Page!CleanGrants(expired)
      PROVE  grant'[s].pc = grant[s].pc \/ (Page!Exists(s) /\ grant'[s].pc = "gone")
  BY <1>6 DEF Page!CleanGrants, Page!Gone
<1>7. ASSUME Page!Tick PROVE grant'[s].pc = grant[s].pc
  <2>1. grant'[s] = IF Page!Exists(s)
                    THEN [grant[s] EXCEPT !.idle = Page!Less(@), !.absolute = Page!Less(@)]
                    ELSE grant[s]
    BY <1>7 DEF Page!Tick
  <2>2. CASE Page!Exists(s)
    BY <2>1, <2>2, RowsTyped DEF GrantRow
  <2> QED BY <2>1, <2>2
<1>8. CASE UNCHANGED grant
  BY <1>8
<1>9. \/ UNCHANGED grant \/ Page!Tick
      \/ \E t \in SIDs : \/ Page!Create(t) \/ Page!RevokeElsewhere(t)
                         \/ \E absolute \in 1 .. AbsoluteTTL : Page!Refresh(t, absolute)
      \/ \E p \in Pages, token, t \in SIDs, email \in Emails :
            Page!ConsumeGrantActionAndRevoke(p, token, email, t)
      \/ \E expired \in SUBSET {t \in SIDs : Page!Exists(t) /\ grant[t].absolute = 0} :
            Page!CleanGrants(expired)
  BY DEF Page!Next, Page!vars, Page!ListActiveGrants, Page!CreateGrantActions, Page!Batch,
         Page!CreateFails, Page!Render, Page!CleanActions
<1> QED BY <1>1, <1>3, <1>4, <1>5, <1>6, <1>7, <1>8, <1>9 DEF Page!Exists


\* A step that keeps the address, the grants and the time of every page keeps ActionInv,
\* whichever actions it deletes.
LEMMA ActionsStay ==
    ASSUME Page!TypeOK, ActionInv, action' \subseteq action,
           \A p \in Pages : page[p].pc # "never" =>
               /\ page'[p].pc # "never"
               /\ page'[p].email = page[p].email /\ page'[p].left = page[p].left
    PROVE  ActionInv'
<1>1. \A a \in action : a.page \in Pages
  BY PageTypes DEF Page!Action
<1> QED BY <1>1 DEF ActionInv

\* Actions stay with the page they were stored for.
THEOREM ActionInvariant == Page!Spec => []ActionInv
<1>1. Page!Init => ActionInv
  BY DEF Page!Init, ActionInv
<1>2. Page!TypeOK /\ ActionInv /\ [Page!Next]_(Page!vars) => ActionInv'
  <2> SUFFICES ASSUME Page!TypeOK, ActionInv, [Page!Next]_(Page!vars) PROVE ActionInv'
    OBVIOUS
  <2>0. /\ page \in [Pages -> {Page!Never} \cup PageRow]
        /\ \A a \in action : a \in Page!Action /\ a.page \in Pages
    BY PageTypes DEF Page!Action
  <2>1. CASE UNCHANGED page /\ action' \subseteq action
    BY <2>1, ActionsStay
  <2>2. ASSUME NEW p \in Pages, NEW email \in Emails, Page!ListActiveGrants(p, email)
        PROVE  ActionInv'
    <3>1. /\ page[p].pc = "never" /\ action' = action
          /\ \A o \in Pages : o # p => page'[o] = page[o]
      BY <2>0, <2>2 DEF Page!ListActiveGrants, Page!Never
    <3> QED BY <3>1, ActionsStay
  <2>3. ASSUME NEW p \in Pages, NEW sids \in SUBSET SIDs, Page!CreateGrantActions(p, sids)
        PROVE  ActionInv'
    <3>1. page[p] \in PageRow
      BY <2>3, RowsTyped DEF Page!CreateGrantActions, Page!Batch
    <3>2. page' = [page EXCEPT ![p] = [page[p] EXCEPT !.todo = @ \ sids]]
      BY <2>3 DEF Page!CreateGrantActions
    <3>3. \A o \in Pages : /\ page'[o].pc = page[o].pc /\ page'[o].email = page[o].email
                           /\ page'[o].left = page[o].left
      BY <2>0, <3>1, <3>2 DEF PageRow
    <3>4. \A a \in action' : a \in action \/
             (a.page = p /\ a.email = page[p].email /\ a.left = page[p].left)
      BY <2>3 DEF Page!CreateGrantActions
    <3>5. page[p].pc # "never"
      BY <3>1 DEF PageRow
    <3> QED BY <2>0, <3>3, <3>4, <3>5 DEF ActionInv
  <2>4. ASSUME NEW p \in Pages, NEW sids \in SUBSET SIDs, Page!CreateFails(p, sids) \/ Page!Render(p)
        PROVE  ActionInv'
    <3>1. page[p] \in PageRow /\ action' = action
      BY <2>4, RowsTyped DEF Page!CreateFails, Page!Batch, Page!Render
    <3>2. \/ page' = [page EXCEPT ![p] = [page[p] EXCEPT !.pc = "failed"]]
          \/ page' = [page EXCEPT ![p] = [page[p] EXCEPT !.pc = "shown"]]
      BY <2>4 DEF Page!CreateFails, Page!Render
    <3>3. \A o \in Pages : page[o].pc # "never" =>
             /\ page'[o].pc # "never"
             /\ page'[o].email = page[o].email /\ page'[o].left = page[o].left
      BY <2>0, <3>1, <3>2 DEF PageRow
    <3> QED BY <3>1, <3>3, ActionsStay
  <2>5. ASSUME NEW p \in Pages, NEW token \in SIDs, NEW s \in SIDs, NEW email \in Emails,
               Page!ConsumeGrantActionAndRevoke(p, token, email, s)
        PROVE  ActionInv'
    <3>1. page[p] \in PageRow /\ action' \subseteq action
      BY <2>5, RowsTyped DEF Page!ConsumeGrantActionAndRevoke
    <3>2. page' = [page EXCEPT ![p] = [page[p] EXCEPT !.used = @ \cup {token}]]
      BY <2>5 DEF Page!ConsumeGrantActionAndRevoke
    <3>3. \A o \in Pages : page[o].pc # "never" =>
             /\ page'[o].pc # "never"
             /\ page'[o].email = page[o].email /\ page'[o].left = page[o].left
      BY <2>0, <3>1, <3>2 DEF PageRow
    <3> QED BY <3>1, <3>3, ActionsStay
  <2>6. CASE Page!Tick
    <3>1. \A p \in Pages : page[p].pc # "never" =>
             page'[p] = [page[p] EXCEPT !.left = Page!Less(@)]
      BY <2>6 DEF Page!Tick, Page!Never
    <3>2. \A p \in Pages : page[p].pc # "never" =>
             /\ page'[p].pc # "never" /\ page'[p].email = page[p].email
             /\ page'[p].left = Page!Less(page[p].left)
      BY <3>1, RowsTyped DEF PageRow
    <3> SUFFICES ASSUME NEW b \in action'
                 PROVE  /\ page'[b.page].pc # "never"
                        /\ b.email = page'[b.page].email /\ b.left = page'[b.page].left
      BY DEF ActionInv
    <3>3. PICK a \in action : b = [a EXCEPT !.left = Page!Less(@)]
      BY <2>6 DEF Page!Tick
    <3>4. b.page = a.page /\ b.email = a.email /\ b.left = Page!Less(a.left)
      BY <2>0, <3>3 DEF Page!Action
    <3> QED BY <2>0, <3>2, <3>4 DEF ActionInv
  <2>7. \/ UNCHANGED page /\ action' \subseteq action
        \/ Page!Tick
        \/ \E p \in Pages :
              \/ \E email \in Emails : Page!ListActiveGrants(p, email)
              \/ \E sids \in SUBSET SIDs : Page!CreateGrantActions(p, sids) \/ Page!CreateFails(p, sids)
              \/ Page!Render(p)
              \/ \E token, s \in SIDs, email \in Emails :
                    Page!ConsumeGrantActionAndRevoke(p, token, email, s)
    BY DEF Page!Next, Page!vars, Page!Create, Page!RevokeElsewhere, Page!Refresh,
           Page!CleanActions, Page!CleanGrants
  <2> QED BY <2>1, <2>2, <2>3, <2>4, <2>5, <2>6, <2>7
<1> QED BY <1>1, <1>2, PageTypeCorrect, PTL DEF Page!Spec

\* A form of the grants page revokes only grants of the address that signed in to that
\* page, whatever the form says (ConsumeGrantActionAndRevoke).
THEOREM OwnGrantsOnlyHolds == Page!Spec => []OwnGrantsOnly
<1> USE DEF OwnGrantsOnly, Page!OwnGrantsOnly
<1>1. Page!Init => OwnGrantsOnly
  BY DEF Page!Init
<1>2. /\ Page!TypeOK /\ ActionInv /\ OwnGrantsOnly /\ [Page!Next]_(Page!vars)
      => OwnGrantsOnly'
  <2> SUFFICES ASSUME Page!TypeOK, ActionInv, OwnGrantsOnly, [Page!Next]_(Page!vars)
               PROVE  OwnGrantsOnly'
    OBVIOUS
  <2>1. CASE UNCHANGED revokedBy
    BY <2>1
  <2>2. ASSUME NEW p \in Pages, NEW token \in SIDs, NEW s \in SIDs, NEW email \in Emails,
               Page!ConsumeGrantActionAndRevoke(p, token, email, s)
        PROVE  OwnGrantsOnly'
    <3>1. /\ Owner[s] = email /\ Page!Matches(p, token, email, s)
          /\ revokedBy' = [revokedBy EXCEPT ![s] = page[p].email]
      BY <2>2 DEF Page!ConsumeGrantActionAndRevoke
    <3>2. page[p].email = email
      BY <3>1 DEF Page!Matches, ActionInv
    <3>3. revokedBy \in [SIDs -> Emails \cup {None}]
      BY PageTypes
    <3> QED BY <3>1, <3>2, <3>3
  <2>3. \/ UNCHANGED revokedBy
        \/ \E p \in Pages, token, s \in SIDs, email \in Emails :
              Page!ConsumeGrantActionAndRevoke(p, token, email, s)
    BY DEF Page!Next, Page!vars, Page!Create, Page!RevokeElsewhere, Page!Refresh,
           Page!ListActiveGrants, Page!CreateGrantActions, Page!CreateFails, Page!Batch,
           Page!Render, Page!CleanActions, Page!CleanGrants, Page!Tick
  <2> QED BY <2>1, <2>2, <2>3
<1> QED BY <1>1, <1>2, PageTypeCorrect, ActionInvariant, PTL DEF Page!Spec


\* What a page that was begun lists are grants.
LEMMA PageSIDs ==
    ASSUME Page!TypeOK, NEW p \in Pages, page[p].pc # "never"
    PROVE  /\ page[p].sids \subseteq SIDs /\ page[p].todo \subseteq SIDs
           /\ page[p].left \in Nat
BY RowsTyped, PageAssumption DEF PageRow

\* A page keeps its buttons in a step that leaves its list, its time and its used buttons
\* alone and deletes an action only when its grant goes or its time is over.
LEMMA ButtonsKept ==
    ASSUME Page!TypeOK, [Page!Next]_(Page!vars), NEW p \in Pages, Buttons(p),
           page[p].pc # "never",
           page'[p].sids = page[p].sids, page'[p].todo = page[p].todo,
           page'[p].used = page[p].used, page'[p].left = page[p].left,
           page'[p].pc = "shown" => page[p].todo = {},
           \A a \in action : a.page = p =>
               a \in action' \/ grant'[a.sid].pc = "gone" \/ page[p].left = 0
    PROVE  Buttons(p)'
<1>1. page[p].sids \subseteq SIDs /\ page[p].left \in Nat
  BY PageSIDs
<1>2. ASSUME NEW s \in page[p].sids
      PROVE  /\ grant'[s].pc # "never"
             /\ s \notin page[p].todo \cup page[p].used => Backed(p, s)'
  <2>1. grant'[s].pc # "never" /\ (grant[s].pc = "gone" => grant'[s].pc = "gone")
    BY <1>1, GrantsMove DEF Buttons
  <2>2. ASSUME s \notin page[p].todo \cup page[p].used, page'[p].left > 0
        PROVE  grant'[s].pc = "gone" \/ \E a \in action' : a.page = p /\ a.sid = s
    <3>1. Backed(p, s)
      BY <2>2 DEF Buttons
    <3> QED BY <1>1, <2>1, <2>2, <3>1 DEF Backed
  <2> QED BY <2>1, <2>2 DEF Backed
<1> QED BY <1>2 DEF Buttons

\* Listed grants have their buttons.
THEOREM ButtonInvariant == Page!Spec => []ButtonInv
<1>1. Page!Init => ButtonInv
  BY DEF Page!Init, ButtonInv, Buttons, Page!Never
<1>2. Page!TypeOK /\ ActionInv /\ ButtonInv /\ [Page!Next]_(Page!vars) => ButtonInv'
  <2> SUFFICES ASSUME Page!TypeOK, ActionInv, ButtonInv, [Page!Next]_(Page!vars),
                      NEW o \in Pages
               PROVE  Buttons(o)'
    BY DEF ButtonInv
  <2>0. /\ page \in [Pages -> {Page!Never} \cup PageRow]
        /\ \A a \in action : a \in Page!Action /\ a.page \in Pages /\ a.sid \in SIDs
        /\ Buttons(o)
    BY PageTypes DEF Page!Action, ButtonInv
  <2>1. ASSUME page'[o] = page[o],
               \A a \in action : a.page = o =>
                   a \in action' \/ grant'[a.sid].pc = "gone" \/ page[o].left = 0
        PROVE  Buttons(o)'
    <3>1. CASE page[o].pc = "never"
      BY <2>1, <3>1 DEF Buttons
    <3>2. CASE page[o].pc # "never"
      BY <2>0, <2>1, <3>2, ButtonsKept DEF Buttons
    <3> QED BY <3>1, <3>2
  <2>2. CASE UNCHANGED <<page, action>>
    BY <2>1, <2>2
  <2>3. ASSUME NEW p \in Pages, NEW email \in Emails, Page!ListActiveGrants(p, email)
        PROVE  Buttons(o)'
    <3>1. CASE o # p
      BY <2>1, <2>3, <3>1 DEF Page!ListActiveGrants
    <3>2. CASE o = p
      <4> DEFINE active == {s \in SIDs : Owner[s] = email /\ Page!Active(s)}
      <4>1. \A s \in active : s \in SIDs /\ grant[s].pc # "never"
        BY DEF Page!Active, Page!Exists
      <4>2. page' = [page EXCEPT ![p] = [pc |-> "creating", email |-> email, sids |-> active,
                                         todo |-> active, left |-> ActionTTL, used |-> {}]]
        BY <2>3 DEF Page!ListActiveGrants
      <4>3. grant' = grant
        BY <2>3 DEF Page!ListActiveGrants
      <4> HIDE DEF active
      <4>4. page'[o].pc = "creating" /\ page'[o].sids = active /\ page'[o].todo = active
        BY <2>0, <3>2, <4>2
      <4> QED BY <4>1, <4>3, <4>4 DEF Buttons
    <3> QED BY <3>1, <3>2
  <2>4. ASSUME NEW p \in Pages, NEW sids \in SUBSET SIDs, Page!CreateGrantActions(p, sids)
        PROVE  Buttons(o)'
    <3>1. /\ page[p] \in PageRow /\ action \subseteq action' /\ grant' = grant
          /\ page[p].pc = "creating"
      BY <2>4, RowsTyped DEF Page!CreateGrantActions, Page!Batch
    <3>2. page' = [page EXCEPT ![p] = [page[p] EXCEPT !.todo = @ \ sids]]
      BY <2>4 DEF Page!CreateGrantActions
    <3>3. CASE o # p
      BY <2>0, <2>1, <3>1, <3>2, <3>3
    <3>4. CASE o = p
      <4>1. /\ page'[p].pc = "creating" /\ page'[p].sids = page[p].sids
            /\ page'[p].todo = page[p].todo \ sids
            /\ page'[p].used = page[p].used /\ page'[p].left = page[p].left
        BY <2>0, <3>1, <3>2 DEF PageRow
      <4>2. \A s \in sids : \E a \in action' : a.page = p /\ a.sid = s
        <5> SUFFICES ASSUME NEW s \in sids PROVE \E a \in action' : a.page = p /\ a.sid = s
          OBVIOUS
        <5> DEFINE a == [page |-> p, sid |-> s, email |-> page[p].email, left |-> page[p].left]
        <5>1. a \in action'
          BY <2>4 DEF Page!CreateGrantActions
        <5>2. a.page = p /\ a.sid = s
          OBVIOUS
        <5> QED BY <5>1, <5>2
      <4>3. ASSUME NEW s \in page[p].sids
            PROVE  /\ grant'[s].pc # "never"
                   /\ s \notin page'[p].todo \cup page'[p].used => Backed(p, s)'
        BY <2>0, <3>1, <3>4, <4>1, <4>2 DEF Buttons, Backed
      <4> QED BY <3>4, <4>1, <4>3 DEF Buttons
    <3> QED BY <3>3, <3>4
  <2>5. ASSUME NEW p \in Pages, NEW sids \in SUBSET SIDs, Page!CreateFails(p, sids) \/ Page!Render(p)
        PROVE  Buttons(o)'
    <3>1. /\ page[p] \in PageRow /\ action' = action
          /\ page[p].pc = "creating"
      BY <2>5, RowsTyped DEF Page!CreateFails, Page!Batch, Page!Render
    <3>2. \/ page' = [page EXCEPT ![p] = [page[p] EXCEPT !.pc = "failed"]]
          \/ page' = [page EXCEPT ![p] = [page[p] EXCEPT !.pc = "shown"]] /\ page[p].todo = {}
      BY <2>5 DEF Page!CreateFails, Page!Render
    <3>3. CASE o # p
      BY <2>0, <2>1, <3>1, <3>2, <3>3
    <3>4. CASE o = p
      <4>1. /\ page'[p].sids = page[p].sids /\ page'[p].todo = page[p].todo
            /\ page'[p].used = page[p].used /\ page'[p].left = page[p].left
            /\ page'[p].pc = "shown" => page[p].todo = {}
        BY <2>0, <3>1, <3>2 DEF PageRow
      <4> QED BY <2>0, <3>1, <3>4, <4>1, ButtonsKept
    <3> QED BY <3>3, <3>4
  <2>6. ASSUME NEW p \in Pages, NEW token \in SIDs, NEW s \in SIDs, NEW email \in Emails,
               Page!ConsumeGrantActionAndRevoke(p, token, email, s)
        PROVE  Buttons(o)'
    <3>1. /\ page[p] \in PageRow /\ page[p].pc = "shown"
          /\ \A a \in action : a \in action' \/ (a.page = p /\ a.sid = token)
      BY <2>6, RowsTyped DEF Page!ConsumeGrantActionAndRevoke
    <3>2. page' = [page EXCEPT ![p] = [page[p] EXCEPT !.used = @ \cup {token}]]
      BY <2>6 DEF Page!ConsumeGrantActionAndRevoke
    <3>3. CASE o # p
      BY <2>0, <2>1, <3>1, <3>2, <3>3
    <3>4. CASE o = p
      <4>1. /\ page'[p].sids = page[p].sids /\ page'[p].todo = page[p].todo
            /\ page'[p].used = page[p].used \cup {token} /\ page'[p].left = page[p].left
            /\ page'[p].pc = "shown"
        BY <2>0, <3>1, <3>2 DEF PageRow
      <4>2. ASSUME NEW t \in page[p].sids
            PROVE  /\ grant'[t].pc # "never"
                   /\ t \notin page'[p].todo \cup page'[p].used => Backed(p, t)'
        <5>1. t \in SIDs
          BY <3>1, PageSIDs
        <5>2. grant'[t].pc # "never" /\ (grant[t].pc = "gone" => grant'[t].pc = "gone")
          BY <2>0, <3>1, <3>4, <5>1, GrantsMove DEF Buttons
        <5> QED BY <2>0, <3>1, <3>4, <4>1, <5>2 DEF Buttons, Backed
      <4> QED BY <2>0, <3>1, <3>4, <4>1, <4>2 DEF Buttons
    <3> QED BY <3>3, <3>4
  <2>7. ASSUME NEW expired \in SUBSET {a \in action : a.left = 0}, Page!CleanActions(expired)
        PROVE  Buttons(o)'
    BY <2>1, <2>7 DEF Page!CleanActions, ActionInv
  <2>8. ASSUME NEW expired \in SUBSET {s \in SIDs : Page!Exists(s) /\ grant[s].absolute = 0},
               Page!CleanGrants(expired)
        PROVE  Buttons(o)'
    <3>1. \A a \in action : a \in action' \/ grant'[a.sid].pc = "gone"
      BY <2>8 DEF Page!CleanGrants, Page!Gone
    <3> QED BY <2>1, <2>8, <3>1 DEF Page!CleanGrants
  <2>9. CASE Page!Tick
    <3>1. CASE page[o].pc = "never"
      <4>1. page'[o] = Page!Never
        BY <2>0, <2>9, <3>1 DEF Page!Tick, PageRow
      <4> QED BY <4>1 DEF Buttons, Page!Never
    <3>2. CASE page[o].pc # "never"
      <4>1. page'[o] = [page[o] EXCEPT !.left = Page!Less(@)] /\ page[o] \in PageRow
        BY <2>9, <3>2, RowsTyped DEF Page!Tick, Page!Never
      <4>2. /\ page'[o].sids = page[o].sids /\ page'[o].todo = page[o].todo
            /\ page'[o].used = page[o].used /\ page'[o].pc = page[o].pc
            /\ page'[o].left = Page!Less(page[o].left)
        BY <4>1 DEF PageRow
      <4>3. page[o].left \in Nat
        BY <3>2, PageSIDs
      <4>4. page'[o].left > 0 => page[o].left > 0
        BY <4>2, <4>3 DEF Page!Less
      <4>5. \A a \in action : \E b \in action' : b.page = a.page /\ b.sid = a.sid
        <5> SUFFICES ASSUME NEW a \in action
                     PROVE  \E b \in action' : b.page = a.page /\ b.sid = a.sid
          OBVIOUS
        <5> DEFINE b == [a EXCEPT !.left = Page!Less(@)]
        <5>1. b \in action'
          BY <2>9 DEF Page!Tick
        <5>2. b.page = a.page /\ b.sid = a.sid
          BY <2>0 DEF Page!Action
        <5> QED BY <5>1, <5>2
      <4>6. ASSUME NEW t \in page[o].sids
            PROVE  /\ grant'[t].pc # "never"
                   /\ t \notin page[o].todo \cup page[o].used => Backed(o, t)'
        <5>1. t \in SIDs
          BY <3>2, PageSIDs
        <5>2. grant'[t].pc # "never" /\ (grant[t].pc = "gone" => grant'[t].pc = "gone")
          BY <2>0, <3>2, <5>1, GrantsMove DEF Buttons
        <5>3. ASSUME t \notin page[o].todo \cup page[o].used, page'[o].left > 0
              PROVE  grant'[t].pc = "gone" \/ \E b \in action' : b.page = o /\ b.sid = t
          <6>1. grant[t].pc = "gone" \/ \E a \in action : a.page = o /\ a.sid = t
            BY <2>0, <3>2, <4>4, <5>3 DEF Buttons, Backed
          <6> QED BY <4>5, <5>2, <6>1
        <5> QED BY <5>2, <5>3 DEF Backed
      <4> QED BY <2>0, <3>2, <4>2, <4>6 DEF Buttons
    <3> QED BY <3>1, <3>2
  <2>10. UNCHANGED <<page, action>>
         \/ Page!Tick
         \/ (\E p \in Pages :
              \/ \E email \in Emails : Page!ListActiveGrants(p, email)
              \/ \E sids \in SUBSET SIDs : Page!CreateGrantActions(p, sids) \/ Page!CreateFails(p, sids)
              \/ Page!Render(p)
              \/ \E token, s \in SIDs, email \in Emails :
                    Page!ConsumeGrantActionAndRevoke(p, token, email, s))
         \/ (\E expired \in SUBSET {a \in action : a.left = 0} : Page!CleanActions(expired))
         \/ (\E expired \in SUBSET {s \in SIDs : Page!Exists(s) /\ grant[s].absolute = 0} :
               Page!CleanGrants(expired))
    BY DEF Page!Next, Page!vars, Page!Create, Page!RevokeElsewhere, Page!Refresh
  <2> QED BY <2>2, <2>3, <2>4, <2>5, <2>6, <2>7, <2>8, <2>9, <2>10
<1> QED BY <1>1, <1>2, PageTypeCorrect, ActionInvariant, PTL DEF Page!Spec

\* Every button of a page that was shown works, once, until its time is over or its grant
\* is no longer active: storing the actions may stop half way, and cleanup deletes actions
\* and grants meanwhile (CreateGrantActions, cleanupExpiredAtContext).
THEOREM ShownActionsWorkHolds == Page!Spec => []ShownActionsWork
<1>1. Page!TypeOK /\ ActionInv /\ ButtonInv => ShownActionsWork
  <2> SUFFICES ASSUME Page!TypeOK, ActionInv, ButtonInv,
                      NEW p \in Pages, page[p].pc = "shown",
                      NEW s \in page[p].sids \ page[p].used,
                      page[p].left > 0, Page!Active(s)
               PROVE  Page!Matches(p, s, page[p].email, s)
    BY DEF ShownActionsWork, Page!ShownActionsWork
  <2>1. Backed(p, s) /\ grant[s].pc # "gone"
    BY DEF ButtonInv, Buttons, Page!Active, Page!Exists
  <2> QED BY <2>1 DEF Backed, ActionInv, Page!Matches
<1> QED BY <1>1, PageTypeCorrect, ActionInvariant, ButtonInvariant, PTL

================================================================================
