---------------------------------- MODULE OTP ----------------------------------
(***************************************************************************)
(* Email one-time codes: the otp_challenges and otp_sends rows of one      *)
(* address (src/internal/statedb/otp.go) and the browser requests that     *)
(* start, resend and verify them.                                          *)
(*                                                                         *)
(* Each store method is one transaction under the write lock, the row lock *)
(* or the address's advisory lock, hence one step.  The verification       *)
(* handler reads the clock once, looks the challenge up and consumes it in *)
(* a second transaction, so other requests may come in between.  The start *)
(* and resend handlers read the clock right before their one transaction;  *)
(* that moment is nothing beside the hour and the minute it is compared    *)
(* with, and reading and transaction are one step.                         *)
(*                                                                         *)
(* Codes are numbered in the order they are generated; 0 is a code that    *)
(* never was generated.                                                    *)
(***************************************************************************)
EXTENDS Integers, FiniteSets

CONSTANTS
    Requests,     \* concurrent verification requests
    Challenges,   \* the challenge identifiers that can be generated
    None,         \* no challenge
    MaxAttempts,  \* wrong codes a challenge takes: 5 in the code
    Quota,        \* sends to an address in an hour: 5
    Hour,         \* the rolling window of the quota
    Cooldown,     \* least time between two sends of a challenge: 1 min
    TTL,          \* lifetime of a code (email.otp_ttl)
    MaxTime,      \* bound on the clock
    MaxCodes      \* bound on the codes generated

VARIABLES
    clock,
    challenge,  \* the otp_challenges rows
    sends,      \* the otp_sends rows, told apart by the code that was sent
    req,        \* the verification requests between lookup and consumption
    mailed,     \* history: every send ever made
    compared,   \* history: how often a code was compared with a guess
    redeemed    \* history: the codes that completed a sign-in

vars == <<clock, challenge, sends, req, mailed, compared, redeemed>>

Send == [code : Nat, at : Nat, to : Challenges]

Row == [exists : BOOLEAN, code : Nat, attempts : Nat, sent : Nat, exp : Nat]

NoRow == [exists |-> FALSE, code |-> 0, attempts |-> 0, sent |-> 0, exp |-> 0]

Request == [challenge : Challenges \cup {None}, code : Nat, now : Nat]

Idle == [challenge |-> None, code |-> 0, now |-> 0]

Init ==
    /\ clock = 0
    /\ challenge = [c \in Challenges |-> NoRow]
    /\ sends = {}
    /\ req = [r \in Requests |-> Idle]
    /\ mailed = {}
    /\ compared = [n \in 1..MaxCodes |-> 0]
    /\ redeemed = {}

\* The code that is generated next.
NewCode == Cardinality(mailed) + 1

\* SELECT count(*) ... WHERE sent_at > now - 1 h.
BelowQuota == Cardinality({s \in sends : s.at > clock - Hour}) < Quota

\* The code is stored in the challenge's row, recorded in otp_sends and mailed.
Issue(c) ==
    LET send == [code |-> NewCode, at |-> clock, to |-> c]
    IN  /\ NewCode <= MaxCodes
        /\ challenge' = [challenge EXCEPT ![c] =
               [exists |-> TRUE, code |-> NewCode, attempts |-> 0,
                sent |-> clock, exp |-> clock + TTL]]
        /\ sends' = sends \cup {send}
        /\ mailed' = mailed \cup {send}

\* beginOTP with a fresh identifier.
CreateOTP(c) ==
    /\ ~challenge[c].exists /\ \A s \in mailed : s.to # c
    /\ BelowQuota
    /\ Issue(c)
    /\ UNCHANGED <<clock, req, compared, redeemed>>

\* Mutant: resends are held back by the cooldown only.
ResendOTPUncounted(c) ==
    /\ challenge[c].exists
    /\ clock < challenge[c].exp
    /\ challenge[c].sent + Cooldown <= clock
    /\ Issue(c)
    /\ UNCHANGED <<clock, req, compared, redeemed>>

\* HandleEmailResend. The number of attempts is not looked at.
ResendOTP(c) ==
    /\ challenge[c].exists
    /\ clock < challenge[c].exp
    /\ challenge[c].sent + Cooldown <= clock
    /\ BelowQuota
    /\ Issue(c)
    /\ UNCHANGED <<clock, req, compared, redeemed>>

\* HandleEmailVerify reads the clock and finds the challenge active.
Lookup(r, c, code) ==
    /\ req[r] = Idle
    /\ challenge[c].exists
    /\ clock < challenge[c].exp /\ challenge[c].attempts < MaxAttempts
    /\ req' = [req EXCEPT ![r] = [challenge |-> c, code |-> code, now |-> clock]]
    /\ UNCHANGED <<clock, challenge, sends, mailed, compared, redeemed>>

\* Mutant: the attempts that OTPFlow found are not counted again.
ComparableAfterLookup(row, now) == row.exists /\ now < row.exp

\* The conditions under which ConsumeOTP compares the code at all.
Comparable(row, now) == row.exists /\ now < row.exp /\ row.attempts < MaxAttempts

\* The history of a comparison with the stored code.
Compare(n) == compared' = [compared EXCEPT ![n] = @ + 1]

\* Mutant: the row of a redeemed code is left to the cleanup.
RedeemKeepingRow(r) ==
    LET q == req[r]
    IN  /\ q # Idle
        /\ Comparable(challenge[q.challenge], q.now)
        /\ challenge[q.challenge].code = q.code
        /\ redeemed' = redeemed \cup {[code |-> q.code, by |-> r, at |-> q.now]}
        /\ Compare(q.code)
        /\ req' = [req EXCEPT ![r] = Idle]
        /\ UNCHANGED <<clock, challenge, sends, mailed>>

\* ConsumeOTP: the right code deletes the row, a wrong one is counted, and a
\* dead challenge is left as it is.
Redeem(r) ==
    LET q == req[r]
    IN  /\ q # Idle
        /\ Comparable(challenge[q.challenge], q.now)
        /\ challenge[q.challenge].code = q.code
        /\ challenge' = [challenge EXCEPT ![q.challenge] = NoRow]
        /\ redeemed' = redeemed \cup {[code |-> q.code, by |-> r, at |-> q.now]}
        /\ Compare(q.code)
        /\ req' = [req EXCEPT ![r] = Idle]
        /\ UNCHANGED <<clock, sends, mailed>>

CountWrong(r) ==
    LET q == req[r]
    IN  /\ q # Idle
        /\ Comparable(challenge[q.challenge], q.now)
        /\ challenge[q.challenge].code # q.code
        /\ challenge' = [challenge EXCEPT ![q.challenge].attempts = @ + 1]
        /\ Compare(challenge[q.challenge].code)
        /\ req' = [req EXCEPT ![r] = Idle]
        /\ UNCHANGED <<clock, sends, mailed, redeemed>>

Refuse(r) ==
    /\ req[r] # Idle
    /\ ~Comparable(challenge[req[r].challenge], req[r].now)
    /\ req' = [req EXCEPT ![r] = Idle]
    /\ UNCHANGED <<clock, challenge, sends, mailed, compared, redeemed>>

\* A storage error or a crash before the second transaction.
Abandon(r) ==
    /\ req[r] # Idle
    /\ req' = [req EXCEPT ![r] = Idle]
    /\ UNCHANGED <<clock, challenge, sends, mailed, compared, redeemed>>

\* The two statements of the background cleanup that concern these rows.
CleanupChallenges ==
    /\ \E c \in Challenges : challenge[c].exists /\ challenge[c].exp < clock
    /\ challenge' = [c \in Challenges |->
           IF challenge[c].exp < clock THEN NoRow ELSE challenge[c]]
    /\ UNCHANGED <<clock, sends, req, mailed, compared, redeemed>>

CleanupSends ==
    /\ \E s \in sends : s.at < clock - Hour
    /\ sends' = {s \in sends : s.at >= clock - Hour}
    /\ UNCHANGED <<clock, challenge, req, mailed, compared, redeemed>>

Tick ==
    /\ clock < MaxTime
    /\ clock' = clock + 1
    /\ UNCHANGED <<challenge, sends, req, mailed, compared, redeemed>>

Next ==
    \/ \E c \in Challenges : CreateOTP(c) \/ ResendOTP(c)
    \/ \E r \in Requests, c \in Challenges, code \in 0..MaxCodes :
          code < NewCode /\ Lookup(r, c, code)
    \/ \E r \in Requests : Redeem(r) \/ CountWrong(r) \/ Refuse(r) \/ Abandon(r)
    \/ CleanupChallenges \/ CleanupSends
    \/ Tick

Spec == Init /\ [][Next]_vars

-----------------------------------------------------------------------------
(* Properties.                                                              *)

\* Rows, requests and histories keep their types.
TypeOK ==
    /\ clock \in Nat
    /\ challenge \in [Challenges -> Row]
    /\ sends \subseteq Send
    /\ req \in [Requests -> Request]
    /\ mailed \subseteq Send
    /\ compared \in [1..MaxCodes -> Nat]
    /\ redeemed \subseteq [code : Nat, by : Requests, at : Nat]

\* In no rolling hour is an address sent more codes than its quota, counting
\* new challenges and resends together, and whatever the cleanup removed.
HourlyQuota ==
    \A t \in 0..clock :
        Cardinality({s \in mailed : t - Hour < s.at /\ s.at <= t}) <= Quota

\* A code that was mailed is compared with at most MaxAttempts guesses, also
\* when requests that looked the challenge up at the same time race.
GuessesPerCode ==
    \A n \in 1..MaxCodes : compared[n] <= MaxAttempts

\* A code signs in at most once. Of the codes of one challenge only the last
\* one mailed does, to a request that came before the code ended.
SingleUse ==
    \A d \in redeemed :
        /\ \A e \in redeemed : e.code = d.code => e = d
        /\ \E s \in mailed :
              /\ s.code = d.code
              /\ d.at < s.at + TTL
              /\ \A u \in mailed : u.to = s.to => u.code <= s.code

\* docs/config.md: a challenge allows five attempts; otp.go: a resend revives no
\* dead, attempt-limited, challenge. Once the attempts of a challenge are used
\* up its row never takes another one.
LockedForGood ==
    [][\A c \in Challenges :
          challenge[c].exists /\ challenge[c].attempts >= MaxAttempts /\ challenge'[c].exists =>
              challenge'[c].attempts >= MaxAttempts]_vars

=============================================================================
