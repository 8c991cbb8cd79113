------------------------------- MODULE MCOneTime -------------------------------
(* A small instance for TLC of what may be used once: DPoP proofs           *)
(* (ReplayCache), emailed codes (OTP) and the actions of the grants page    *)
(* (SelfService).  The three share nothing but the clock, so one of them    *)
(* moves in a behaviour and the others rest.                                *)
EXTENDS ReplayCache, TLC

CONSTANTS r1, r2, q1, q2, q3, c1, c2, s1, s2, s3, e1, e2, p1, p2,
          Challenges, None, MaxAttempts, Quota, Hour, Cooldown, TTL, MaxCodes,
          SIDs, Emails, Owner, Pages, IdleTTL, AbsoluteTTL, ActionTTL, BatchSize

\* The limits of the emailed codes are numbers, and no challenge is called None.
ASSUME CodesAssumption ==
    /\ None \notin Challenges
    /\ MaxAttempts \in Nat /\ Quota \in Nat
    /\ Hour \in Nat /\ Cooldown \in Nat /\ TTL \in Nat
    /\ MaxCodes \in Nat

\* The lifetimes of grants and actions are numbers, and every grant has an address.
ASSUME PageAssumption ==
    /\ IdleTTL \in Nat /\ AbsoluteTTL \in Nat /\ ActionTTL \in Nat
    /\ Owner \in [SIDs -> Emails]

VARIABLE part   \* the part that moves
VARIABLES challenge, sends, verifying, mailed, compared, redeemed
VARIABLES grant, action, page, revokedBy

Codes == INSTANCE OTP WITH req <- verifying
Page == INSTANCE SelfService

proofVars == <<iat, entries, expiries, req, accepted>>
codeVars == <<challenge, sends, verifying, mailed, compared, redeemed>>
pageVars == <<grant, action, page, revokedBy>>

\* Two grants of one address and one of another.
MCOwner == [s \in SIDs |-> IF s = s3 THEN e2 ELSE e1]

MCInit ==
    /\ Init /\ Codes!Init /\ Page!Init
    /\ part \in {"proofs", "codes", "page"}
    /\ part # "proofs" => iat = [p \in Proofs |-> 0]

MCNext ==
    /\ UNCHANGED part
    /\ \/ part = "proofs" /\ Next /\ UNCHANGED <<codeVars, pageVars>>
       \/ part = "codes" /\ Codes!Next /\ UNCHANGED <<proofVars, pageVars>>
       \/ part = "page" /\ Page!Next /\ UNCHANGED <<clock, proofVars, codeVars>>

MCSpec == MCInit /\ [][MCNext]_<<part, vars, codeVars, pageVars>>

\* No rolling hour sees more sends to an address than the quota (CreateOTP,
\* ResendOTP).
HourlyQuota == Codes!HourlyQuota

\* No code is compared with more guesses than the attempts of a challenge
\* (ConsumeOTP).
GuessesPerCode == Codes!GuessesPerCode

\* A code signs in once, and only the last one of its challenge does
\* (ConsumeOTP, ResendOTP).
SingleUse == Codes!SingleUse

\* A form of the grants page revokes only grants of the address that signed in
\* to that page (ConsumeGrantActionAndRevoke).
OwnGrantsOnly == Page!OwnGrantsOnly

\* Every button of a page that was shown works until its action expires or its
\* grant is gone (CreateGrantActions).
ShownActionsWork == Page!ShownActionsWork

\* Requests are interchangeable, and so are proofs, challenges, pages and the
\* grants of the first address.  One permutation serves the three parts: it
\* moves pages as it moves requests, and challenges and grants when it is an
\* odd permutation of the proofs.
Swaps(f, a, b) == f[a] = b
Odd(f) == Cardinality({q \in {q1, q2, q3} : f[q] = q}) = 1

Symmetry ==
    {f \in Permutations({r1, r2, p1, p2}) :
        {f[r1], f[r2]} = {r1, r2} /\ (f[r1] = r1 <=> f[p1] = p1)}
    \cup {f \in Permutations({q1, q2, q3, c1, c2, s1, s2}) :
        /\ {f[q1], f[q2], f[q3]} = {q1, q2, q3}
        /\ {f[c1], f[c2]} = {c1, c2} /\ {f[s1], f[s2]} = {s1, s2}
        /\ Swaps(f, c1, c2) <=> Odd(f)
        /\ Swaps(f, s1, s2) <=> Odd(f)}

================================================================================
