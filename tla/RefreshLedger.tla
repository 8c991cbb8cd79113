----------------------------- MODULE RefreshLedger -----------------------------
(***************************************************************************)
(* What a refresh-token family promises, without requests, claims, time or *)
(* transactions.                                                           *)
(*                                                                         *)
(* A family has at most one current token.  It keeps a credential of the   *)
(* upstream provider, which the provider may replace only while the family *)
(* has declared itself to be rotating, or when the family has ended.  A    *)
(* family leaves the rotating phase for the live one only with the         *)
(* provider's credential in hand.                                          *)
(***************************************************************************)
EXTENDS Integers

CONSTANTS Tokens

VARIABLES
    phase,      \* "none", "live", "rotating", "ended" or "purged"
    current,    \* the set of tokens that can be exchanged: empty or one token
    spent,      \* the tokens that were exchanged
    stored,     \* generation of the upstream credential the family keeps
    upstream    \* generation of the credential the provider accepts

ledgerVars == <<phase, current, spent, stored, upstream>>

Open == phase \in {"live", "rotating"}

Init ==
    /\ phase = "none"
    /\ current = {} /\ spent = {}
    /\ stored = 0 /\ upstream = 0

\* The first token is issued.
Start ==
    /\ phase = "none"
    /\ phase' = "live"
    /\ \E t \in Tokens : current' = {t}
    /\ UNCHANGED <<spent, stored, upstream>>

\* The family declares that its upstream credential may be replaced.
Declare ==
    /\ phase = "live"
    /\ phase' = "rotating"
    /\ UNCHANGED <<current, spent, stored, upstream>>

\* The provider replaces the credential.
Replace ==
    /\ phase \in {"rotating", "ended", "purged"}
    /\ upstream' = upstream + 1
    /\ UNCHANGED <<phase, current, spent, stored>>

\* The current token is exchanged for a new one that never was used before,
\* and the provider's credential is kept.
Exchange ==
    /\ Open
    /\ \E t \in Tokens \ (current \cup spent) : current' = {t}
    /\ spent' = spent \cup current
    /\ stored' = upstream
    /\ phase' = "live"
    /\ UNCHANGED upstream

\* The provider is known not to have replaced the credential.
Withdraw ==
    /\ phase = "rotating"
    /\ stored = upstream
    /\ phase' = "live"
    /\ UNCHANGED <<current, spent, stored, upstream>>

\* The family ends, for whatever reason, and stays ended.
End ==
    /\ Open
    /\ phase' = "ended"
    /\ UNCHANGED <<current, spent, stored, upstream>>

\* The rows are removed.
Purge ==
    /\ Open \/ phase = "ended"
    /\ phase' = "purged"
    /\ current' = {} /\ spent' = {} /\ stored' = 0
    /\ UNCHANGED upstream

Next == Start \/ Declare \/ Replace \/ Exchange \/ Withdraw \/ End \/ Purge

Spec == Init /\ [][Next]_ledgerVars

=============================================================================
