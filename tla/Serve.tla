--------------------------------- MODULE Serve ---------------------------------
(***************************************************************************)
(* One `truster serve` process: what it opens at startup and in which      *)
(* order (serve in src/internal/cmd/serve.go), the goroutine that reloads  *)
(* the serving certificate (src/internal/servertls/certificate.go), the    *)
(* state database's cleanup goroutine (Store.cleanupExpired), requests,    *)
(* and the shutdown with its grace period and its deferred closes.         *)
(*                                                                         *)
(* The certificate and key files are replaced one after the other by       *)
(* somebody else.  Certificates are numbered; KeyOf gives the number of    *)
(* the key a certificate belongs to, which a renewal may keep.  The main   *)
(* goroutine is at `pc`; `result` is what serve returned.                  *)
(***************************************************************************)
EXTENDS Integers

CONSTANTS
    Requests,       \* HTTP requests
    Certificates,   \* certificates in the order they are issued
    KeyOf,          \* the key of each certificate
    None

ASSUME ServeAssumption ==
    /\ Certificates \subseteq Nat /\ 1 \in Certificates
    /\ KeyOf \in [Certificates -> Nat]
    /\ None \notin Certificates

VARIABLES
    config,      \* which optional parts are configured
    pc,          \* where serve is
    result,      \* what serve will return
    signalled,   \* SIGINT or SIGTERM has arrived
    certFile, keyFile,   \* what the files hold
    served,      \* the certificate and key handed to TLS clients, or None
    reloader,    \* the reload goroutine
    policy,      \* the policy database's pool
    store,       \* the state database
    cleaner,     \* its cleanup goroutine
    listener,    \* the HTTP server's goroutine
    request      \* the HTTP requests

files == <<certFile, keyFile>>
tlsVars == <<certFile, keyFile, served, reloader>>
vars == <<config, pc, result, signalled, certFile, keyFile, served, reloader, policy,
          store, cleaner, listener, request>>

Off == [pc |-> "off"]

TypeOK ==
    /\ config \in [tls : BOOLEAN, policy : BOOLEAN]
    /\ pc \in {"certificate", "policy", "keys", "store", "select", "draining", "stopCleaner",
               "closeStore", "closePolicy", "exited"}
    /\ result \in {"none", "stopped", "error"}
    /\ signalled \in BOOLEAN
    /\ certFile \in Certificates /\ keyFile \in {KeyOf[c] : c \in Certificates}
    /\ served = None \/ served \in [cert : Certificates, key : {KeyOf[c] : c \in Certificates}]
    /\ reloader \in {Off, [pc |-> "waiting"]}
                    \cup [pc : {"reading"}, cert : Certificates]
    /\ policy \in {"closed", "open"} /\ store \in {"closed", "open"}
    /\ cleaner \in {"off", "waiting", "deleting", "cancelled"}
    /\ listener \in {"off", "starting", "open", "closed", "failed"}
    /\ request \in [Requests -> {"none", "busy", "storing", "asking", "done", "cut"}]

Init ==
    /\ config \in [tls : BOOLEAN, policy : BOOLEAN]
    /\ pc = "certificate" /\ result = "none" /\ signalled = FALSE
    /\ certFile = 1 /\ keyFile = KeyOf[1]
    /\ served = None /\ reloader = Off
    /\ policy = "closed" /\ store = "closed" /\ cleaner = "off" /\ listener = "off"
    /\ request = [r \in Requests |-> "none"]

--------------------------------------------------------------------------------
\* serve returns: the deferred calls run in the reverse order of what was
\* opened, and the cancelled context ends the reload goroutine.
Return(how) ==
    /\ pc' = IF store = "open" THEN "stopCleaner" ELSE "closePolicy"
    /\ result' = how

\* A startup step fails: a file, a secret or a database is missing or invalid,
\* or a signal has cancelled the step.
StartupFails ==
    /\ pc \in {"certificate", "policy", "keys", "store"}
    /\ Return("error")
    /\ UNCHANGED <<config, signalled, tlsVars, policy, store, cleaner, listener, request>>

\* servertls.Load: the pair must be valid, then the goroutine is started.
LoadCertificate ==
    /\ pc = "certificate"
    /\ pc' = "policy"
    /\ \/ /\ config.tls /\ keyFile = KeyOf[certFile]
          /\ served' = [cert |-> certFile, key |-> keyFile]
          /\ reloader' = [pc |-> "waiting"]
       \/ ~config.tls /\ UNCHANGED <<served, reloader>>
    /\ UNCHANGED <<config, result, signalled, files, policy, store, cleaner, listener, request>>

\* The policy database is opened if it is configured; NewPostgreSQL closes the
\* pool it cannot validate.
OpenPolicy ==
    /\ pc = "policy"
    /\ pc' = "keys"
    /\ policy' = IF config.policy THEN "open" ELSE "closed"
    /\ UNCHANGED <<config, result, signalled, tlsVars, store, cleaner, listener, request>>

\* Signing key, connectors, encryption key, mail and bot protection.
LoadKeys ==
    /\ pc = "keys"
    /\ pc' = "store"
    /\ UNCHANGED <<config, result, signalled, tlsVars, policy, store, cleaner, listener, request>>

\* The state database is opened, its cleanup and the HTTP server are started.
OpenStore ==
    /\ pc = "store"
    /\ pc' = "select"
    /\ store' = "open" /\ cleaner' = "waiting" /\ listener' = "starting"
    /\ UNCHANGED <<config, result, signalled, tlsVars, policy, request>>

\* The server goroutine: ListenAndServe opens its listener unless Shutdown has
\* already been called, and may fail at any time.
Listen ==
    /\ listener = "starting"
    /\ listener' = IF pc = "select" THEN "open" ELSE "closed"
    /\ UNCHANGED <<config, pc, result, signalled, tlsVars, policy, store, cleaner, request>>

ListenFails ==
    /\ listener \in {"starting", "open"} /\ pc = "select"
    /\ listener' = "failed"
    /\ UNCHANGED <<config, pc, result, signalled, tlsVars, policy, store, cleaner, request>>

Signal ==
    /\ ~signalled /\ pc # "exited"
    /\ signalled' = TRUE
    /\ UNCHANGED <<config, pc, result, tlsVars, policy, store, cleaner, listener, request>>

\* The select in serve: the server failed, or a signal arrived and Shutdown
\* closes the listener.
ServerError ==
    /\ pc = "select" /\ listener = "failed"
    /\ Return("error")
    /\ UNCHANGED <<config, signalled, tlsVars, policy, store, cleaner, listener, request>>

Shutdown ==
    /\ pc = "select" /\ signalled
    /\ pc' = "draining"
    /\ listener' = IF listener = "open" THEN "closed" ELSE listener
    /\ UNCHANGED <<config, result, signalled, tlsVars, policy, store, cleaner, request>>

Active(r) == request[r] \in {"busy", "storing", "asking"}

\* Shutdown returns without an error only when no request is left.
Drained == \A r \in Requests : ~Active(r)

\* Mutant: Shutdown is given no deadline.
OutOfTimeNever == FALSE

\* The ten seconds are over and a request is not.
OutOfTime == \E r \in Requests : Active(r)

\* Shutdown has waited for the requests, or for its ten seconds.
FinishShutdown ==
    /\ pc = "draining" /\ Drained
    /\ Return("stopped")
    /\ UNCHANGED <<config, signalled, tlsVars, policy, store, cleaner, listener, request>>

GraceElapses ==
    /\ pc = "draining" /\ OutOfTime
    /\ Return("error")
    /\ UNCHANGED <<config, signalled, tlsVars, policy, store, cleaner, listener, request>>

\* Mutant: the context is cancelled, the goroutine's end is not waited for.
CleanerEndedAssumed == TRUE

\* The goroutine notices its cancellation between two batches.
CleanerEnded == cleaner = "waiting"

\* Store.Close cancels the cleanup goroutine and waits for its end.
StopCleaner ==
    /\ pc = "stopCleaner" /\ CleanerEnded
    /\ cleaner' = IF cleaner = "waiting" THEN "cancelled" ELSE cleaner
    /\ pc' = "closeStore"
    /\ UNCHANGED <<config, result, signalled, tlsVars, policy, store, listener, request>>

CloseStore ==
    /\ pc = "closeStore"
    /\ store' = "closed"
    /\ pc' = "closePolicy"
    /\ UNCHANGED <<config, result, signalled, tlsVars, policy, cleaner, listener, request>>

\* The pool waits for the connections in use (external: pgxpool). Then the
\* process ends, and with it every goroutine.
ClosePolicy ==
    /\ pc = "closePolicy" /\ \A r \in Requests : request[r] # "asking"
    /\ policy' = "closed"
    /\ pc' = "exited"
    /\ reloader' = Off
    /\ request' = [r \in Requests |-> IF Active(r) THEN "cut" ELSE request[r]]
    /\ UNCHANGED <<config, result, signalled, files, served, store, cleaner, listener>>

--------------------------------------------------------------------------------
\* A tick: LoadX509KeyPair reads the certificate, then the key. The goroutine
\* ends when the context is cancelled.
ReloadTick ==
    /\ reloader.pc = "waiting" /\ pc # "exited"
    /\ reloader' = [pc |-> "reading", cert |-> certFile]
    /\ UNCHANGED <<config, pc, result, signalled, files, served, policy, store, cleaner,
                   listener, request>>

\* Mutant: certificates are told apart by their keys.
ReplacesNewKey(cert, key) == key = KeyOf[cert] /\ key # served.key

\* The files held a valid pair that is not the one being served.
Replaces(cert, key) == key = KeyOf[cert] /\ cert # served.cert

ReloadRead ==
    /\ reloader.pc = "reading"
    /\ served' = IF Replaces(reloader.cert, keyFile)
                 THEN [cert |-> reloader.cert, key |-> keyFile] ELSE served
    /\ reloader' = [pc |-> "waiting"]
    /\ UNCHANGED <<config, pc, result, signalled, files, policy, store, cleaner, listener,
                   request>>

ReloadEnds ==
    /\ reloader.pc = "waiting" /\ signalled
    /\ reloader' = Off
    /\ UNCHANGED <<config, pc, result, signalled, files, served, policy, store, cleaner,
                   listener, request>>

\* External: the certificate is renewed, in two files and in either order.
RotateCertificate ==
    /\ certFile + 1 \in Certificates
    /\ certFile' = certFile + 1
    /\ UNCHANGED <<config, pc, result, signalled, keyFile, served, reloader, policy, store,
                   cleaner, listener, request>>

RotateKey ==
    /\ keyFile' \in {KeyOf[c] : c \in Certificates} /\ keyFile' = keyFile + 1
    /\ UNCHANGED <<config, pc, result, signalled, certFile, served, reloader, policy, store,
                   cleaner, listener, request>>

--------------------------------------------------------------------------------
\* The cleanup goroutine deletes a batch and waits for its next tick.
CleanupBegins ==
    /\ cleaner = "waiting" /\ pc # "exited"
    /\ cleaner' = "deleting"
    /\ UNCHANGED <<config, pc, result, signalled, tlsVars, policy, store, listener, request>>

CleanupEnds ==
    /\ cleaner = "deleting"
    /\ cleaner' = "waiting"
    /\ UNCHANGED <<config, pc, result, signalled, tlsVars, policy, store, listener, request>>

Moved(r, to) ==
    /\ request' = [request EXCEPT ![r] = to]
    /\ UNCHANGED <<config, pc, result, signalled, tlsVars, policy, store, cleaner, listener>>

\* A request arrives, uses the databases any number of times, and is answered.
\* A database that is closed refuses it.
Arrive(r) == request[r] = "none" /\ listener = "open" /\ Moved(r, "busy")
UseStore(r) ==
    /\ request[r] = "busy" /\ pc # "exited"
    /\ Moved(r, IF store = "open" THEN "storing" ELSE "cut")
UsePolicy(r) ==
    /\ request[r] = "busy" /\ config.policy /\ pc # "exited"
    /\ Moved(r, IF policy = "open" /\ pc # "closePolicy" THEN "asking" ELSE "cut")
QueryEnds(r) == request[r] \in {"storing", "asking"} /\ Moved(r, "busy")
Answer(r) == request[r] = "busy" /\ Moved(r, "done")

Halted == pc = "exited" /\ UNCHANGED vars

Main ==
    \/ LoadCertificate \/ OpenPolicy \/ LoadKeys \/ OpenStore
    \/ ServerError \/ Shutdown \/ FinishShutdown \/ GraceElapses
    \/ StopCleaner \/ CloseStore \/ ClosePolicy

Next ==
    \/ Main \/ StartupFails
    \/ Listen \/ ListenFails \/ Signal
    \/ ReloadTick \/ ReloadRead \/ ReloadEnds \/ RotateCertificate \/ RotateKey
    \/ CleanupBegins \/ CleanupEnds
    \/ \E r \in Requests : \/ Arrive(r) \/ UseStore(r) \/ UsePolicy(r) \/ QueryEnds(r)
                           \/ Answer(r)
    \/ Halted

Spec == Init /\ [][Next]_vars

\* The main goroutine goes on when it can: startup steps, the ten seconds of
\* Shutdown and the closes all end. So do statements of the databases and
\* batches of the cleanup, which the drivers bound; the cleanup goroutine
\* notices its cancellation between batches. The reload timer ticks. A handler
\* need not end: an upstream may never answer it.
Fairness ==
    /\ WF_vars(LoadCertificate \/ OpenPolicy \/ LoadKeys \/ OpenStore \/ StartupFails)
    /\ WF_vars(ServerError \/ Shutdown) /\ WF_vars(FinishShutdown \/ GraceElapses)
    /\ SF_vars(StopCleaner) /\ WF_vars(CloseStore) /\ WF_vars(ClosePolicy)
    /\ WF_vars(CleanupEnds) /\ \A r \in Requests : WF_vars(QueryEnds(r))
    /\ WF_vars(ReloadTick) /\ WF_vars(ReloadRead)

FairSpec == Spec /\ Fairness

--------------------------------------------------------------------------------
\* The cleanup never works on a closed database: Close waits for it.
CleanupFindsStore == cleaner = "deleting" => store = "open"

\* A pair that stays in the files is served eventually, unless the process is
\* told to stop or ends (reload).
RotationServed ==
    \A c \in Certificates :
        LET InFiles == certFile = c /\ keyFile = KeyOf[c]
        IN served # None /\ InFiles
               ~> \/ served # None /\ served.cert = c
                  \/ ~InFiles \/ signalled \/ pc = "exited"

\* A signal ends the process, whatever the requests do: a handler that hangs
\* outside the databases is not waited for (Shutdown's deadline and the closes).
SignalEnds == signalled ~> pc = "exited"

================================================================================
