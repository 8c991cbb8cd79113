------------------------------- MODULE StatePath -------------------------------
(***************************************************************************)
(* Who may read the SQLite state: the directory and the database file as   *)
(* `truster serve` and `truster migrate` create and inspect them           *)
(* (src/internal/cmd/serve.go, src/internal/cmd/migrate.go, NewSQLite and  *)
(* prepareSQLitePath in src/internal/statedb/sqlite.go), by several        *)
(* processes in any interleaving, under the umask they run with.           *)
(*                                                                         *)
(* A path is absent, private (no permission for group or others) or open.  *)
(* The operator restores, changes and removes paths only while no command  *)
(* runs.                                                                   *)
(***************************************************************************)

CONSTANTS Processes

VARIABLES
    umask,       \* the permissions a new path loses: "shared" is 022, "strict" is 077
    directory,   \* the state database's directory
    file,        \* the database file
    process      \* each process: the command it runs and where it is in it

vars == <<umask, directory, file, process>>

Commands == {"serve", "migrate"}
Mode == {"private", "open"}
Idle == [command |-> "none", pc |-> "idle"]

TypeOK ==
    /\ umask \in {"shared", "strict"}
    /\ directory \in Mode \cup {"absent"} /\ file \in Mode \cup {"absent"}
    /\ directory = "absent" => file = "absent"
    /\ process \in [Processes -> {Idle} \cup
          [command : Commands,
           pc : {"makeDirectory", "inspectDirectory", "prepare", "createFile", "inspectFile",
                 "opened", "refused"}]]

Init ==
    /\ umask \in {"shared", "strict"}
    /\ directory \in Mode \cup {"absent"} /\ file \in Mode \cup {"absent"}
    /\ directory = "absent" => file = "absent"
    /\ process = [p \in Processes |-> Idle]

At(p, command, pc) == process[p].command = command /\ process[p].pc = pc
Goto(p, pc) == process' = [process EXCEPT ![p].pc = pc]

\* What a path created with these permissions is: the umask clears its bits.
Created(permissions) ==
    IF permissions \in {"0700", "0600"} \/ umask = "strict" THEN "private" ELSE "open"

\* os.MkdirAll leaves an existing directory as it is.
MkdirAll(permissions) ==
    directory' = IF directory = "absent" THEN Created(permissions) ELSE directory

\* A configured command starts; the migrate command returns here for PostgreSQL.
Start(p, command) ==
    /\ process[p] = Idle
    /\ process' = [process EXCEPT ![p] = [command |-> command, pc |-> "makeDirectory"]]
    /\ UNCHANGED <<umask, directory, file>>

ServeMakesDirectory(p) ==
    /\ At(p, "serve", "makeDirectory")
    /\ MkdirAll("0700")
    /\ Goto(p, "inspectDirectory")
    /\ UNCHANGED <<umask, file>>

\* The directory's permissions with which serve goes on.
DirectoryAccepted == directory = "private"

ServeInspectsDirectory(p) ==
    /\ At(p, "serve", "inspectDirectory")
    /\ Goto(p, IF DirectoryAccepted THEN "prepare" ELSE "refused")
    /\ UNCHANGED <<umask, directory, file>>

MigrateMakesDirectory(p) ==
    /\ At(p, "migrate", "makeDirectory")
    /\ MkdirAll("0755")
    /\ Goto(p, "prepare")
    /\ UNCHANGED <<umask, file>>

\* prepareSQLitePath: the directory again, its permissions not inspected.
PrepareDirectory(p) ==
    /\ process[p].pc = "prepare"
    /\ MkdirAll("0700")
    /\ Goto(p, "createFile")
    /\ UNCHANGED <<umask, file>>

\* O_CREATE|O_EXCL with 0600: of two processes one creates the file, the other inspects it.
CreateFile(p) ==
    /\ process[p].pc = "createFile"
    /\ \/ /\ file = "absent"
          /\ file' = Created("0600")
          /\ Goto(p, "opened")
       \/ /\ file # "absent"
          /\ Goto(p, "inspectFile")
          /\ UNCHANGED file
    /\ UNCHANGED <<umask, directory>>

\* The file's permissions with which NewSQLite goes on.
FileAccepted == file = "private"

InspectFile(p) ==
    /\ process[p].pc = "inspectFile"
    /\ Goto(p, IF FileAccepted THEN "opened" ELSE "refused")
    /\ UNCHANGED <<umask, directory, file>>

\* The command ends: migrate closes the store, serve stops, a refused command exits.
Exit(p) ==
    /\ process[p].pc \in {"opened", "refused"}
    /\ process' = [process EXCEPT ![p] = Idle]
    /\ UNCHANGED <<umask, directory, file>>

\* The operator restores a backup, changes permissions or removes the state.
Arrange(newDirectory, newFile) ==
    /\ \A p \in Processes : process[p] = Idle
    /\ newDirectory = "absent" => newFile = "absent"
    /\ directory' = newDirectory /\ file' = newFile
    /\ UNCHANGED <<umask, process>>

Next ==
    \/ \E p \in Processes, command \in Commands : Start(p, command)
    \/ \E p \in Processes :
          \/ ServeMakesDirectory(p) \/ ServeInspectsDirectory(p) \/ MigrateMakesDirectory(p)
          \/ PrepareDirectory(p) \/ CreateFile(p) \/ InspectFile(p) \/ Exit(p)
    \/ \E newDirectory, newFile \in Mode \cup {"absent"} : Arrange(newDirectory, newFile)

Spec == Init /\ [][Next]_vars

--------------------------------------------------------------------------------
(* Properties *)

\* While a server holds the state database open, neither its directory nor its file can be
\* read by anybody else, whichever commands ran before or run beside it, whatever they
\* created and in whichever order: serve and prepareSQLitePath refuse what they did not
\* create privately.
PrivateWhileServing ==
    \A p \in Processes :
        At(p, "serve", "opened") => directory = "private" /\ file = "private"

================================================================================
