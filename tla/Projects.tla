------------------------------ MODULE Projects ------------------------------
(***************************************************************************)
(* The life of one project ID: the metadata record in the store            *)
(* (internal/store/sqlite/projects.go), the directory of its files         *)
(* (internal/project/local) and the HTTP requests that work on them        *)
(* (internal/server/projects.go, conversations.go), with the executions    *)
(* they start and stop.  Different IDs share no record, directory, lock or *)
(* conversation key, so one ID is modelled.                                *)
(*                                                                         *)
(* A request is one HTTP request and runs once.  A create request's        *)
(* identity is also the CreatorToken (rand.Text) of the project it makes,  *)
(* and the identity of a create or rename request is also the name it      *)
(* sets.  Every store call is one action: SQLite runs them one at a time.  *)
(* A store call may fail, and its write may then have been committed or    *)
(* not ("The update may have committed", manager.go).  File operations may *)
(* fail half done.  Either fails because the storage does or because its   *)
(* context is over: create, rename and start pass that of their request,   *)
(* which ends when the client disconnects or the server shuts down;        *)
(* rollback, deletion (behind its first read) and its report have one of   *)
(* their own, with a timeout.  The server may crash between any two steps; *)
(* the next server finds record, directory and surviving processes.        *)
(*                                                                         *)
(* Bounds: MaxStoreFaults failed store calls, MaxFileFaults failed file    *)
(* operations, MaxCrashes crashes.                                         *)
(***************************************************************************)
EXTENDS Naturals, FiniteSets

CONSTANTS Creates, Renames, Deletes, Starts,   \* the requests of each kind
          None,
          MaxStoreFaults, MaxFileFaults, MaxCrashes

Requests == Creates \cup Renames \cup Deletes \cup Starts

ASSUME RequestsDistinct ==
    /\ Creates \cap (Renames \cup Deletes \cup Starts) = {}
    /\ Renames \cap (Deletes \cup Starts) = {}
    /\ Deletes \cap Starts = {}
ASSUME NoneIsNoRequest == None \notin Requests

\* project.Project, with the token of its creation.
ProjectRecords ==
    [token : Creates, version : Nat,
     state : {"creating", "ready", "deleting", "delete_failed"},
     name : Creates \cup Renames]

ASSUME NoneIsNoProject == None \notin ProjectRecords
ASSUME BoundsAreNaturals ==
    /\ MaxStoreFaults \in Nat
    /\ MaxFileFaults \in Nat
    /\ MaxCrashes \in Nat

VARIABLES
    record,      \* the stored project, or None
    dir,         \* projects/<id>: who made it and what it contains
    lock,        \* the request that holds projectLock(id), or None
    pc,          \* pc[r]: where request r is
    snapshot,    \* snapshot[r]: the project r works from
    made,        \* made[c]: create request c made the directory (its cleanup)
    draft,       \* draft[r]: the project a client read before its rename r
    answer,      \* answer[r]: the response to r
    running,     \* tokens whose execution is launching or has a live harness
    known,       \* tokens the execution manager of this server has a state for
    unconfirmed, \* known tokens whose harness exit is unconfirmed
    failures     \* how many failures have happened, of each kind

storeVars  == <<record>>
fileVars   == <<dir, made>>
execVars   == <<running, known, unconfirmed>>
clientVars == <<draft>>
vars == <<storeVars, fileVars, execVars, clientVars, lock, pc, snapshot, answer,
          failures>>

Project(t, v, s, n) == [token |-> t, version |-> v, state |-> s, name |-> n]
Directory(o, k) == [owner |-> o, kind |-> k]

-----------------------------------------------------------------------------
(* Failures, answers and the project lock *)

StoreFault ==
    /\ failures.store < MaxStoreFaults
    /\ failures' = [failures EXCEPT !.store = @ + 1]
FileFault ==
    /\ failures.file < MaxFileFaults
    /\ failures' = [failures EXCEPT !.file = @ + 1]

Goto(r, place) == pc' = [pc EXCEPT ![r] = place] /\ UNCHANGED <<lock, answer>>

\* The handler responds; a deferred Unlock releases the lock if r holds it.
Respond(r, code) ==
    /\ pc' = [pc EXCEPT ![r] = "done"]
    /\ answer' = [answer EXCEPT ![r] = code]
    /\ lock' = IF lock = r THEN None ELSE lock

\* rename, delete and start run under projectLock(id); create does not.
AcquireLock_Split(r, from) ==
    /\ pc[r] = from
    /\ pc' = [pc EXCEPT ![r] = "get"]
    /\ UNCHANGED <<storeVars, fileVars, execVars, clientVars, lock, snapshot, answer,
                   failures>>
AcquireLock(r, from) ==
    /\ pc[r] = from
    /\ lock = None
    /\ lock' = r
    /\ pc' = [pc EXCEPT ![r] = "get"]
    /\ UNCHANGED <<storeVars, fileVars, execVars, clientVars, snapshot, answer,
                   failures>>

-----------------------------------------------------------------------------
(* The store: compare-and-swap on version, state and token *)

Matches(before) ==
    /\ record # None
    /\ record.version = before.version
    /\ record.state = before.state
    /\ record.token = before.token

Updated_SameVersion(before, state, name) ==
    Project(before.token, before.version, state, name)
Updated(before, state, name) ==
    Project(before.token, before.version + 1, state, name)

\* The write succeeds ("ok"), finds another record ("conflict") or fails with
\* the write committed or not ("error").
Write(result, matches, new) ==
    \/ result = "ok" /\ matches /\ record' = new /\ UNCHANGED failures
    \/ result = "conflict" /\ ~matches /\ UNCHANGED <<record, failures>>
    \/ /\ result = "error"
       /\ StoreFault
       /\ \/ UNCHANGED record
          \/ matches /\ record' = new

InsertProject(c, result) ==
    Write(result, record = None, Project(c, 1, "creating", c))
UpdateProject(before, state, name, result) ==
    Write(result, Matches(before), Updated(before, state, name))
DeleteProject(before, result) ==
    Write(result, Matches(before) /\ before.state \in {"creating", "deleting"}, None)

\* A read may fail, too.
GetProject(result) ==
    /\ UNCHANGED record
    /\ \/ result = "ok" /\ record # None /\ UNCHANGED failures
       \/ result = "notfound" /\ record = None /\ UNCHANGED failures
       \/ result = "error" /\ StoreFault

Results == {"ok", "conflict", "notfound", "error"}

-----------------------------------------------------------------------------
(* Create (manager.Create; the handler takes no lock) *)

\* Inserting first gives this attempt exclusive ownership of the ID.
CreateInsert(c) ==
    /\ pc[c] = "idle"
    /\ \E result \in Results :
          /\ InsertProject(c, result)
          /\ IF result = "ok"
             THEN /\ Goto(c, "mkdir")
                  /\ snapshot' = [snapshot EXCEPT ![c] = record']
             ELSE Respond(c, result) /\ UNCHANGED snapshot
    /\ UNCHANGED <<fileVars, execVars, clientVars>>

\* Mkdir refuses an existing directory, which stays as it is.
CreateDirectory(c) ==
    /\ pc[c] = "mkdir"
    /\ \/ /\ dir.kind = "absent"
          /\ dir' = Directory(c, "partial")
          /\ made' = [made EXCEPT ![c] = TRUE]
          /\ Goto(c, "init")
          /\ UNCHANGED failures
       \/ /\ dir.kind # "absent"
          /\ UNCHANGED <<dir, made, failures>>
          /\ Goto(c, "rollback")
       \/ FileFault /\ UNCHANGED <<dir, made>> /\ Goto(c, "rollback")
    /\ UNCHANGED <<storeVars, execVars, clientVars, snapshot>>

\* Mkdir repo and git init; a client that disconnects makes them fail as well.
CreateRepository(c) ==
    /\ pc[c] = "init"
    /\ \/ dir' = [dir EXCEPT !.kind = "repo"] /\ UNCHANGED failures /\ Goto(c, "finish")
       \/ FileFault /\ UNCHANGED dir /\ Goto(c, "rollback")
    /\ UNCHANGED <<storeVars, made, execVars, clientVars, snapshot>>

\* A failed update leaves files and metadata for manual cleanup.  It has the context
\* of the request, so that a disconnected client is enough to make it fail.
CreateFinish(c) ==
    /\ pc[c] = "finish"
    /\ \E result \in Results :
          /\ UpdateProject(snapshot[c], "ready", snapshot[c].name, result)
          /\ Respond(c, result)
    /\ UNCHANGED <<fileVars, execVars, clientVars, snapshot>>

\* What createProject answers once rollback has returned: its own error, unless
\* the directory was there before ("Project ID is taken or its directory already
\* exists") or rollback met a conflict.
RollbackAnswer(c, result) ==
    IF result = "conflict" \/ (~made[c] /\ dir.kind # "absent") THEN "conflict"
    ELSE IF result = "notfound" THEN "notfound"
    ELSE "error"

\* rollback re-reads the record and goes on only if it is still this attempt's.
RollbackCheck(c) ==
    /\ pc[c] = "rollback"
    /\ \E result \in Results :
          /\ GetProject(result)
          /\ IF result = "ok" /\ record = snapshot[c]
             THEN Goto(c, "cleanup")
             ELSE Respond(c, RollbackAnswer(c, IF result = "ok" THEN "conflict" ELSE result))
    /\ UNCHANGED <<fileVars, execVars, clientVars, snapshot>>

\* RemoveAll: everything is gone, or some of it is, then an error or a crash.
RemoveAll == dir' = Directory(None, "absent") /\ UNCHANGED failures
RemoveSome ==
    /\ FileFault
    /\ dir' \in {dir, [dir EXCEPT !.kind = IF @ = "repo" THEN "partial" ELSE @]}

\* cleanup removes only a directory this attempt made.
RollbackFiles_Always(c) ==
    /\ pc[c] = "cleanup"
    /\ \/ RemoveAll /\ Goto(c, "release")
       \/ RemoveSome /\ Respond(c, "error")
    /\ UNCHANGED <<storeVars, made, execVars, clientVars, snapshot>>
RollbackFiles(c) ==
    /\ pc[c] = "cleanup"
    /\ \/ ~made[c] /\ UNCHANGED <<dir, failures>> /\ Goto(c, "release")
       \/ made[c] /\ RemoveAll /\ Goto(c, "release")
       \/ made[c] /\ RemoveSome /\ Respond(c, "error")
    /\ UNCHANGED <<storeVars, made, execVars, clientVars, snapshot>>

\* Only now is the ID free again.
RollbackRecord(c) ==
    /\ pc[c] = "release"
    /\ \E result \in Results :
          /\ DeleteProject(snapshot[c], result)
          /\ Respond(c, RollbackAnswer(c, result))
    /\ UNCHANGED <<fileVars, execVars, clientVars, snapshot>>

CreateSteps(c) ==
    \/ CreateDirectory(c)
    \/ CreateRepository(c)
    \/ CreateFinish(c)
    \/ RollbackCheck(c)
    \/ RollbackFiles(c)
    \/ RollbackRecord(c)
-----------------------------------------------------------------------------
(* Rename (manager.Rename, under the project lock) *)

\* A client reads the project and keeps it as the draft it edits.  Only the
\* version travels with the rename; the token is never shown to clients.
ReadDraft(r) ==
    /\ pc[r] = "idle"
    /\ record # None
    /\ draft' = [draft EXCEPT ![r] = record]
    /\ pc' = [pc EXCEPT ![r] = "drafted"]
    /\ UNCHANGED <<storeVars, fileVars, execVars, lock, snapshot, answer, failures>>

Renameable_AnyVersion(r) == record.state \notin {"creating", "deleting"}
Renameable(r) ==
    /\ record.version = draft[r].version
    /\ record.state \notin {"creating", "deleting"}

\* (On a conflict the handler reads the project again, only to show it.)
RenameGet(r) ==
    /\ pc[r] = "get"
    /\ \E result \in Results :
          /\ GetProject(result)
          /\ IF result = "ok" /\ Renameable(r)
             THEN /\ Goto(r, "rename")
                  /\ snapshot' = [snapshot EXCEPT ![r] = record]
             ELSE /\ Respond(r, IF result = "ok" THEN "conflict" ELSE result)
                  /\ UNCHANGED snapshot
    /\ UNCHANGED <<fileVars, execVars, clientVars>>

RenameUpdate(r) ==
    /\ pc[r] = "rename"
    /\ \E result \in Results :
          /\ UpdateProject(snapshot[r], snapshot[r].state, r, result)
          /\ Respond(r, result)
    /\ UNCHANGED <<fileVars, execVars, clientVars, snapshot>>

RenameSteps(r) == RenameGet(r) \/ RenameUpdate(r)

-----------------------------------------------------------------------------
(* Delete (deleteProject and manager.Delete, under the project lock) *)

\* A project that is gone needs no deletion; one in transition is refused.
DeleteGet(d) ==
    /\ pc[d] = "get"
    /\ \E result \in Results :
          /\ GetProject(result)
          /\ \/ /\ result = "ok"
                /\ record.state \notin {"creating", "deleting"}
                /\ Goto(d, "stop")
                /\ snapshot' = [snapshot EXCEPT ![d] = record]
             \/ /\ result = "ok"
                /\ record.state \in {"creating", "deleting"}
                /\ Respond(d, "conflict")
                /\ UNCHANGED snapshot
             \/ /\ result # "ok"
                /\ Respond(d, IF result = "notfound" THEN "ok" ELSE result)
                /\ UNCHANGED snapshot
    /\ UNCHANGED <<fileVars, execVars, clientVars>>

\* executions.Stop returns nil for a conversation this server never started; a
\* nil for any other vouches that launch and harness are over.
DeleteStop_IgnoreError(d) ==
    /\ pc[d] = "stop"
    /\ IF snapshot[d].token \in unconfirmed
       THEN UNCHANGED running
       ELSE running' = IF snapshot[d].token \in known
                       THEN running \ {snapshot[d].token} ELSE running
    /\ Goto(d, "claim")
    /\ UNCHANGED <<storeVars, fileVars, known, unconfirmed, clientVars, snapshot,
                   failures>>
DeleteStop(d) ==
    /\ pc[d] = "stop"
    /\ LET t == snapshot[d].token
       IN  \/ t \notin known /\ Goto(d, "claim") /\ UNCHANGED execVars
           \/ /\ t \in known \ unconfirmed
              /\ running' = running \ {t}
              /\ Goto(d, "claim")
              /\ UNCHANGED <<known, unconfirmed>>
           \/ /\ t \in known
              /\ unconfirmed' = unconfirmed \cup {t}
              /\ Respond(d, "error")
              /\ UNCHANGED <<running, known>>
    /\ UNCHANGED <<storeVars, fileVars, clientVars, snapshot, failures>>

\* Only one caller can claim deleting.
DeleteClaim(d) ==
    /\ pc[d] = "claim"
    /\ \E result \in Results :
          /\ UpdateProject(snapshot[d], "deleting", snapshot[d].name, result)
          /\ IF result = "ok"
             THEN /\ Goto(d, "remove")
                  /\ snapshot' = [snapshot EXCEPT ![d] = record']
             ELSE Respond(d, result) /\ UNCHANGED snapshot
    /\ UNCHANGED <<fileVars, execVars, clientVars>>

\* Files go before the record.  The ten seconds may have passed in Stop.
DeleteFiles_IgnoreError(d) ==
    /\ pc[d] = "remove"
    /\ RemoveAll \/ RemoveSome
    /\ Goto(d, "release")
    /\ UNCHANGED <<storeVars, made, execVars, clientVars, snapshot>>
DeleteFiles(d) ==
    /\ pc[d] = "remove"
    /\ \/ RemoveAll /\ Goto(d, "release")
       \/ RemoveSome /\ Goto(d, "report")
       \/ UNCHANGED <<dir, failures>> /\ Goto(d, "report")
    /\ UNCHANGED <<storeVars, made, execVars, clientVars, snapshot>>

DeleteRecord(d) ==
    /\ pc[d] = "release"
    /\ \E result \in Results :
          /\ DeleteProject(snapshot[d], result)
          /\ IF result = "ok" THEN Respond(d, "ok") ELSE Goto(d, "report")
    /\ UNCHANGED <<fileVars, execVars, clientVars, snapshot>>

\* recordDeletionFailure: the response is an error whatever the update returns.
ReportFailure_AsReady(d) ==
    /\ pc[d] = "report"
    /\ \E result \in Results :
          /\ UpdateProject(snapshot[d], "ready", snapshot[d].name, result)
          /\ Respond(d, "error")
    /\ UNCHANGED <<fileVars, execVars, clientVars, snapshot>>
ReportFailure_Skipped(d) ==
    /\ pc[d] = "report"
    /\ Respond(d, "error")
    /\ UNCHANGED <<storeVars, fileVars, execVars, clientVars, snapshot, failures>>
ReportFailure(d) ==
    /\ pc[d] = "report"
    /\ \E result \in Results :
          /\ UpdateProject(snapshot[d], "delete_failed", snapshot[d].name, result)
          /\ Respond(d, "error")
    /\ UNCHANGED <<fileVars, execVars, clientVars, snapshot>>

DeleteSteps(d) ==
    \/ DeleteGet(d)
    \/ DeleteStop(d)
    \/ DeleteClaim(d)
    \/ DeleteFiles(d)
    \/ DeleteRecord(d)
    \/ ReportFailure(d)

-----------------------------------------------------------------------------
(* Start (startConversation, under the project lock) *)

StartGet(s) ==
    /\ pc[s] = "get"
    /\ \E result \in Results :
          /\ GetProject(result)
          /\ IF result = "ok" /\ record.state = "ready"
             THEN /\ Goto(s, "files")
                  /\ snapshot' = [snapshot EXCEPT ![s] = record]
             ELSE /\ Respond(s, IF result = "ok" THEN "conflict" ELSE result)
                  /\ UNCHANGED snapshot
    /\ UNCHANGED <<fileVars, execVars, clientVars>>

\* projectDirectory: a complete repository is found at the ID, or Lstat fails.
StartFiles(s) ==
    /\ pc[s] = "files"
    /\ \/ dir.kind = "repo" /\ Goto(s, "launch") /\ UNCHANGED failures
       \/ dir.kind # "repo" /\ Respond(s, "error") /\ UNCHANGED failures
       \/ FileFault /\ Respond(s, "error")
    /\ UNCHANGED <<storeVars, fileVars, execVars, clientVars, snapshot>>

\* executions.Start refuses after an unconfirmed exit; it returns the current
\* invocation or launches a new one.
StartLaunch(s) ==
    /\ pc[s] = "launch"
    /\ IF snapshot[s].token \in unconfirmed
       THEN Respond(s, "conflict") /\ UNCHANGED execVars
       ELSE /\ running' = running \cup {snapshot[s].token}
            /\ known' = known \cup {snapshot[s].token}
            /\ UNCHANGED unconfirmed
            /\ Respond(s, "ok")
    /\ UNCHANGED <<storeVars, fileVars, clientVars, snapshot, failures>>

StartSteps(s) == StartGet(s) \/ StartFiles(s) \/ StartLaunch(s)

-----------------------------------------------------------------------------
(* Executions and crashes *)

\* A launch fails or a harness exits.
ExecutionEnds(t) ==
    /\ t \in running
    /\ running' = running \ {t}
    /\ UNCHANGED <<storeVars, fileVars, known, unconfirmed, clientVars, lock, pc,
                   snapshot, answer, failures>>

\* The wrapper ends without a report; the harness may or may not live on.
ExitUnconfirmed(t) ==
    /\ t \in known \ unconfirmed
    /\ unconfirmed' = unconfirmed \cup {t}
    /\ UNCHANGED <<storeVars, fileVars, running, known, clientVars, lock, pc,
                   snapshot, answer, failures>>

InFlight(r) == pc[r] \notin {"idle", "drafted", "done"}

\* The server process dies.  Its requests, locks and executionManager go with
\* it; record, files, wrappers and browser drafts stay, a RemoveAll in progress
\* half done.
Crash ==
    /\ failures.crash < MaxCrashes
    /\ failures' = [failures EXCEPT !.crash = @ + 1]
    /\ pc' = [r \in Requests |-> IF InFlight(r) THEN "done" ELSE pc[r]]
    /\ lock' = None
    /\ known' = {}
    /\ unconfirmed' = {}
    /\ dir' \in {dir} \cup
           {[dir EXCEPT !.kind = "partial"] :
                r \in {q \in Requests : dir.kind = "repo" /\ pc[q] \in {"cleanup", "remove"}}}
    /\ UNCHANGED <<storeVars, made, running, clientVars, snapshot, answer>>

-----------------------------------------------------------------------------
\* The ID is unused; its directory may exist for another reason.
Init ==
    /\ record = None
    /\ dir \in {Directory(None, "absent"), Directory(None, "foreign")}
    /\ lock = None
    /\ pc = [r \in Requests |-> "idle"]
    /\ snapshot = [r \in Requests |-> None]
    /\ made = [c \in Creates |-> FALSE]
    /\ draft = [r \in Renames |-> None]
    /\ answer = [r \in Requests |-> "none"]
    /\ running = {}
    /\ known = {}
    /\ unconfirmed = {}
    /\ failures = [store |-> 0, file |-> 0, crash |-> 0]

\* What a request does once the server works on it.
Work(r) ==
    \/ r \in Creates /\ CreateSteps(r)
    \/ r \in Renames /\ RenameSteps(r)
    \/ r \in Deletes /\ DeleteSteps(r)
    \/ r \in Starts /\ StartSteps(r)

\* A request arrives, or gets the lock it waits for.
Arrive(r) ==
    \/ r \in Creates /\ CreateInsert(r)
    \/ r \in Renames /\ (ReadDraft(r) \/ AcquireLock(r, "drafted"))
    \/ r \in Deletes \cup Starts /\ AcquireLock(r, "idle")

Next ==
    \/ \E r \in Requests : Arrive(r) \/ Work(r)
    \/ \E t \in Creates : ExecutionEnds(t) \/ ExitUnconfirmed(t)
    \/ Crash

Spec == Init /\ [][Next]_vars

-----------------------------------------------------------------------------
(* Properties *)

Places == {"idle", "drafted", "done", "get", "mkdir", "init", "finish", "rollback",
           "cleanup", "release", "rename", "stop", "claim", "remove", "report",
           "files", "launch"}

\* Types, and in particular: whoever acts on a project has read one before.
TypeOK ==
    /\ record \in ProjectRecords \cup {None}
    /\ dir \in [owner : Creates \cup {None},
                kind : {"absent", "foreign", "partial", "repo"}]
    /\ lock \in Requests \cup {None}
    /\ pc \in [Requests -> Places]
    /\ snapshot \in [Requests -> ProjectRecords \cup {None}]
    /\ made \in [Creates -> BOOLEAN]
    /\ draft \in [Renames -> ProjectRecords \cup {None}]
    /\ answer \in [Requests -> Results \cup {"none"}]
    /\ running \subseteq Creates
    /\ unconfirmed \subseteq known
    /\ known \subseteq Creates
    /\ failures \in [{"store", "file", "crash"} -> Nat]
    /\ \A r \in Requests :
          InFlight(r) /\ pc[r] # "get" => snapshot[r] \in ProjectRecords

\* "Never present a partially removed project as ready" (manager.go): a ready
\* project has its own complete repository, whatever failed or crashed before.
ReadyHasRepository ==
    record # None =>
        (record.state = "ready" => dir = Directory(record.token, "repo"))

\* "Delete removes files before releasing the project ID", and so does rollback:
\* files of a generation never outlive its record, so no later generation of the
\* ID meets them.
FilesKeepTheirRecord ==
    dir.kind \in {"partial", "repo"} =>
        (record # None /\ record.token = dir.owner)

\* "Existing project directories are rejected", and cleanup "removes only
\* directories it created": what was there before is never touched.
ForeignFilesUntouched == [][dir.kind = "foreign" => dir' = dir]_vars

\* Every update counts: a copy with the stored token and version is the record.
VersionIdentifiesRecord ==
    \A r \in Requests :
        \A p \in {snapshot[r]} \cup (IF r \in Renames THEN {draft[r]} ELSE {}) :
            record # None /\ p # None =>
                (p.token = record.token /\ p.version = record.version => p = record)

\* Within one generation of the ID a rename replaces the very name its client
\* read: "another tab's changes cannot be silently overwritten".
Renaming(r) ==
    /\ record # None /\ record' # None
    /\ record'.token = record.token
    /\ record'.name = r /\ record.name # r
RenameReplacesWhatWasRead ==
    [][\A r \in Renames :
           Renaming(r) /\ draft[r].token = record.token => draft[r] = record]_vars

\* All of it together implements the lease on the ID: the handlers stop what uses
\* the files, and let nothing start again, before the files go.
Lease == INSTANCE ProjectLease
    WITH Tokens <- Creates, Nobody <- None,
         holder <- IF record = None THEN None ELSE record.token,
         offered <- IF record = None THEN FALSE ELSE record.state = "ready",
         files <- IF dir.kind \in {"partial", "repo"} THEN dir.kind ELSE "none",
         users <- running \cap known
ImplementsProjectLease == Lease!Spec

-----------------------------------------------------------------------------
(* What comments in the repository say, and the code does not keep *)

\* project-actions.js: the version of a draft is tied to the original read, so
\* that no other tab's change is overwritten.
RenameAppliesToDraft ==
    [][\A r \in Renames : Renaming(r) => draft[r] = record]_vars

\* manager.go, Delete: "The caller must stop processes using the project".  No
\* harness, not even one an earlier server started, loses its repository.
CallerStopsProcesses == \A t \in running : dir = Directory(t, "repo")
=============================================================================
