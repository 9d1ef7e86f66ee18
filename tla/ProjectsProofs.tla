--------------------------- MODULE ProjectsProofs ---------------------------
(***************************************************************************)
(* Proofs about Projects, for any number of requests and any bound on the  *)
(* failures.  Mutual exclusion has two sources: rename, delete and start   *)
(* hold the project lock; a create and the claimant of a deletion own the  *)
(* record by its state, which every other request refuses.  IInv says what *)
(* each of them knows of record, files and executions at each place.       *)
(***************************************************************************)
EXTENDS Projects, TLAPS

\* The states a record is in.
States == {"creating", "ready", "deleting", "delete_failed"}

\* Where a create owns the record it has inserted.
Building == {"mkdir", "init", "finish", "rollback", "cleanup", "release"}

\* The places of each handler, and the lock it holds there.
Ordered ==
    /\ \A c \in Creates : pc[c] \in {"idle", "done"} \cup Building
    /\ \A r \in Renames : pc[r] \in {"idle", "drafted", "done", "get", "rename"}
    /\ \A d \in Deletes :
          pc[d] \in {"idle", "done", "get", "stop", "claim", "remove", "release", "report"}
    /\ \A s \in Starts : pc[s] \in {"idle", "done", "get", "files", "launch"}
    /\ \A r \in Requests \ Creates : InFlight(r) => lock = r

\* A copy of a project is the record, or older, or of another generation; a
\* generation that has not been created has no copies.
Copy(p) ==
    p # None =>
        /\ pc[p.token] # "idle"
        /\ record # None /\ p.token = record.token =>
               p.version < record.version \/ p = record
Copies ==
    /\ Copy(record)
    /\ \A r \in Requests : Copy(snapshot[r])
    /\ \A r \in Renames : Copy(draft[r])

\* A create owns the record it inserted and the directory it made.
Created ==
    \A c \in Creates :
        /\ pc[c] \in Building =>
              snapshot[c] = Project(c, 1, "creating", c) /\ record = snapshot[c]
        /\ pc[c] \in {"idle", "mkdir"} => ~made[c]
        /\ pc[c] = "init" => dir = Directory(c, "partial")
        /\ pc[c] = "finish" => dir = Directory(c, "repo")
        /\ pc[c] = "release" => dir.kind \notin {"partial", "repo"}
        /\ dir.kind \in {"partial", "repo"} /\ dir.owner = c => made[c]

\* What the other requests have read is still the record, until a deletion fails.
Locked ==
    /\ \A r \in Renames : pc[r] \notin {"idle", "done"} => draft[r] # None
    /\ \A r \in Renames :
          pc[r] = "rename" =>
              /\ snapshot[r] = record /\ record.state \notin {"creating", "deleting"}
              /\ record.version = draft[r].version
    /\ \A d \in Deletes :
          /\ pc[d] \in {"stop", "claim"} =>
                snapshot[d] = record /\ record.state \notin {"creating", "deleting"}
          /\ pc[d] \in {"remove", "release"} =>
                snapshot[d] = record /\ record.state = "deleting"
          /\ pc[d] = "release" => dir.kind = "absent"
          /\ pc[d] = "report" =>
                /\ snapshot[d].state = "deleting"
                /\ record # None /\ record.token = snapshot[d].token => record = snapshot[d]
    /\ \A s \in Starts :
          pc[s] \in {"files", "launch"} => snapshot[s] = record /\ record.state = "ready"

\* A directory that was there before stays out of every generation's way.
Foreign ==
    dir.kind = "foreign" =>
        /\ record # None => record.state = "creating"
        /\ \A c \in Creates : ~made[c]

\* Only the ready generation has executions this server knows of.
Users ==
    /\ running \cap known # {} =>
          record # None /\ record.state = "ready" /\ running \cap known = {record.token}
    /\ \A d \in Deletes : pc[d] = "claim" => running \cap known = {}

\* The inductive invariant.
IInv ==
    /\ TypeOK /\ Ordered /\ Copies /\ Created /\ Locked /\ Foreign /\ Users
    /\ ReadyHasRepository /\ FilesKeepTheirRecord
-----------------------------------------------------------------------------
\* Failures are counted.
LEMMA FaultsCounted ==
    ASSUME TypeOK, StoreFault \/ FileFault
    PROVE  failures' \in [{"store", "file", "crash"} -> Nat]
BY DEF TypeOK, StoreFault, FileFault

\* An update by a request whose project is the record, or of another generation,
\* replaces the record or leaves it, whatever the store reports.
LEMMA UpdateEffect ==
    ASSUME TypeOK, NEW before \in ProjectRecords,
           record # None /\ record.token = before.token => record = before,
           NEW state \in States, NEW name \in Creates \cup Renames, NEW result,
           UpdateProject(before, state, name, result)
    PROVE  /\ result \in Results
           /\ failures' \in [{"store", "file", "crash"} -> Nat]
           /\ \/ result # "ok" /\ record' = record
              \/ /\ record = before
                 /\ record' = Project(before.token, before.version + 1, state, name)
                 /\ record' \in ProjectRecords
<1>1. Updated(before, state, name) = Project(before.token, before.version + 1, state, name)
    BY DEF Updated
<1>2. Project(before.token, before.version + 1, state, name) \in ProjectRecords
    BY DEF Project, ProjectRecords, States
<1>3. Matches(before) => record = before
    BY DEF Matches
<1>4. failures' \in [{"store", "file", "crash"} -> Nat]
    BY DEF UpdateProject, Write, StoreFault, TypeOK
<1> QED
    BY <1>1, <1>2, <1>3, <1>4 DEF UpdateProject, Write, StoreFault, Results

\* The insert gives the create its record, or none.
LEMMA CreateInsertStep ==
    ASSUME IInv, NEW c \in Creates, CreateInsert(c) PROVE IInv'
<1> USE NoneIsNoProject, NoneIsNoRequest, RequestsDistinct
<1> USE DEF IInv, CreateInsert, InsertProject, Write, Results, Respond, Goto, storeVars,
            fileVars,
            execVars, clientVars, Requests, InFlight, Building, Project, Directory
<1>1. TypeOK'
    BY FaultsCounted DEF TypeOK, ProjectRecords, Places, Ordered, Created, Locked, Results
<1>2. Ordered'
    BY DEF Ordered, TypeOK
<1>3. Copies'
    BY DEF Copies, Copy, TypeOK, ProjectRecords
<1>4. Created'
    BY DEF Created, TypeOK
<1>5. Locked'
    BY DEF Locked, TypeOK, ProjectRecords, Ordered, Created, Copies, Copy
<1>6. Foreign'
    BY DEF Foreign
<1>7. Users'
    BY DEF Users, TypeOK
<1>8. ReadyHasRepository'
    BY DEF ReadyHasRepository
<1>9. FilesKeepTheirRecord'
    BY DEF FilesKeepTheirRecord
<1> QED
    BY <1>1, <1>2, <1>3, <1>4, <1>5, <1>6, <1>7, <1>8, <1>9

\* The directory is made by the owner of the record, or was there before.
LEMMA CreateDirectoryStep ==
    ASSUME IInv, NEW c \in Creates, CreateDirectory(c) PROVE IInv'
<1> USE NoneIsNoProject, NoneIsNoRequest, RequestsDistinct
<1> USE DEF IInv, CreateDirectory, Respond, Goto, storeVars, fileVars,
            execVars, clientVars, Requests, InFlight, Building, Project, Directory
<1>1. TypeOK'
    <2>1. failures' \in [{"store", "file", "crash"} -> Nat]
        BY FaultsCounted DEF TypeOK
    <2>2. dir' \in [owner : Creates \cup {None}, kind : {"absent", "foreign", "partial", "repo"}]
        BY DEF TypeOK
    <2>3. made' \in [Creates -> BOOLEAN]
        BY DEF TypeOK
    <2>4. pc' \in [Requests -> Places]
        BY DEF TypeOK, Places
    <2>5. \A r \in Requests : InFlight(r)' /\ pc'[r] # "get" => snapshot'[r] \in ProjectRecords
        BY DEF TypeOK
    <2> QED
        BY <2>1, <2>2, <2>3, <2>4, <2>5 DEF TypeOK
<1>2. Ordered'
    BY DEF Ordered, TypeOK
<1>3. Copies'
    BY DEF Copies, Copy, TypeOK, ProjectRecords
<1>4. Created'
    BY DEF Created, TypeOK
<1>5. Locked'
    BY DEF Locked, TypeOK, Created
<1>6. Foreign'
    BY DEF Foreign
<1>7. Users'
    BY DEF Users, TypeOK
<1>8. ReadyHasRepository'
    BY DEF ReadyHasRepository
<1>9. FilesKeepTheirRecord'
    BY DEF FilesKeepTheirRecord, TypeOK, Created
<1> QED
    BY <1>1, <1>2, <1>3, <1>4, <1>5, <1>6, <1>7, <1>8, <1>9

\* The repository is completed in the directory this create made.
LEMMA CreateRepositoryStep ==
    ASSUME IInv, NEW c \in Creates, CreateRepository(c) PROVE IInv'
<1> USE NoneIsNoProject, NoneIsNoRequest, RequestsDistinct
<1> USE DEF IInv, CreateRepository, Respond, Goto, storeVars, fileVars,
            execVars, clientVars, Requests, InFlight, Building, Project, Directory
<1>1. TypeOK'
    BY FaultsCounted DEF TypeOK, Places
<1>2. Ordered'
    BY DEF Ordered, TypeOK
<1>3. Copies'
    BY DEF Copies, Copy, TypeOK, ProjectRecords
<1>4. Created'
    BY DEF Created, TypeOK
<1>5. Locked'
    BY DEF Locked, TypeOK, Created
<1>6. Foreign'
    BY DEF Foreign, TypeOK
<1>7. Users'
    BY DEF Users, TypeOK
<1>8. ReadyHasRepository'
    BY DEF ReadyHasRepository
<1>9. FilesKeepTheirRecord'
    BY DEF FilesKeepTheirRecord, TypeOK, Created
<1> QED
    BY <1>1, <1>2, <1>3, <1>4, <1>5, <1>6, <1>7, <1>8, <1>9

\* The record becomes ready with the repository complete.
LEMMA CreateFinishStep ==
    ASSUME IInv, NEW c \in Creates, CreateFinish(c) PROVE IInv'
<1> USE NoneIsNoProject, NoneIsNoRequest, RequestsDistinct
<1> USE DEF IInv, CreateFinish, Results, Respond, Goto, storeVars, fileVars,
            execVars, clientVars, Requests, InFlight, Building, Project, Directory
<1>a. snapshot[c] \in ProjectRecords
    BY DEF TypeOK, Created, Locked
<1>b. \A result \in Results :
      UpdateProject(snapshot[c], "ready", snapshot[c].name, result) =>
        /\ failures' \in [{"store", "file", "crash"} -> Nat]
        /\ \/ result # "ok" /\ record' = record
           \/ /\ record = snapshot[c]
              /\ record' = Project(snapshot[c].token, snapshot[c].version + 1,
                                   "ready", snapshot[c].name)
              /\ record' \in ProjectRecords
    BY <1>a, UpdateEffect DEF TypeOK, Created, Locked, States, ProjectRecords
<1>1. TypeOK'
    BY <1>a, <1>b, FaultsCounted DEF TypeOK, Places
<1>2. Ordered'
    BY DEF Ordered
<1>3. Copies'
    BY <1>a, <1>b DEF Copies, Copy, TypeOK, ProjectRecords
<1>4. Created'
    BY DEF Created, TypeOK
<1>5. Locked'
    BY <1>a, <1>b DEF Locked, TypeOK, Created
<1>6. Foreign'
    BY <1>a, <1>b DEF Foreign, TypeOK, Created
<1>7. Users'
    BY <1>a, <1>b DEF Users, TypeOK, ProjectRecords
<1>8. ReadyHasRepository'
    BY <1>a, <1>b DEF ReadyHasRepository, TypeOK, Created
<1>9. FilesKeepTheirRecord'
    BY <1>a, <1>b DEF FilesKeepTheirRecord, TypeOK, ProjectRecords
<1> QED
    BY <1>1, <1>2, <1>3, <1>4, <1>5, <1>6, <1>7, <1>8, <1>9

\* Rollback reads again what it owns.
LEMMA RollbackCheckStep ==
    ASSUME IInv, NEW c \in Creates, RollbackCheck(c) PROVE IInv'
<1> USE NoneIsNoProject, NoneIsNoRequest, RequestsDistinct
<1> USE DEF IInv, RollbackCheck, GetProject, RollbackAnswer, Results, Respond, Goto,
            storeVars, fileVars,
            execVars, clientVars, Requests, InFlight, Building, Project, Directory
<1>1. TypeOK'
    BY FaultsCounted DEF TypeOK, Places
<1>2. Ordered'
    BY DEF Ordered, TypeOK
<1>3. Copies'
    BY DEF Copies, Copy, TypeOK, ProjectRecords
<1>4. Created'
    BY DEF Created, TypeOK
<1>5. Locked'
    BY DEF Locked, TypeOK
<1>6. Foreign'
    BY DEF Foreign
<1>7. Users'
    BY DEF Users, TypeOK
<1>8. ReadyHasRepository'
    BY DEF ReadyHasRepository
<1>9. FilesKeepTheirRecord'
    BY DEF FilesKeepTheirRecord
<1> QED
    BY <1>1, <1>2, <1>3, <1>4, <1>5, <1>6, <1>7, <1>8, <1>9

\* Rollback removes only what this create made.
LEMMA RollbackFilesStep ==
    ASSUME IInv, NEW c \in Creates, RollbackFiles(c) PROVE IInv'
<1> USE NoneIsNoProject, NoneIsNoRequest, RequestsDistinct
<1> USE DEF IInv, RollbackFiles, RemoveAll, RemoveSome, Respond, Goto, storeVars,
            fileVars,
            execVars, clientVars, Requests, InFlight, Building, Project, Directory
<1>1. TypeOK'
    BY FaultsCounted DEF TypeOK, Results, Places
<1>2. Ordered'
    BY DEF Ordered, TypeOK
<1>3. Copies'
    BY DEF Copies, Copy, TypeOK, ProjectRecords
<1>4. Created'
    BY DEF Created, TypeOK, FilesKeepTheirRecord
<1>5. Locked'
    BY DEF Locked, TypeOK
<1>6. Foreign'
    BY DEF Foreign, TypeOK
<1>7. Users'
    BY DEF Users, TypeOK
<1>8. ReadyHasRepository'
    BY DEF ReadyHasRepository, TypeOK, Created
<1>9. FilesKeepTheirRecord'
    BY DEF FilesKeepTheirRecord, TypeOK
<1> QED
    BY <1>1, <1>2, <1>3, <1>4, <1>5, <1>6, <1>7, <1>8, <1>9

\* The record goes after the files.
LEMMA RollbackRecordStep ==
    ASSUME IInv, NEW c \in Creates, RollbackRecord(c) PROVE IInv'
<1> USE NoneIsNoProject, NoneIsNoRequest, RequestsDistinct
<1> USE DEF IInv, RollbackRecord, DeleteProject, Write, Matches, RollbackAnswer, Results,
            Respond, Goto, storeVars, fileVars,
            execVars, clientVars, Requests, InFlight, Building, Project, Directory
<1>1. TypeOK'
    BY FaultsCounted DEF TypeOK, Places
<1>2. Ordered'
    BY DEF Ordered
<1>3. Copies'
    BY DEF Copies, Copy
<1>4. Created'
    BY DEF Created, TypeOK
<1>5. Locked'
    BY DEF Locked, TypeOK, Created
<1>6. Foreign'
    BY DEF Foreign
<1>7. Users'
    BY DEF Users
<1>8. ReadyHasRepository'
    BY DEF ReadyHasRepository
<1>9. FilesKeepTheirRecord'
    BY DEF FilesKeepTheirRecord, TypeOK, Created
<1> QED
    BY <1>1, <1>2, <1>3, <1>4, <1>5, <1>6, <1>7, <1>8, <1>9

\* A draft is a copy of the record.
LEMMA ReadDraftStep ==
    ASSUME IInv, NEW r \in Renames, ReadDraft(r) PROVE IInv'
<1> USE NoneIsNoProject, NoneIsNoRequest, RequestsDistinct
<1> USE DEF IInv, ReadDraft, Respond, Goto, storeVars, fileVars,
            execVars, clientVars, Requests, InFlight, Building, Project, Directory
<1>1. TypeOK'
    BY DEF TypeOK, Places
<1>2. Ordered'
    BY DEF Ordered
<1>3. Copies'
    BY DEF Copies, Copy
<1>4. Created'
    BY DEF Created, TypeOK
<1>5. Locked'
    BY DEF Locked, TypeOK
<1>6. Foreign'
    BY DEF Foreign
<1>7. Users'
    BY DEF Users
<1>8. ReadyHasRepository'
    BY DEF ReadyHasRepository
<1>9. FilesKeepTheirRecord'
    BY DEF FilesKeepTheirRecord
<1> QED
    BY <1>1, <1>2, <1>3, <1>4, <1>5, <1>6, <1>7, <1>8, <1>9

\* Under the lock a rename reads the record.
LEMMA RenameGetStep ==
    ASSUME IInv, NEW r \in Renames, RenameGet(r) PROVE IInv'
<1> USE NoneIsNoProject, NoneIsNoRequest, RequestsDistinct
<1> USE DEF IInv, RenameGet, GetProject, Renameable, Results, Respond, Goto, storeVars,
            fileVars,
            execVars, clientVars, Requests, InFlight, Building, Project, Directory
<1>1. TypeOK'
    BY FaultsCounted DEF TypeOK, Places
<1>2. Ordered'
    BY DEF Ordered, TypeOK
<1>3. Copies'
    BY DEF Copies, Copy, TypeOK, ProjectRecords
<1>4. Created'
    BY DEF Created, TypeOK
<1>5. Locked'
    BY DEF Locked, TypeOK
<1>6. Foreign'
    BY DEF Foreign
<1>7. Users'
    BY DEF Users, TypeOK
<1>8. ReadyHasRepository'
    BY DEF ReadyHasRepository
<1>9. FilesKeepTheirRecord'
    BY DEF FilesKeepTheirRecord
<1> QED
    BY <1>1, <1>2, <1>3, <1>4, <1>5, <1>6, <1>7, <1>8, <1>9

\* A rename changes the name of the record it read, and no state.
LEMMA RenameUpdateStep ==
    ASSUME IInv, NEW r \in Renames, RenameUpdate(r) PROVE IInv'
<1> USE NoneIsNoProject, NoneIsNoRequest, RequestsDistinct
<1> USE DEF IInv, RenameUpdate, Results, Respond, Goto, storeVars, fileVars,
            execVars, clientVars, Requests, InFlight, Building, Project, Directory
<1>a. snapshot[r] \in ProjectRecords
    BY DEF TypeOK, Created, Locked
<1>b. \A result \in Results : UpdateProject(snapshot[r], snapshot[r].state, r, result) =>
        /\ failures' \in [{"store", "file", "crash"} -> Nat]
        /\ \/ result # "ok" /\ record' = record
           \/ /\ record = snapshot[r]
              /\ record' = Project(snapshot[r].token, snapshot[r].version + 1,
                                   snapshot[r].state, r)
              /\ record' \in ProjectRecords
    BY <1>a, UpdateEffect DEF TypeOK, Created, Locked, States, ProjectRecords
<1>1. TypeOK'
    BY <1>a, <1>b, FaultsCounted DEF TypeOK, Places
<1>2. Ordered'
    BY DEF Ordered, TypeOK
<1>3. Copies'
    BY <1>a, <1>b DEF Copies, Copy, TypeOK, ProjectRecords
<1>4. Created'
    BY <1>a, <1>b DEF Created, TypeOK, Locked
<1>5. Locked'
    BY <1>a, <1>b DEF Locked, TypeOK, Ordered, Created
<1>6. Foreign'
    BY <1>a, <1>b DEF Foreign, TypeOK, ProjectRecords
<1>7. Users'
    BY <1>a, <1>b DEF Users, TypeOK, ProjectRecords
<1>8. ReadyHasRepository'
    BY <1>a, <1>b DEF ReadyHasRepository, TypeOK, ProjectRecords
<1>9. FilesKeepTheirRecord'
    BY <1>a, <1>b DEF FilesKeepTheirRecord, TypeOK, ProjectRecords
<1> QED
    BY <1>1, <1>2, <1>3, <1>4, <1>5, <1>6, <1>7, <1>8, <1>9

\* Under the lock a deletion reads the record.
LEMMA DeleteGetStep ==
    ASSUME IInv, NEW d \in Deletes, DeleteGet(d) PROVE IInv'
<1> USE NoneIsNoProject, NoneIsNoRequest, RequestsDistinct
<1> USE DEF IInv, DeleteGet, GetProject, Results, Respond, Goto, storeVars, fileVars,
            execVars, clientVars, Requests, InFlight, Building, Project, Directory
<1>1. TypeOK'
    BY FaultsCounted DEF TypeOK, Places
<1>2. Ordered'
    BY DEF Ordered, TypeOK
<1>3. Copies'
    BY DEF Copies, Copy, TypeOK, ProjectRecords
<1>4. Created'
    BY DEF Created, TypeOK
<1>5. Locked'
    BY DEF Locked, TypeOK
<1>6. Foreign'
    BY DEF Foreign
<1>7. Users'
    BY DEF Users, TypeOK
<1>8. ReadyHasRepository'
    BY DEF ReadyHasRepository
<1>9. FilesKeepTheirRecord'
    BY DEF FilesKeepTheirRecord
<1> QED
    BY <1>1, <1>2, <1>3, <1>4, <1>5, <1>6, <1>7, <1>8, <1>9

\* No execution the manager knows of is left when the deletion goes on.
LEMMA DeleteStopStep ==
    ASSUME IInv, NEW d \in Deletes, DeleteStop(d) PROVE IInv'
<1> USE NoneIsNoProject, NoneIsNoRequest, RequestsDistinct
<1> USE DEF IInv, DeleteStop, Respond, Goto, storeVars, fileVars,
            execVars, clientVars, Requests, InFlight, Building, Project, Directory
<1>1. TypeOK'
    BY FaultsCounted DEF TypeOK, Results, Places
<1>2. Ordered'
    BY DEF Ordered, TypeOK
<1>3. Copies'
    BY DEF Copies, Copy, TypeOK, ProjectRecords
<1>4. Created'
    BY DEF Created, TypeOK
<1>5. Locked'
    BY DEF Locked, TypeOK
<1>6. Foreign'
    BY DEF Foreign
<1>7. Users'
    BY DEF Users, TypeOK, Locked
<1>8. ReadyHasRepository'
    BY DEF ReadyHasRepository
<1>9. FilesKeepTheirRecord'
    BY DEF FilesKeepTheirRecord
<1> QED
    BY <1>1, <1>2, <1>3, <1>4, <1>5, <1>6, <1>7, <1>8, <1>9

\* The claim takes the record over from the ready state.
LEMMA DeleteClaimStep ==
    ASSUME IInv, NEW d \in Deletes, DeleteClaim(d) PROVE IInv'
<1> USE NoneIsNoProject, NoneIsNoRequest, RequestsDistinct
<1> USE DEF IInv, DeleteClaim, Results, Respond, Goto, storeVars, fileVars,
            execVars, clientVars, Requests, InFlight, Building, Project, Directory
<1>a. snapshot[d] \in ProjectRecords
    BY DEF TypeOK, Created, Locked
<1>b. \A result \in Results :
      UpdateProject(snapshot[d], "deleting", snapshot[d].name, result) =>
        /\ failures' \in [{"store", "file", "crash"} -> Nat]
        /\ \/ result # "ok" /\ record' = record
           \/ /\ record = snapshot[d]
              /\ record' = Project(snapshot[d].token, snapshot[d].version + 1,
                                   "deleting", snapshot[d].name)
              /\ record' \in ProjectRecords
    BY <1>a, UpdateEffect DEF TypeOK, Created, Locked, States, ProjectRecords
<1>1. TypeOK'
    BY <1>a, <1>b, FaultsCounted DEF TypeOK, Places
<1>2. Ordered'
    BY DEF Ordered, TypeOK
<1>3. Copies'
    BY <1>a, <1>b DEF Copies, Copy, TypeOK, ProjectRecords
<1>4. Created'
    BY <1>a, <1>b DEF Created, TypeOK, Locked
<1>5. Locked'
    BY <1>a, <1>b DEF Locked, TypeOK, Ordered, Created
<1>6. Foreign'
    BY <1>a, <1>b DEF Foreign, TypeOK, Locked
<1>7. Users'
    BY DEF Users
<1>8. ReadyHasRepository'
    BY <1>a, <1>b DEF ReadyHasRepository, TypeOK, ProjectRecords
<1>9. FilesKeepTheirRecord'
    BY <1>a, <1>b DEF FilesKeepTheirRecord, TypeOK, ProjectRecords
<1> QED
    BY <1>1, <1>2, <1>3, <1>4, <1>5, <1>6, <1>7, <1>8, <1>9

\* The claimant removes the files, or some of them.
LEMMA DeleteFilesStep ==
    ASSUME IInv, NEW d \in Deletes, DeleteFiles(d) PROVE IInv'
<1> USE NoneIsNoProject, NoneIsNoRequest, RequestsDistinct
<1> USE DEF IInv, DeleteFiles, RemoveAll, RemoveSome, Respond, Goto, storeVars, fileVars,
            execVars, clientVars, Requests, InFlight, Building, Project, Directory
<1>1. TypeOK'
    BY FaultsCounted DEF TypeOK, Places
<1>2. Ordered'
    BY DEF Ordered, TypeOK
<1>3. Copies'
    BY DEF Copies, Copy, TypeOK, ProjectRecords
<1>4. Created'
    BY DEF Created, TypeOK, Locked
<1>5. Locked'
    BY DEF Locked, TypeOK
<1>6. Foreign'
    BY DEF Foreign, TypeOK
<1>7. Users'
    BY DEF Users, TypeOK
<1>8. ReadyHasRepository'
    BY DEF ReadyHasRepository, TypeOK, Locked
<1>9. FilesKeepTheirRecord'
    BY DEF FilesKeepTheirRecord, TypeOK
<1> QED
    BY <1>1, <1>2, <1>3, <1>4, <1>5, <1>6, <1>7, <1>8, <1>9

\* The record goes when the files have gone.
LEMMA DeleteRecordStep ==
    ASSUME IInv, NEW d \in Deletes, DeleteRecord(d) PROVE IInv'
<1> USE NoneIsNoProject, NoneIsNoRequest, RequestsDistinct
<1> USE DEF IInv, DeleteRecord, DeleteProject, Write, Matches, Results, Respond, Goto,
            storeVars, fileVars,
            execVars, clientVars, Requests, InFlight, Building, Project, Directory
<1>1. TypeOK'
    BY FaultsCounted DEF TypeOK, Places
<1>2. Ordered'
    BY DEF Ordered, TypeOK
<1>3. Copies'
    BY DEF Copies, Copy, TypeOK, ProjectRecords
<1>4. Created'
    BY DEF Created, TypeOK, Locked
<1>5. Locked'
    BY DEF Locked, TypeOK, Ordered, Created
<1>6. Foreign'
    BY DEF Foreign
<1>7. Users'
    BY DEF Users, TypeOK
<1>8. ReadyHasRepository'
    BY DEF ReadyHasRepository
<1>9. FilesKeepTheirRecord'
    BY DEF FilesKeepTheirRecord, TypeOK, Locked
<1> QED
    BY <1>1, <1>2, <1>3, <1>4, <1>5, <1>6, <1>7, <1>8, <1>9

\* The report gives the claim back, and never as ready.
LEMMA ReportFailureStep ==
    ASSUME IInv, NEW d \in Deletes, ReportFailure(d) PROVE IInv'
<1> USE NoneIsNoProject, NoneIsNoRequest, RequestsDistinct
<1> USE DEF IInv, ReportFailure, Results, Respond, Goto, storeVars, fileVars,
            execVars, clientVars, Requests, InFlight, Building, Project, Directory
<1>a. snapshot[d] \in ProjectRecords
    BY DEF TypeOK, Created, Locked
<1>b. \A result \in Results :
      UpdateProject(snapshot[d], "delete_failed", snapshot[d].name, result) =>
        /\ failures' \in [{"store", "file", "crash"} -> Nat]
        /\ \/ result # "ok" /\ record' = record
           \/ /\ record = snapshot[d]
              /\ record' = Project(snapshot[d].token, snapshot[d].version + 1,
                                   "delete_failed", snapshot[d].name)
              /\ record' \in ProjectRecords
    BY <1>a, UpdateEffect DEF TypeOK, Created, Locked, States, ProjectRecords
<1>1. TypeOK'
    BY <1>a, <1>b, FaultsCounted DEF TypeOK, Places
<1>2. Ordered'
    BY DEF Ordered, TypeOK
<1>3. Copies'
    BY <1>a, <1>b DEF Copies, Copy, TypeOK, ProjectRecords
<1>4. Created'
    BY <1>a, <1>b DEF Created, TypeOK, Locked
<1>5. Locked'
    BY <1>a, <1>b DEF Locked, TypeOK, Ordered, Created
<1>6. Foreign'
    BY <1>a, <1>b DEF Foreign, TypeOK, Locked
<1>7. Users'
    BY <1>a, <1>b DEF Users, TypeOK, Locked
<1>8. ReadyHasRepository'
    BY <1>a, <1>b DEF ReadyHasRepository, TypeOK, ProjectRecords
<1>9. FilesKeepTheirRecord'
    BY <1>a, <1>b DEF FilesKeepTheirRecord, TypeOK, ProjectRecords
<1> QED
    BY <1>1, <1>2, <1>3, <1>4, <1>5, <1>6, <1>7, <1>8, <1>9

\* Under the lock a start reads a ready record.
LEMMA StartGetStep ==
    ASSUME IInv, NEW s \in Starts, StartGet(s) PROVE IInv'
<1> USE NoneIsNoProject, NoneIsNoRequest, RequestsDistinct
<1> USE DEF IInv, StartGet, GetProject, Results, Respond, Goto, storeVars, fileVars,
            execVars, clientVars, Requests, InFlight, Building, Project, Directory
<1>1. TypeOK'
    BY FaultsCounted DEF TypeOK, Places
<1>2. Ordered'
    BY DEF Ordered, TypeOK
<1>3. Copies'
    BY DEF Copies, Copy, TypeOK, ProjectRecords
<1>4. Created'
    BY DEF Created, TypeOK
<1>5. Locked'
    BY DEF Locked, TypeOK
<1>6. Foreign'
    BY DEF Foreign
<1>7. Users'
    BY DEF Users, TypeOK
<1>8. ReadyHasRepository'
    BY DEF ReadyHasRepository
<1>9. FilesKeepTheirRecord'
    BY DEF FilesKeepTheirRecord
<1> QED
    BY <1>1, <1>2, <1>3, <1>4, <1>5, <1>6, <1>7, <1>8, <1>9

\* A start looks at the directory.
LEMMA StartFilesStep ==
    ASSUME IInv, NEW s \in Starts, StartFiles(s) PROVE IInv'
<1> USE NoneIsNoProject, NoneIsNoRequest, RequestsDistinct
<1> USE DEF IInv, StartFiles, Respond, Goto, storeVars, fileVars,
            execVars, clientVars, Requests, InFlight, Building, Project, Directory
<1>1. TypeOK'
    BY FaultsCounted DEF TypeOK, Results, Places
<1>2. Ordered'
    BY DEF Ordered, TypeOK
<1>3. Copies'
    BY DEF Copies, Copy, TypeOK, ProjectRecords
<1>4. Created'
    BY DEF Created, TypeOK
<1>5. Locked'
    BY DEF Locked, TypeOK
<1>6. Foreign'
    BY DEF Foreign
<1>7. Users'
    BY DEF Users, TypeOK
<1>8. ReadyHasRepository'
    BY DEF ReadyHasRepository
<1>9. FilesKeepTheirRecord'
    BY DEF FilesKeepTheirRecord
<1> QED
    BY <1>1, <1>2, <1>3, <1>4, <1>5, <1>6, <1>7, <1>8, <1>9

\* A start adds an execution of the ready generation.
LEMMA StartLaunchStep ==
    ASSUME IInv, NEW s \in Starts, StartLaunch(s) PROVE IInv'
<1> USE NoneIsNoProject, NoneIsNoRequest, RequestsDistinct
<1> USE DEF IInv, StartLaunch, Respond, Goto, storeVars, fileVars,
            execVars, clientVars, Requests, InFlight, Building, Project, Directory
<1>1. TypeOK'
    BY FaultsCounted DEF TypeOK, ProjectRecords, Places, Ordered, Created, Locked, Results
<1>2. Ordered'
    BY DEF Ordered, TypeOK
<1>3. Copies'
    BY DEF Copies, Copy, TypeOK, ProjectRecords
<1>4. Created'
    BY DEF Created, TypeOK
<1>5. Locked'
    BY DEF Locked, TypeOK
<1>6. Foreign'
    BY DEF Foreign
<1>7. Users'
    BY DEF Users, TypeOK, Ordered, Created, Locked
<1>8. ReadyHasRepository'
    BY DEF ReadyHasRepository
<1>9. FilesKeepTheirRecord'
    BY DEF FilesKeepTheirRecord
<1> QED
    BY <1>1, <1>2, <1>3, <1>4, <1>5, <1>6, <1>7, <1>8, <1>9

\* A request other than a create takes the lock that is free.
LEMMA AcquireLockStep ==
    ASSUME IInv, NEW r \in Requests \ Creates, NEW from \in {"idle", "drafted"},
           from = "drafted" <=> r \in Renames,
           AcquireLock(r, from) PROVE IInv'
<1> USE NoneIsNoProject, NoneIsNoRequest, RequestsDistinct
<1> USE DEF IInv, AcquireLock, Respond, Goto, storeVars, fileVars,
            execVars, clientVars, Requests, InFlight, Building, Project, Directory
<1>1. TypeOK'
    BY DEF TypeOK, Places
<1>2. Ordered'
    BY DEF Ordered
<1>3. Copies'
    BY DEF Copies, Copy
<1>4. Created'
    BY DEF Created, TypeOK
<1>5. Locked'
    BY DEF Locked
<1>6. Foreign'
    BY DEF Foreign
<1>7. Users'
    BY DEF Users
<1>8. ReadyHasRepository'
    BY DEF ReadyHasRepository
<1>9. FilesKeepTheirRecord'
    BY DEF FilesKeepTheirRecord
<1> QED
    BY <1>1, <1>2, <1>3, <1>4, <1>5, <1>6, <1>7, <1>8, <1>9

\* An execution ends.
LEMMA ExecutionEndsStep ==
    ASSUME IInv, NEW t \in Creates, ExecutionEnds(t) PROVE IInv'
<1> USE NoneIsNoProject, NoneIsNoRequest, RequestsDistinct
<1> USE DEF IInv, ExecutionEnds, Respond, Goto, storeVars, fileVars,
            execVars, clientVars, Requests, InFlight, Building, Project, Directory
<1>1. TypeOK'
    BY DEF TypeOK
<1>2. Ordered'
    BY DEF Ordered
<1>3. Copies'
    BY DEF Copies, Copy
<1>4. Created'
    BY DEF Created
<1>5. Locked'
    BY DEF Locked
<1>6. Foreign'
    BY DEF Foreign
<1>7. Users'
    BY DEF Users
<1>8. ReadyHasRepository'
    BY DEF ReadyHasRepository
<1>9. FilesKeepTheirRecord'
    BY DEF FilesKeepTheirRecord
<1> QED
    BY <1>1, <1>2, <1>3, <1>4, <1>5, <1>6, <1>7, <1>8, <1>9

\* An exit is unconfirmed.
LEMMA ExitUnconfirmedStep ==
    ASSUME IInv, NEW t \in Creates, ExitUnconfirmed(t) PROVE IInv'
<1> USE NoneIsNoProject, NoneIsNoRequest, RequestsDistinct
<1> USE DEF IInv, ExitUnconfirmed, Respond, Goto, storeVars, fileVars,
            execVars, clientVars, Requests, InFlight, Building, Project, Directory
<1>1. TypeOK'
    BY DEF TypeOK
<1>2. Ordered'
    BY DEF Ordered
<1>3. Copies'
    BY DEF Copies, Copy
<1>4. Created'
    BY DEF Created
<1>5. Locked'
    BY DEF Locked
<1>6. Foreign'
    BY DEF Foreign
<1>7. Users'
    BY DEF Users
<1>8. ReadyHasRepository'
    BY DEF ReadyHasRepository
<1>9. FilesKeepTheirRecord'
    BY DEF FilesKeepTheirRecord
<1> QED
    BY <1>1, <1>2, <1>3, <1>4, <1>5, <1>6, <1>7, <1>8, <1>9

\* A crash ends requests and forgets executions; files may be half removed.
LEMMA CrashStep ==
    ASSUME IInv, Crash PROVE IInv'
<1> USE NoneIsNoProject, NoneIsNoRequest, RequestsDistinct
<1> USE DEF IInv, Crash, Respond, Goto, storeVars, fileVars,
            execVars, clientVars, Requests, InFlight, Building, Project, Directory
<1>1. TypeOK'
    BY DEF TypeOK, Places
<1>2. Ordered'
    BY DEF Ordered
<1>3. Copies'
    BY DEF Copies, Copy, TypeOK, ProjectRecords
<1>4. Created'
    BY DEF Created, TypeOK
<1>5. Locked'
    BY DEF Locked
<1>6. Foreign'
    BY DEF Foreign, TypeOK
<1>7. Users'
    BY DEF Users
<1>8. ReadyHasRepository'
    BY DEF ReadyHasRepository, TypeOK, Created, Locked, Ordered
<1>9. FilesKeepTheirRecord'
    BY DEF FilesKeepTheirRecord, TypeOK
<1> QED
    BY <1>1, <1>2, <1>3, <1>4, <1>5, <1>6, <1>7, <1>8, <1>9

\* Initially the ID is free.
LEMMA InitIInv == Init => IInv
BY NoneIsNoProject, NoneIsNoRequest
   DEF Init, IInv, TypeOK, Ordered, Copies, Copy, Created, Locked, Foreign, Users,
       Requests,
       ReadyHasRepository, FilesKeepTheirRecord, Places, Building, InFlight, Directory,
       Results

\* Every step preserves the invariant.
LEMMA NextIInv == IInv /\ [Next]_vars => IInv'
<1> SUFFICES ASSUME IInv, [Next]_vars PROVE IInv'
    OBVIOUS
<1>1. ASSUME NEW c \in Creates, CreateInsert(c) \/ CreateSteps(c) PROVE IInv'
    BY <1>1, CreateInsertStep, CreateDirectoryStep, CreateRepositoryStep,
    CreateFinishStep,
       RollbackCheckStep, RollbackFilesStep, RollbackRecordStep DEF CreateSteps
<1>2. ASSUME NEW r \in Renames, ReadDraft(r) \/ AcquireLock(r, "drafted") \/ RenameSteps(r)
      PROVE  IInv'
    <2>1. r \in Requests \ Creates
        BY RequestsDistinct DEF Requests
    <2>2. CASE AcquireLock(r, "drafted")
        BY <2>1, <2>2, AcquireLockStep
    <2>3. CASE ReadDraft(r) \/ RenameSteps(r)
        BY <2>3, ReadDraftStep, RenameGetStep, RenameUpdateStep DEF RenameSteps
    <2> QED
        BY <1>2, <2>2, <2>3
<1>3. ASSUME NEW d \in Deletes, AcquireLock(d, "idle") \/ DeleteSteps(d) PROVE IInv'
    BY <1>3, AcquireLockStep, DeleteGetStep, DeleteStopStep, DeleteClaimStep,
    DeleteFilesStep,
       DeleteRecordStep, ReportFailureStep, RequestsDistinct DEF DeleteSteps, Requests
<1>4. ASSUME NEW s \in Starts, AcquireLock(s, "idle") \/ StartSteps(s) PROVE IInv'
    BY <1>4, AcquireLockStep, StartGetStep, StartFilesStep, StartLaunchStep,
    RequestsDistinct
       DEF StartSteps, Requests
<1>5. CASE UNCHANGED vars
    BY <1>5 DEF vars, storeVars, fileVars, execVars, clientVars, IInv, TypeOK, Ordered,
                Copies, Copy, Created, Locked, Foreign, Users,
       ReadyHasRepository, FilesKeepTheirRecord, InFlight
<1> QED
    BY <1>1, <1>2, <1>3, <1>4, <1>5, CrashStep, ExecutionEndsStep, ExitUnconfirmedStep
       DEF Next, Arrive, Work

\* The inductive invariant holds in every reachable state.
LEMMA Inductive == Spec => []IInv
BY InitIInv, NextIInv, PTL DEF Spec

-----------------------------------------------------------------------------
(* The properties *)

\* Types, and every request that acts on a project has read one before.
THEOREM TypeCorrectness == Spec => []TypeOK
<1>1. IInv => TypeOK
    BY DEF IInv
<1> QED
    BY <1>1, Inductive, PTL

\* Whatever fails or crashes, a project is ready only with its own complete
\* repository.
THEOREM ReadyIsComplete == Spec => []ReadyHasRepository
<1>1. IInv => ReadyHasRepository
    BY DEF IInv
<1> QED
    BY <1>1, Inductive, PTL

\* Files go before the record of their generation, on every path that removes it.
THEOREM FilesGoFirst == Spec => []FilesKeepTheirRecord
<1>1. IInv => FilesKeepTheirRecord
    BY DEF IInv
<1> QED
    BY <1>1, Inductive, PTL

\* A copy with the stored token and version is the record.
LEMMA CopiesIdentified == IInv => VersionIdentifiesRecord
<1> SUFFICES ASSUME IInv, NEW p, record # None, p # None, Copy(p),
                    p.token = record.token, p.version = record.version
             PROVE  p = record
    BY DEF IInv, Copies, VersionIdentifiesRecord
<1> QED
    BY DEF IInv, TypeOK, ProjectRecords, Copy

\* However many updates failed after they were committed, version and token identify
\* the contents of a project.
THEOREM VersionsIdentify == Spec => []VersionIdentifiesRecord
BY CopiesIdentified, Inductive, PTL

\* Rollback and deletion never touch a directory that was there before.
THEOREM ForeignFilesStay == Spec => ForeignFilesUntouched
<1>1. IInv /\ [Next]_vars => (dir.kind = "foreign" => dir' = dir)
    <2> SUFFICES ASSUME IInv, [Next]_vars, dir.kind = "foreign" PROVE dir' = dir
        OBVIOUS
    <2> USE DEF IInv, TypeOK, storeVars, fileVars, execVars, clientVars
    <2>1. ASSUME NEW c \in Creates, CreateInsert(c) \/ CreateSteps(c) PROVE dir' = dir
        BY <2>1 DEF CreateInsert, CreateSteps, CreateDirectory, CreateRepository,
                    CreateFinish,
                    RollbackCheck, RollbackFiles, RollbackRecord, Created, Directory,
                    Foreign
    <2>2. ASSUME NEW r \in Renames, ReadDraft(r) \/ AcquireLock(r, "drafted") \/ RenameSteps(r)
          PROVE  dir' = dir
        BY <2>2 DEF ReadDraft, AcquireLock, RenameSteps, RenameGet, RenameUpdate
    <2>3. ASSUME NEW d \in Deletes, AcquireLock(d, "idle") \/ DeleteSteps(d) PROVE dir' = dir
        BY <2>3, NoneIsNoProject
           DEF AcquireLock, DeleteSteps, DeleteGet, DeleteStop, DeleteClaim, DeleteFiles,
               DeleteRecord, ReportFailure, Locked, Foreign, InFlight, Requests
    <2>4. ASSUME NEW s \in Starts, AcquireLock(s, "idle") \/ StartSteps(s) PROVE dir' = dir
        BY <2>4 DEF AcquireLock, StartSteps, StartGet, StartFiles, StartLaunch
    <2>5. CASE Crash
        BY <2>5 DEF Crash
    <2>6. ASSUME NEW t \in Creates, ExecutionEnds(t) \/ ExitUnconfirmed(t) PROVE dir' = dir
        BY <2>6 DEF ExecutionEnds, ExitUnconfirmed
    <2>7. CASE UNCHANGED vars
        BY <2>7 DEF vars
    <2> QED
        BY <2>1, <2>2, <2>3, <2>4, <2>5, <2>6, <2>7 DEF Next, Arrive, Work
<1> QED
    BY <1>1, Inductive, PTL DEF Spec, ForeignFilesUntouched

\* Only the rename r itself gives a project that exists the name r.
LEMMA OnlyRenameRenames ==
    ASSUME IInv, [Next]_vars, NEW r \in Renames, Renaming(r)
    PROVE  RenameUpdate(r) /\ snapshot[r] = record /\ record.version = draft[r].version
<1> USE DEF IInv, storeVars
<1>1. record \in ProjectRecords /\ record' # record
    BY DEF TypeOK, Renaming
<1>2. ASSUME NEW c \in Creates, CreateInsert(c) \/ CreateSteps(c) PROVE FALSE
    <2>1. CASE CreateInsert(c)
        BY <1>1, <2>1, NoneIsNoProject DEF CreateInsert, InsertProject, Write
    <2>2. CASE CreateFinish(c)
        <3>1. record = snapshot[c] /\ snapshot[c] = Project(c, 1, "creating", c)
            BY <2>2 DEF CreateFinish, Created, Building
        <3> QED
            BY <1>1, <2>2, <3>1, UpdateEffect
               DEF CreateFinish, Renaming, Project, States, ProjectRecords
    <2>3. CASE RollbackRecord(c)
        BY <1>1, <2>3 DEF RollbackRecord, DeleteProject, Write, Renaming
    <2> QED
        BY <1>1, <1>2, <2>1, <2>2, <2>3
           DEF CreateSteps, CreateDirectory, CreateRepository, RollbackCheck, GetProject,
               RollbackFiles
<1>3. ASSUME NEW q \in Renames, ReadDraft(q) \/ AcquireLock(q, "drafted") \/ RenameSteps(q)
      PROVE  /\ q = r /\ RenameUpdate(r)
             /\ snapshot[r] = record /\ record.version = draft[r].version
    <2>1. RenameUpdate(q)
        BY <1>1, <1>3 DEF ReadDraft, AcquireLock, RenameSteps, RenameGet, GetProject
    <2>2. snapshot[q] = record /\ record.version = draft[q].version
        BY <2>1 DEF RenameUpdate, Locked
    <2>3. record'.name = q
        BY <1>1, <2>1, <2>2, UpdateEffect DEF RenameUpdate, Project, States,
                                              ProjectRecords
    <2> QED
        BY <2>1, <2>2, <2>3 DEF Renaming
<1>4. ASSUME NEW d \in Deletes, AcquireLock(d, "idle") \/ DeleteSteps(d) PROVE FALSE
    <2>1. CASE DeleteClaim(d)
        <3>1. record = snapshot[d]
            BY <2>1 DEF DeleteClaim, Locked
        <3> QED
            BY <1>1, <2>1, <3>1, UpdateEffect
               DEF DeleteClaim, Renaming, Project, States, ProjectRecords
    <2>2. CASE ReportFailure(d)
        <3>1. record.token = snapshot[d].token => record = snapshot[d]
            BY <1>1, <2>2, NoneIsNoProject DEF ReportFailure, Locked
        <3>2. snapshot[d] \in ProjectRecords
            BY <2>2 DEF ReportFailure, TypeOK, InFlight, Requests
        <3> QED
            BY <1>1, <2>2, <3>1, <3>2, UpdateEffect
               DEF ReportFailure, Renaming, Project, States, ProjectRecords
    <2>3. CASE DeleteRecord(d)
        BY <1>1, <2>3 DEF DeleteRecord, DeleteProject, Write, Renaming
    <2> QED
        BY <1>1, <1>4, <2>1, <2>2, <2>3
           DEF AcquireLock, DeleteSteps, DeleteGet, GetProject, DeleteStop, DeleteFiles
<1>5. ASSUME NEW s \in Starts, AcquireLock(s, "idle") \/ StartSteps(s) PROVE FALSE
    BY <1>1, <1>5 DEF AcquireLock, StartSteps, StartGet, GetProject, StartFiles,
                      StartLaunch
<1>6. CASE Crash \/ (\E t \in Creates : ExecutionEnds(t) \/ ExitUnconfirmed(t)) \/ UNCHANGED vars
    BY <1>1, <1>6 DEF Crash, ExecutionEnds, ExitUnconfirmed, vars
<1> QED
    BY <1>2, <1>3, <1>4, <1>5, <1>6 DEF Next, Arrive, Work

\* Within a generation no rename overwrites a change its client has not seen.
THEOREM RenamesSeeChanges == Spec => RenameReplacesWhatWasRead
<1>1. IInv /\ [Next]_vars =>
        \A r \in Renames : Renaming(r) /\ draft[r].token = record.token => draft[r] = record
    <2> SUFFICES ASSUME IInv, [Next]_vars, NEW r \in Renames, Renaming(r),
                        draft[r].token = record.token
                 PROVE  draft[r] = record
        OBVIOUS
    <2>1. RenameUpdate(r) /\ record.version = draft[r].version
        BY OnlyRenameRenames
    <2>2. draft[r] # None
        BY <2>1 DEF RenameUpdate, IInv, Locked
    <2> QED
        BY <2>1, <2>2, CopiesIdentified, RequestsDistinct
           DEF VersionIdentifiesRecord, Renaming, Requests
<1> QED
    BY <1>1, Inductive, PTL DEF Spec, RenameReplacesWhatWasRead

-----------------------------------------------------------------------------
(* The refinement *)

\* What a step does to the lease, seen from the record, the directory and the
\* executions this server knows of.
Reserves == \E c \in Creates :
    /\ record = None /\ record' # None /\ record'.token = c /\ record'.state # "ready"
    /\ UNCHANGED <<dir, running, known>>
Builds ==
    /\ record # None /\ record.state # "ready" /\ running \cap known = {}
    /\ dir'.kind \in {"absent", "foreign", "partial", "repo"}
    /\ (running \cap known)' = {} /\ UNCHANGED record
Updates ==
    /\ record # None /\ record' # None /\ record'.token = record.token
    /\ record'.state = "ready" /\ record.state # "ready" => dir.kind = "repo"
    /\ record.state = "ready" /\ record'.state # "ready" => running \cap known = {}
    /\ UNCHANGED <<dir, running, known>>
Releases ==
    /\ record # None /\ record.state # "ready" /\ dir.kind \notin {"partial", "repo"}
    /\ record' = None /\ UNCHANGED <<dir, running, known>>
Enters ==
    /\ record # None /\ record.state = "ready"
    /\ (running \cap known)' = (running \cap known) \cup {record.token}
    /\ UNCHANGED <<record, dir>>
Leaves == (running \cap known)' \subseteq running \cap known /\ UNCHANGED <<record, dir>>

LeaseStep == Reserves \/ Builds \/ Updates \/ Releases \/ Enters \/ Leaves

\* These are the steps of the abstract lease.
LEMMA LeaseStepsRefine == TypeOK /\ LeaseStep => [Lease!Next]_(Lease!vars)
<1> SUFFICES ASSUME TypeOK, LeaseStep PROVE [Lease!Next]_(Lease!vars)
    OBVIOUS
<1> USE DEF Lease!Next, Lease!vars
<1>0. record # None => record.token # None
    BY NoneIsNoRequest DEF TypeOK, ProjectRecords, Requests
<1>1. Reserves => [Lease!Next]_(Lease!vars)
    BY DEF Reserves, Lease!Reserve
<1>2. Builds => [Lease!Next]_(Lease!vars)
    BY <1>0 DEF Builds, Lease!ChangeFiles
<1>3. Updates => [Lease!Next]_(Lease!vars)
    BY <1>0 DEF Updates, Lease!Offer, Lease!Withdraw
<1>4. Releases => [Lease!Next]_(Lease!vars)
    BY DEF Releases, Lease!Release
<1>5. Enters => [Lease!Next]_(Lease!vars)
    BY DEF Enters, Lease!Enter
<1>6. Leaves => [Lease!Next]_(Lease!vars)
    BY DEF Leaves, Lease!Leave
<1> QED
    BY <1>1, <1>2, <1>3, <1>4, <1>5, <1>6 DEF LeaseStep

\* Create reserves the ID, builds while nothing may start, offers, or releases.
LEMMA CreateKeepsLease ==
    ASSUME IInv, NEW c \in Creates, CreateInsert(c) \/ CreateSteps(c) PROVE LeaseStep
<1> USE NoneIsNoProject DEF IInv, storeVars, fileVars, execVars, LeaseStep
<1>1. CASE CreateInsert(c)
    BY <1>1 DEF CreateInsert, InsertProject, Write, Project, ProjectRecords, Reserves,
                Leaves
<1>2. CASE CreateDirectory(c) \/ CreateRepository(c) \/ RollbackFiles(c)
    <2>1. record = Project(c, 1, "creating", c)
        BY <1>2 DEF CreateDirectory, CreateRepository, RollbackFiles, Created, Building
    <2>2. dir'.kind \in {"absent", "foreign", "partial", "repo"}
        BY <1>2 DEF CreateDirectory, CreateRepository, RollbackFiles, RemoveAll,
                    RemoveSome,
                    Directory, TypeOK
    <2>3. record # None /\ record.state # "ready" /\ running \cap known = {}
        BY <1>2, <2>1
           DEF CreateDirectory, CreateRepository, RollbackFiles, Project, ProjectRecords,
               Users
    <2> QED
        BY <1>2, <2>2, <2>3 DEF CreateDirectory, CreateRepository, RollbackFiles, Builds
<1>3. CASE CreateFinish(c)
    <2>1. /\ snapshot[c] = Project(c, 1, "creating", c) /\ record = snapshot[c]
          /\ dir = Directory(c, "repo")
        BY <1>3 DEF CreateFinish, Created, Building
    <2>2. snapshot[c] \in ProjectRecords
        BY <2>1 DEF Project, ProjectRecords
    <2>3. \/ record' = record
          \/ /\ record' = Project(c, snapshot[c].version + 1, "ready", snapshot[c].name)
             /\ record' \in ProjectRecords
        BY <1>3, <2>1, <2>2, UpdateEffect DEF CreateFinish, States, ProjectRecords,
                                              Project
    <2> QED
        BY <1>3, <2>1, <2>2, <2>3 DEF CreateFinish, Project, Directory, Updates, Leaves
<1>4. CASE RollbackCheck(c)
    BY <1>4 DEF RollbackCheck, GetProject, Leaves
<1>5. CASE RollbackRecord(c)
    <2>1. record = Project(c, 1, "creating", c) /\ dir.kind \notin {"partial", "repo"}
        BY <1>5 DEF RollbackRecord, Created, Building
    <2> QED
        BY <1>5, <2>1 DEF RollbackRecord, DeleteProject, Write, Project, Releases, Leaves
<1> QED
    BY <1>1, <1>2, <1>3, <1>4, <1>5 DEF CreateSteps

\* A rename leaves the lease alone.
LEMMA RenameKeepsLease ==
    ASSUME IInv, NEW r \in Renames,
           ReadDraft(r) \/ AcquireLock(r, "drafted") \/ RenameSteps(r)
    PROVE  LeaseStep
<1> USE DEF IInv, storeVars, fileVars, execVars, LeaseStep
<1>1. CASE ReadDraft(r) \/ AcquireLock(r, "drafted") \/ RenameGet(r)
    BY <1>1 DEF ReadDraft, AcquireLock, RenameGet, GetProject, Leaves
<1>2. CASE RenameUpdate(r)
    <2>1. snapshot[r] = record /\ snapshot[r] \in ProjectRecords
        BY <1>2 DEF RenameUpdate, Locked, TypeOK, InFlight, Requests
    <2>2. \/ record' = record
          \/ record' = Project(record.token, record.version + 1, record.state, r)
        BY <1>2, <2>1, UpdateEffect DEF RenameUpdate, States, ProjectRecords
    <2>3. Project(record.token, record.version + 1, record.state, r) \in ProjectRecords
        BY <2>1 DEF Project, ProjectRecords
    <2> QED
        BY <1>2, <2>1, <2>2, <2>3, NoneIsNoProject DEF RenameUpdate, Project, Updates,
                                                       Leaves
<1> QED
    BY <1>1, <1>2 DEF RenameSteps

\* A deletion sends the users away, withdraws the offer, removes and releases.
LEMMA DeleteKeepsLease ==
    ASSUME IInv, NEW d \in Deletes, AcquireLock(d, "idle") \/ DeleteSteps(d) PROVE LeaseStep
<1> USE DEF IInv, storeVars, fileVars, execVars, LeaseStep
<1>1. CASE AcquireLock(d, "idle") \/ DeleteGet(d) \/ DeleteStop(d)
    BY <1>1 DEF AcquireLock, DeleteGet, GetProject, DeleteStop, Leaves
<1>2. CASE DeleteClaim(d)
    <2>1. /\ snapshot[d] = record /\ snapshot[d] \in ProjectRecords
          /\ running \cap known = {}
        BY <1>2 DEF DeleteClaim, Locked, Users, TypeOK, InFlight, Requests
    <2>2. \/ record' = record
          \/ record' = Project(record.token, record.version + 1, "deleting", record.name)
        BY <1>2, <2>1, UpdateEffect DEF DeleteClaim, States, ProjectRecords
    <2>3. Project(record.token, record.version + 1, "deleting", record.name) \in ProjectRecords
        BY <2>1 DEF Project, ProjectRecords
    <2> QED
        BY <1>2, <2>1, <2>2, <2>3, NoneIsNoProject DEF DeleteClaim, Project, Updates,
                                                       Leaves
<1>3. CASE DeleteFiles(d)
    <2>1. record # None /\ record.state = "deleting"
        BY <1>3, NoneIsNoProject DEF DeleteFiles, Locked, TypeOK, InFlight, Requests
    <2>2. dir'.kind \in {"absent", "foreign", "partial", "repo"}
        BY <1>3 DEF DeleteFiles, RemoveAll, RemoveSome, Directory, TypeOK
    <2> QED
        BY <1>3, <2>1, <2>2 DEF DeleteFiles, Users, Builds
<1>4. CASE DeleteRecord(d)
    <2>1. record # None /\ record.state = "deleting" /\ dir.kind = "absent"
        BY <1>4, NoneIsNoProject DEF DeleteRecord, Locked, TypeOK, InFlight, Requests
    <2> QED
        BY <1>4, <2>1 DEF DeleteRecord, DeleteProject, Write, Releases, Leaves
<1>5. CASE ReportFailure(d)
    <2>1. /\ snapshot[d] \in ProjectRecords /\ snapshot[d].state = "deleting"
          /\ record # None /\ record.token = snapshot[d].token => record = snapshot[d]
        BY <1>5 DEF ReportFailure, Locked, TypeOK, InFlight, Requests
    <2>2. \/ record' = record
          \/ /\ record = snapshot[d]
             /\ record' = Project(record.token, record.version + 1, "delete_failed", record.name)
             /\ record' \in ProjectRecords
        BY <1>5, <2>1, UpdateEffect DEF ReportFailure, States, ProjectRecords
    <2> QED
        BY <1>5, <2>1, <2>2, NoneIsNoProject DEF ReportFailure, Project, Updates, Leaves
<1> QED
    BY <1>1, <1>2, <1>3, <1>4, <1>5 DEF DeleteSteps

\* A start enters while the project is offered.
LEMMA StartKeepsLease ==
    ASSUME IInv, NEW s \in Starts, AcquireLock(s, "idle") \/ StartSteps(s) PROVE LeaseStep
<1> USE DEF IInv, storeVars, fileVars, execVars, LeaseStep
<1>1. CASE AcquireLock(s, "idle") \/ StartGet(s) \/ StartFiles(s)
    BY <1>1 DEF AcquireLock, StartGet, GetProject, StartFiles, Leaves
<1>2. CASE StartLaunch(s)
    <2>1. record # None /\ snapshot[s] = record /\ record.state = "ready"
        BY <1>2, NoneIsNoProject DEF StartLaunch, Locked, TypeOK, InFlight, Requests
    <2> QED
        BY <1>2, <2>1 DEF StartLaunch, Enters, Leaves
<1> QED
    BY <1>1, <1>2 DEF StartSteps

\* What happens to executions, and a crash, which may interrupt a removal.
LEMMA OthersKeepLease ==
    ASSUME IInv,
           Crash \/ (\E t \in Creates : ExecutionEnds(t) \/ ExitUnconfirmed(t)) \/ UNCHANGED vars
    PROVE  LeaseStep
<1> USE DEF IInv, storeVars, fileVars, execVars, LeaseStep
<1>1. CASE Crash /\ dir' = dir
    BY <1>1 DEF Crash, Leaves
<1>2. CASE Crash /\ dir' # dir
    <2>1. PICK q \in Requests :
            pc[q] \in {"cleanup", "remove"} /\ dir' = [dir EXCEPT !.kind = "partial"]
        BY <1>2 DEF Crash
    <2>2. record # None /\ record.state \in {"creating", "deleting"}
        BY <2>1, NoneIsNoProject
           DEF Requests, Ordered, Created, Building, Project, Locked, TypeOK,
               ProjectRecords, InFlight
    <2>3. running \cap known = {} /\ (running \cap known)' = {}
        BY <1>2, <2>2 DEF Crash, Users
    <2> QED
        BY <1>2, <2>1, <2>2, <2>3 DEF Crash, Builds, TypeOK
<1>3. CASE \E t \in Creates : ExecutionEnds(t) \/ ExitUnconfirmed(t)
    BY <1>3 DEF ExecutionEnds, ExitUnconfirmed, Leaves
<1>4. CASE UNCHANGED vars
    BY <1>4 DEF vars, Leaves
<1> QED
    BY <1>1, <1>2, <1>3, <1>4

\* Handlers, manager and store implement the lease on the ID, for any number of
\* requests and whatever fails.
THEOREM Refinement == Spec => ImplementsProjectLease
<1>1. Init => Lease!Init
    BY DEF Init, Lease!Init, Directory
<1>2. IInv /\ [Next]_vars => [Lease!Next]_(Lease!vars)
    <2> SUFFICES ASSUME IInv, [Next]_vars PROVE LeaseStep
        BY LeaseStepsRefine DEF IInv
    <2> QED
        BY CreateKeepsLease, RenameKeepsLease, DeleteKeepsLease, StartKeepsLease,
           OthersKeepLease DEF Next, Arrive, Work
<1> QED
    BY <1>1, <1>2, Inductive, PTL DEF Spec, ImplementsProjectLease, Lease!Spec
=============================================================================
