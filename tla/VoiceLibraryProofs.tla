------------------------- MODULE VoiceLibraryProofs -------------------------
(***************************************************************************)
(* Proofs about VoiceLibrary, for any number of voices, jobs, users, files,*)
(* requests and restarts.  Each conjunct of the inductive invariant IInv   *)
(* has a lemma with one step per action; then come the theorems, and at    *)
(* the end that VoiceLibrary implements Sharing.                           *)
(***************************************************************************)
EXTENDS VoiceLibrary, TLAPS

\* TypeOK in three parts: the tables and files, the requests, and the rest.
RowTypes ==
  /\ kind \in [Voices -> Kinds \cup {"absent", "deleted"}]
  /\ ref \in [Voices -> Paths \cup {NoPath}]
  /\ owner \in [Voices -> Users \cup {NoUser}]
  /\ creator \in [Voices -> Users \cup {NoUser}]
  /\ global \subseteq Voices
  /\ assigned \subseteq Voices \X Users
  /\ disk \subseteq Paths
  /\ job \in [Jobs -> {"absent", "queued", "plain", "voiced", "failed", "deleted"}]
  /\ jobUser \in [Jobs -> Users \cup {NoUser}]
  /\ jobVoice \in [Jobs -> Voices \cup {0}]

Places == {"idle", "save", "insert", "lookup", "act", "identity", "read", "write",
           "unlink", "access", "enqueue"}
HandlerTypes ==
  /\ hpc \in [Handlers -> Places]
  /\ hwho \in [Handlers -> Users \cup {NoUser}]
  /\ hop \in [Handlers -> AllOperations \cup {"none"}]
  /\ hvoice \in [Handlers -> Voices \cup {0}]
  /\ huser \in [Handlers -> Users \cup {NoUser}]
  /\ hpath \in [Handlers -> Paths \cup {NoPath}]
  /\ hadmin \subseteq Handlers
  /\ fresh \subseteq Handlers

ControlTypes ==
  /\ columns \subseteq Columns /\ legacy \in BOOLEAN
  /\ users \subseteq Users /\ admins \subseteq users
  /\ wjob \in Jobs \cup {0} /\ wvoice \in Voices \cup {0}
  /\ wpath \in Paths \cup {NoPath}
  /\ proc \in {"down", "creators", "flag", "promote", "mirror", "seed", "reconcile", "up"}
  /\ restarts \in 0..MaxRestarts /\ cut \in BOOLEAN

\* The three parts are the type invariant.
LEMMA TypeParts == TypeOK <=> RowTypes /\ HandlerTypes /\ ControlTypes
BY DEF TypeOK, RowTypes, HandlerTypes, ControlTypes, Places

\* No step gives a table or a file a wrong type.
LEMMA RowTypesStep ==
  ASSUME RowTypes, HandlerTypes, ControlTypes, Next
  PROVE  RowTypes'
<1> USE DEF RowTypes, HandlerTypes, ControlTypes, rowVars, schemaVars, userVars,
            jobVars, workerVars, handlerVars, procVars, Kinds
<1>1. ASSUME NEW h \in Handlers, NEW u \in Users, NEW o \in Operations,
             NEW v \in Voices \cup {0}, Begin(h, u, o, v)
      PROVE  RowTypes'
  BY <1>1 DEF Begin
<1>2. ASSUME NEW h \in Handlers, RequestFails(h) PROVE RowTypes'
  BY <1>2 DEF RequestFails, EndRequest
<1>3. ASSUME NEW h \in Handlers, Uploads(h) PROVE RowTypes'
  <2>1. ASSUME NEW p \in Paths, SaveReference(h, p) PROVE RowTypes'
    BY <2>1 DEF SaveReference
  <2>2. ASSUME NEW v \in Voices, InsertClone(h, v) PROVE RowTypes'
    BY <2>2 DEF InsertClone, InsertVoice, NextVoice, EndRequest
  <2> QED BY <1>3, <2>1, <2>2 DEF Uploads
<1>4. ASSUME NEW h \in Handlers, Grants(h) PROVE RowTypes'
  <2>1. CASE AssignLookup(h) BY <2>1 DEF AssignLookup, HandlerGoes
  <2>2. CASE Assign(h) BY <2>2 DEF Assign, EndRequest, Present
  <2>3. CASE ClearGrants(h) BY <2>3 DEF ClearGrants, EndRequest, Present
  <2>4. CASE SetGlobal(h) BY <2>4 DEF SetGlobal, EndRequest, Present
  <2>5. CASE Unassign(h) BY <2>5 DEF Unassign, EndRequest, Present
  <2> QED BY <1>4, <2>1, <2>2, <2>3, <2>4, <2>5 DEF Grants
<1>5. ASSUME NEW h \in Handlers, Deletes(h) PROVE RowTypes'
  <2>1. CASE Identity(h) BY <2>1 DEF Identity
  <2>2. CASE TxRead(h) BY <2>2 DEF TxRead
  <2>3. CASE DeleteVoice(h) BY <2>3 DEF DeleteVoice, DeleteRows, HandlerGoes
  <2>4. CASE Unlink(h) BY <2>4 DEF Unlink, EndRequest
  <2> QED BY <1>5, <2>1, <2>2, <2>3, <2>4 DEF Deletes
<1>6. ASSUME NEW h \in Handlers, CreatesJob(h) PROVE RowTypes'
  <2>1. CASE CheckAccess(h) BY <2>1 DEF CheckAccess, HandlerGoes
  <2>2. ASSUME NEW j \in Jobs, Enqueue(h, j) PROVE RowTypes'
    BY <2>2 DEF Enqueue, EndRequest, Present
  <2> QED BY <1>6, <2>1, <2>2 DEF CreatesJob
<1>7. ASSUME NEW u \in Users, RemoveUser(u) PROVE RowTypes'
  BY <1>7 DEF RemoveUser
<1>8. ASSUME NEW u \in Users, SetRole(u) PROVE RowTypes'
  BY <1>8 DEF SetRole
<1>9. CASE Worker
  <2>1. ASSUME NEW j \in Jobs, Claim(j) PROVE RowTypes'
    BY <2>1 DEF Claim
  <2>2. CASE ReferenceRow BY <2>2 DEF ReferenceRow
  <2>3. CASE SubmitPlain BY <2>3 DEF SubmitPlain, Decide, WorkerEnds
  <2>4. CASE SubmitVoiced BY <2>4 DEF SubmitVoiced, Decide, WorkerEnds
  <2>5. CASE FailUnreadable BY <2>5 DEF FailUnreadable, Decide, WorkerEnds
  <2>6. CASE Retry BY <2>6 DEF Retry, WorkerEnds
  <2> QED BY <1>9, <2>1, <2>2, <2>3, <2>4, <2>5, <2>6 DEF Worker
<1>10. CASE Start
  <2>1. CASE AddCreator BY <2>1 DEF AddCreator, StartGoes
  <2>2. CASE BackfillCreators BY <2>2 DEF BackfillCreators, StartGoes
  <2>3. CASE AddGlobal BY <2>3 DEF AddGlobal, StartGoes
  <2>4. CASE PromoteStock BY <2>4 DEF PromoteStock, StartGoes, Of
  <2>5. CASE BackfillOwners BY <2>5 DEF BackfillOwners, StartGoes
  <2>6. CASE SeedStock BY <2>6 DEF SeedStock, InsertVoice, NextVoice, StartGoes
  <2>7. CASE Reconcile BY <2>7 DEF Reconcile, DeleteRows, StartGoes
  <2> QED BY <1>10, <2>1, <2>2, <2>3, <2>4, <2>5, <2>6, <2>7 DEF Start
<1>11. CASE Down BY <1>11 DEF Down, WorkerEnds
<1> QED BY <1>1, <1>2, <1>3, <1>4, <1>5, <1>6, <1>7, <1>8, <1>9, <1>10, <1>11
    DEF Next, Begins

\* No step gives a request a value of the wrong type.
LEMMA HandlerTypesStep ==
  ASSUME RowTypes, HandlerTypes, ControlTypes, Next
  PROVE  HandlerTypes'
<1> USE DEF HandlerTypes, ControlTypes, Places, Commits, handlerVars
<1>1. ASSUME NEW h \in Handlers, NEW u \in Users, NEW o \in Operations,
             NEW v \in Voices \cup {0}, Begin(h, u, o, v)
      PROVE  HandlerTypes'
  <2> USE <1>1 DEF Begin
  <2>1. o \in AllOperations BY LibraryAssumption
  <2>2. First[o] \in Places BY <2>1 DEF First, AllOperations, AdminOps
  <2>3. hpc' \in [Handlers -> Places] BY <2>2
  <2>4. huser' \in [Handlers -> Users \cup {NoUser}]
    <3> DEFINE targets == IF o \in {"assign", "unassign"} THEN Users ELSE {NoUser}
    <3>1. PICK t \in targets : huser' = [huser EXCEPT ![h] = t] OBVIOUS
    <3>2. t \in Users \cup {NoUser} OBVIOUS
    <3> QED BY <3>1, <3>2
  <2>5. hop' \in [Handlers -> AllOperations \cup {"none"}] BY <2>1
  <2>6. hvoice' \in [Handlers -> Voices \cup {0}] OBVIOUS
  <2>7. hwho' \in [Handlers -> Users \cup {NoUser}]
    <3>1. u \in Users \cup {NoUser} OBVIOUS
    <3> QED BY <3>1
  <2>8. hadmin' \subseteq Handlers /\ UNCHANGED <<hpath, fresh>> OBVIOUS
  <2> QED BY <2>3, <2>4, <2>5, <2>6, <2>7, <2>8
<1>2. ASSUME NEW h \in Handlers, RequestFails(h) PROVE HandlerTypes'
  BY <1>2 DEF RequestFails, EndRequest
<1>3. ASSUME NEW h \in Handlers, Uploads(h) PROVE HandlerTypes'
  <2>1. ASSUME NEW p \in Paths, SaveReference(h, p) PROVE HandlerTypes'
    BY <2>1 DEF SaveReference
  <2>2. ASSUME NEW v \in Voices, InsertClone(h, v) PROVE HandlerTypes'
    BY <2>2 DEF InsertClone, InsertVoice, NextVoice, EndRequest
  <2> QED BY <1>3, <2>1, <2>2 DEF Uploads
<1>4. ASSUME NEW h \in Handlers, Grants(h) PROVE HandlerTypes'
  <2>1. CASE AssignLookup(h) BY <2>1 DEF AssignLookup, HandlerGoes
  <2>2. CASE Assign(h) BY <2>2 DEF Assign, EndRequest
  <2>3. CASE ClearGrants(h) BY <2>3 DEF ClearGrants, EndRequest
  <2>4. CASE SetGlobal(h) BY <2>4 DEF SetGlobal, EndRequest
  <2>5. CASE Unassign(h) BY <2>5 DEF Unassign, EndRequest
  <2> QED BY <1>4, <2>1, <2>2, <2>3, <2>4, <2>5 DEF Grants
<1>5. ASSUME NEW h \in Handlers, Deletes(h) PROVE HandlerTypes'
  <2>1. CASE Identity(h) BY <2>1 DEF Identity
  <2>2. CASE TxRead(h) BY <2>2 DEF TxRead, RowTypes, Present
  <2>3. CASE DeleteVoice(h) BY <2>3 DEF DeleteVoice, DeleteRows, HandlerGoes
  <2>4. CASE Unlink(h) BY <2>4 DEF Unlink, EndRequest
  <2> QED BY <1>5, <2>1, <2>2, <2>3, <2>4 DEF Deletes
<1>6. ASSUME NEW h \in Handlers, CreatesJob(h) PROVE HandlerTypes'
  <2>1. CASE CheckAccess(h) BY <2>1 DEF CheckAccess, HandlerGoes
  <2>2. ASSUME NEW j \in Jobs, Enqueue(h, j) PROVE HandlerTypes'
    BY <2>2 DEF Enqueue, EndRequest
  <2> QED BY <1>6, <2>1, <2>2 DEF CreatesJob
<1>7. ASSUME NEW u \in Users, RemoveUser(u) PROVE HandlerTypes'
  BY <1>7 DEF RemoveUser
<1>8. ASSUME NEW u \in Users, SetRole(u) PROVE HandlerTypes'
  BY <1>8 DEF SetRole
<1>9. CASE Worker
  BY <1>9 DEF Worker, Claim, ReferenceRow, SubmitPlain, Decide, WorkerEnds, SubmitVoiced,
      FailUnreadable, Retry
<1>10. CASE Start
  BY <1>10 DEF Start, AddCreator, StartGoes, BackfillCreators, AddGlobal, PromoteStock,
      BackfillOwners, SeedStock, InsertVoice, NextVoice, Reconcile, DeleteRows
<1>11. CASE Down BY <1>11 DEF Down, WorkerEnds
<1> QED BY <1>1, <1>2, <1>3, <1>4, <1>5, <1>6, <1>7, <1>8, <1>9, <1>10, <1>11
    DEF Next, Begins

\* No step gives the schema, the accounts, the worker or the process a wrong type.
LEMMA ControlTypesStep ==
  ASSUME RowTypes, HandlerTypes, ControlTypes, Next
  PROVE  ControlTypes'
<1> USE DEF ControlTypes, Columns, schemaVars, userVars, workerVars, procVars
<1>1. ASSUME NEW h \in Handlers, NEW u \in Users, NEW o \in Operations,
             NEW v \in Voices \cup {0}, Begin(h, u, o, v)
      PROVE  ControlTypes'
  BY <1>1 DEF Begin
<1>2. ASSUME NEW h \in Handlers, RequestFails(h) PROVE ControlTypes'
  BY <1>2 DEF RequestFails, EndRequest
<1>3. ASSUME NEW h \in Handlers, Uploads(h) PROVE ControlTypes'
  BY <1>3, ZenonT(30) DEF Uploads, SaveReference, InsertClone, InsertVoice, NextVoice, EndRequest
<1>4. ASSUME NEW h \in Handlers, Grants(h) PROVE ControlTypes'
  BY <1>4 DEF Grants, AssignLookup, HandlerGoes, Assign, EndRequest, ClearGrants, SetGlobal,
      Unassign
<1>5. ASSUME NEW h \in Handlers, Deletes(h) PROVE ControlTypes'
  BY <1>5 DEF Deletes, Identity, TxRead, DeleteVoice, DeleteRows, HandlerGoes, Unlink,
      EndRequest
<1>6. ASSUME NEW h \in Handlers, CreatesJob(h) PROVE ControlTypes'
  BY <1>6, ZenonT(30) DEF CreatesJob, CheckAccess, HandlerGoes, Enqueue, EndRequest
<1>7. ASSUME NEW u \in Users, RemoveUser(u) PROVE ControlTypes'
  BY <1>7 DEF RemoveUser
<1>8. ASSUME NEW u \in Users, SetRole(u) PROVE ControlTypes'
  BY <1>8 DEF SetRole
<1>9. CASE Worker
  <2>1. ASSUME NEW j \in Jobs, Claim(j) PROVE ControlTypes'
    BY <2>1 DEF Claim, RowTypes
  <2>2. CASE ReferenceRow BY <2>2 DEF ReferenceRow, RowTypes, HasReference, Present
  <2>3. CASE SubmitPlain BY <2>3 DEF SubmitPlain, Decide, WorkerEnds
  <2>4. CASE SubmitVoiced BY <2>4 DEF SubmitVoiced, Decide, WorkerEnds
  <2>5. CASE FailUnreadable BY <2>5 DEF FailUnreadable, Decide, WorkerEnds
  <2>6. CASE Retry BY <2>6 DEF Retry, WorkerEnds
  <2> QED BY <1>9, <2>1, <2>2, <2>3, <2>4, <2>5, <2>6 DEF Worker
<1>10. CASE Start
  <2>1. CASE AddCreator BY <2>1 DEF AddCreator, StartGoes
  <2>2. CASE BackfillCreators BY <2>2 DEF BackfillCreators, StartGoes
  <2>3. CASE AddGlobal BY <2>3 DEF AddGlobal, StartGoes
  <2>4. CASE PromoteStock BY <2>4 DEF PromoteStock, StartGoes
  <2>5. CASE BackfillOwners BY <2>5 DEF BackfillOwners, StartGoes
  <2>6. CASE SeedStock BY <2>6 DEF SeedStock, InsertVoice, NextVoice, StartGoes
  <2>7. CASE Reconcile BY <2>7 DEF Reconcile, DeleteRows, StartGoes
  <2> QED BY <1>10, <2>1, <2>2, <2>3, <2>4, <2>5, <2>6, <2>7 DEF Start
<1>11. CASE Down BY <1>11, LibraryAssumption DEF Down, WorkerEnds
<1> QED BY <1>1, <1>2, <1>3, <1>4, <1>5, <1>6, <1>7, <1>8, <1>9, <1>10, <1>11
    DEF Next, Begins

\* What the columns that exist say of a start: creators are filled in only on an
\* older database, and both columns are there once the assignments are.
Schema ==
  /\ proc # "down" => "creator" \in columns
  /\ proc \notin {"down", "creators", "flag"} => columns = Columns
  /\ ~legacy => columns = Columns
  /\ proc = "creators" => legacy
  /\ proc \in {"seed", "reconcile", "up"} => ~legacy

\* No step of a start goes astray.
LEMMA SchemaStep == ASSUME ControlTypes, Schema, Next PROVE Schema'
<1> USE DEF ControlTypes, Schema, Columns, schemaVars, procVars
<1>1. ASSUME NEW h \in Handlers, NEW u \in Users, NEW o \in Operations,
             NEW v \in Voices \cup {0}, Begin(h, u, o, v)
      PROVE  Schema'
  BY <1>1 DEF Begin
<1>2. ASSUME NEW h \in Handlers, RequestFails(h) PROVE Schema'
  BY <1>2 DEF RequestFails, EndRequest
<1>3. ASSUME NEW h \in Handlers, Uploads(h) PROVE Schema'
  BY <1>3 DEF Uploads, SaveReference, InsertClone, InsertVoice, NextVoice, EndRequest
<1>4. ASSUME NEW h \in Handlers, Grants(h) PROVE Schema'
  BY <1>4 DEF Grants, AssignLookup, HandlerGoes, Assign, EndRequest, ClearGrants, SetGlobal,
      Unassign
<1>5. ASSUME NEW h \in Handlers, Deletes(h) PROVE Schema'
  BY <1>5 DEF Deletes, Identity, TxRead, DeleteVoice, DeleteRows, HandlerGoes, Unlink,
      EndRequest
<1>6. ASSUME NEW h \in Handlers, CreatesJob(h) PROVE Schema'
  BY <1>6 DEF CreatesJob, CheckAccess, HandlerGoes, Enqueue, EndRequest
<1>7. ASSUME NEW u \in Users, RemoveUser(u) PROVE Schema'
  BY <1>7 DEF RemoveUser
<1>8. ASSUME NEW u \in Users, SetRole(u) PROVE Schema'
  BY <1>8 DEF SetRole
<1>9. CASE Worker
  BY <1>9 DEF Worker, Claim, ReferenceRow, SubmitPlain, Decide, WorkerEnds, SubmitVoiced,
      FailUnreadable, Retry
<1>10. CASE Start
  <2>1. CASE AddCreator BY <2>1 DEF AddCreator, StartGoes
  <2>2. CASE BackfillCreators BY <2>2 DEF BackfillCreators, StartGoes
  <2>3. CASE AddGlobal BY <2>3 DEF AddGlobal, StartGoes
  <2>4. CASE PromoteStock BY <2>4 DEF PromoteStock, StartGoes
  <2>5. CASE BackfillOwners BY <2>5 DEF BackfillOwners, StartGoes
  <2>6. CASE SeedStock BY <2>6 DEF SeedStock, InsertVoice, NextVoice, StartGoes
  <2>7. CASE Reconcile BY <2>7 DEF Reconcile, DeleteRows, StartGoes
  <2> QED BY <1>10, <2>1, <2>2, <2>3, <2>4, <2>5, <2>6, <2>7 DEF Start
<1>11. CASE Down BY <1>11 DEF Down, WorkerEnds
<1> QED BY <1>1, <1>2, <1>3, <1>4, <1>5, <1>6, <1>7, <1>8, <1>9, <1>10, <1>11
    DEF Next, Begins

-----------------------------------------------------------------------------
(* Rows and files.                                                          *)

\* What a request holds on disk, or is about to remove from it.
Holds(h) == hpc[h] \in {"insert", "unlink"}

\* A clone has its file and nothing else does; no two rows share one, nor a row
\* and a request that will unlink it, nor an upload and another request.
Files ==
  /\ \A v \in Voices : IF kind[v] = "cloned" THEN ref[v] \in disk ELSE ref[v] = NoPath
  /\ \A v, w \in Voices : ref[v] = ref[w] /\ ref[v] # NoPath => v = w
  /\ \A h \in Handlers : hpc[h] = "insert" => hpath[h] \in disk
  /\ \A h \in Handlers : Holds(h) => hpath[h] # NoPath /\ \A v \in Voices : ref[v] # hpath[h]
  /\ \A g, h \in Handlers : hpc[g] = "insert" /\ Holds(h) /\ hpath[g] = hpath[h] => g = h

\* What an open snapshot that is still the database knows: the checks of the
\* transaction hold of it, and the path of a deletion is that of the row.
Knows(h) ==
  /\ hpc[h] = "write" /\ Present(hvoice[h])
  /\ hop[h] # "unassign" => MayDelete(h) /\ hpath[h] = ref[hvoice[h]]
Snapshots == \A h \in fresh : Knows(h)

\* No step separates a row from its file.
LEMMA FilesStep ==
  ASSUME RowTypes, HandlerTypes, Files, Snapshots, Next
  PROVE  Files'
<1> USE LibraryAssumption DEF RowTypes, HandlerTypes, Files, Holds, Kinds, rowVars, handlerVars
<1>1. ASSUME NEW h \in Handlers, NEW u \in Users, NEW o \in Operations,
             NEW v \in Voices \cup {0}, Begin(h, u, o, v)
      PROVE  Files'
  <2>1. First[o] \notin {"idle", "insert", "unlink"}
    BY LibraryAssumption DEF First, AllOperations, AdminOps
  <2>2. /\ UNCHANGED <<kind, ref, disk, hpath>>
        /\ \A g \in Handlers : g # h => hpc'[g] = hpc[g]
        /\ hpc'[h] = First[o]
    BY <1>1 DEF Begin
  <2> QED BY <2>1, <2>2
<1>2. ASSUME NEW h \in Handlers, RequestFails(h) PROVE Files'
  BY <1>2 DEF RequestFails, EndRequest
<1>3. ASSUME NEW h \in Handlers, Uploads(h) PROVE Files'
  <2>1. ASSUME NEW p \in Paths, SaveReference(h, p) PROVE Files'
    BY <2>1 DEF SaveReference
  <2>2. ASSUME NEW v \in Voices, InsertClone(h, v) PROVE Files'
    BY <2>2 DEF InsertClone, InsertVoice, NextVoice, EndRequest
  <2> QED BY <1>3, <2>1, <2>2 DEF Uploads
<1>4. ASSUME NEW h \in Handlers, Grants(h) PROVE Files'
  <2>1. CASE AssignLookup(h) BY <2>1 DEF AssignLookup, HandlerGoes
  <2>2. CASE Assign(h) BY <2>2 DEF Assign, EndRequest
  <2>3. CASE ClearGrants(h) BY <2>3 DEF ClearGrants, EndRequest
  <2>4. CASE SetGlobal(h) BY <2>4 DEF SetGlobal, EndRequest
  <2>5. CASE Unassign(h) BY <2>5 DEF Unassign, EndRequest
  <2> QED BY <1>4, <2>1, <2>2, <2>3, <2>4, <2>5 DEF Grants
<1>5. ASSUME NEW h \in Handlers, Deletes(h) PROVE Files'
  <2>1. CASE Identity(h) BY <2>1 DEF Identity
  <2>2. CASE TxRead(h) BY <2>2 DEF TxRead
  <2>3. CASE DeleteVoice(h)
    BY <2>3 DEF DeleteVoice, DeleteRows, HandlerGoes, Snapshots, Knows, Present, MayDelete
  <2>4. CASE Unlink(h) BY <2>4 DEF Unlink, EndRequest
  <2> QED BY <1>5, <2>1, <2>2, <2>3, <2>4 DEF Deletes
<1>6. ASSUME NEW h \in Handlers, CreatesJob(h) PROVE Files'
  <2>1. CASE CheckAccess(h) BY <2>1 DEF CheckAccess, HandlerGoes
  <2>2. ASSUME NEW j \in Jobs, Enqueue(h, j) PROVE Files'
    BY <2>2 DEF Enqueue, EndRequest
  <2> QED BY <1>6, <2>1, <2>2 DEF CreatesJob
<1>7. ASSUME NEW u \in Users, RemoveUser(u) PROVE Files'
  BY <1>7 DEF RemoveUser
<1>8. ASSUME NEW u \in Users, SetRole(u) PROVE Files'
  BY <1>8 DEF SetRole
<1>9. CASE Worker
  BY <1>9 DEF Worker, Claim, ReferenceRow, SubmitPlain, Decide, WorkerEnds, SubmitVoiced,
      FailUnreadable, Retry
<1>10. CASE Start
  <2>1. CASE AddCreator BY <2>1 DEF AddCreator, StartGoes
  <2>2. CASE BackfillCreators BY <2>2 DEF BackfillCreators, StartGoes
  <2>3. CASE AddGlobal BY <2>3 DEF AddGlobal, StartGoes
  <2>4. CASE PromoteStock BY <2>4 DEF PromoteStock, StartGoes
  <2>5. CASE BackfillOwners BY <2>5 DEF BackfillOwners, StartGoes
  <2>6. CASE SeedStock BY <2>6 DEF SeedStock, InsertVoice, NextVoice, StartGoes
  <2>7. CASE Reconcile BY <2>7 DEF Reconcile, DeleteRows, StartGoes, Of
  <2> QED BY <1>10, <2>1, <2>2, <2>3, <2>4, <2>5, <2>6, <2>7 DEF Start
<1>11. CASE Down BY <1>11 DEF Down, WorkerEnds
<1> QED BY <1>1, <1>2, <1>3, <1>4, <1>5, <1>6, <1>7, <1>8, <1>9, <1>10, <1>11
    DEF Next, Begins

\* No step makes a snapshot that is still the database wrong about it.
LEMMA SnapshotsStep ==
  ASSUME RowTypes, HandlerTypes, Snapshots, Next
  PROVE  Snapshots'
<1> USE DEF HandlerTypes, Snapshots, Knows, Present, MayDelete, Commits, rowVars, handlerVars
<1>1. ASSUME NEW h \in Handlers, NEW u \in Users, NEW o \in Operations,
             NEW v \in Voices \cup {0}, Begin(h, u, o, v)
      PROVE  Snapshots'
  BY <1>1 DEF Begin
<1>2. ASSUME NEW h \in Handlers, RequestFails(h) PROVE Snapshots'
  BY <1>2 DEF RequestFails, EndRequest
<1>3. ASSUME NEW h \in Handlers, Uploads(h) PROVE Snapshots'
  <2>1. ASSUME NEW p \in Paths, SaveReference(h, p) PROVE Snapshots'
    BY <2>1 DEF SaveReference
  <2>2. ASSUME NEW v \in Voices, InsertClone(h, v) PROVE Snapshots'
    BY <2>2 DEF InsertClone, InsertVoice, NextVoice, EndRequest
  <2> QED BY <1>3, <2>1, <2>2 DEF Uploads
<1>4. ASSUME NEW h \in Handlers, Grants(h) PROVE Snapshots'
  <2>1. CASE AssignLookup(h) BY <2>1 DEF AssignLookup, HandlerGoes
  <2>2. CASE Assign(h) BY <2>2 DEF Assign, EndRequest
  <2>3. CASE ClearGrants(h) BY <2>3 DEF ClearGrants, EndRequest
  <2>4. CASE SetGlobal(h) BY <2>4 DEF SetGlobal, EndRequest
  <2>5. CASE Unassign(h) BY <2>5 DEF Unassign, EndRequest
  <2> QED BY <1>4, <2>1, <2>2, <2>3, <2>4, <2>5 DEF Grants
<1>5. ASSUME NEW h \in Handlers, Deletes(h) PROVE Snapshots'
  <2>1. CASE Identity(h) BY <2>1 DEF Identity
  <2>2. CASE TxRead(h) BY <2>2 DEF TxRead, Present
  <2>3. CASE DeleteVoice(h) BY <2>3 DEF DeleteVoice, DeleteRows, HandlerGoes
  <2>4. CASE Unlink(h) BY <2>4 DEF Unlink, EndRequest
  <2> QED BY <1>5, <2>1, <2>2, <2>3, <2>4 DEF Deletes
<1>6. ASSUME NEW h \in Handlers, CreatesJob(h) PROVE Snapshots'
  <2>1. CASE CheckAccess(h) BY <2>1 DEF CheckAccess, HandlerGoes
  <2>2. ASSUME NEW j \in Jobs, Enqueue(h, j) PROVE Snapshots'
    BY <2>2 DEF Enqueue, EndRequest
  <2> QED BY <1>6, <2>1, <2>2 DEF CreatesJob
<1>7. ASSUME NEW u \in Users, RemoveUser(u) PROVE Snapshots'
  BY <1>7 DEF RemoveUser
<1>8. ASSUME NEW u \in Users, SetRole(u) PROVE Snapshots'
  BY <1>8 DEF SetRole
<1>9. CASE Worker
  BY <1>9 DEF Worker, Claim, ReferenceRow, SubmitPlain, Decide, WorkerEnds, SubmitVoiced,
      FailUnreadable, Retry
<1>10. CASE Start
  BY <1>10 DEF Start, AddCreator, StartGoes, BackfillCreators, AddGlobal, PromoteStock,
      BackfillOwners, SeedStock, InsertVoice, NextVoice, Reconcile, DeleteRows
<1>11. CASE Down BY <1>11 DEF Down, WorkerEnds
<1> QED BY <1>1, <1>2, <1>3, <1>4, <1>5, <1>6, <1>7, <1>8, <1>9, <1>10, <1>11
    DEF Next, Begins

\* Without a crash, every file belongs to a row or to a request that holds it.
Owned(p) == \/ \E v \in Voices : ref[v] = p
            \/ \E h \in Handlers : Holds(h) /\ hpath[h] = p
Orphans == ~cut => \A p \in disk : Owned(p)

\* No step but a crash leaves a file behind.
LEMMA OrphansStep ==
  ASSUME RowTypes, HandlerTypes, ControlTypes, Files, Snapshots, Orphans, Next
  PROVE  Orphans'
<1> USE LibraryAssumption DEF RowTypes, HandlerTypes, ControlTypes, Orphans, Owned,
        Holds, Kinds, rowVars, handlerVars, procVars
<1>1. ASSUME NEW h \in Handlers, NEW u \in Users, NEW o \in Operations,
             NEW v \in Voices \cup {0}, Begin(h, u, o, v)
      PROVE  Orphans'
  BY <1>1 DEF Begin
<1>2. ASSUME NEW h \in Handlers, RequestFails(h) PROVE Orphans'
  BY <1>2 DEF RequestFails, EndRequest
<1>3. ASSUME NEW h \in Handlers, Uploads(h) PROVE Orphans'
  <2>1. ASSUME NEW p \in Paths, SaveReference(h, p) PROVE Orphans'
    BY <2>1 DEF SaveReference
  <2>2. ASSUME NEW v \in Voices, InsertClone(h, v) PROVE Orphans'
    BY <2>2 DEF InsertClone, InsertVoice, NextVoice, EndRequest, Files
  <2> QED BY <1>3, <2>1, <2>2 DEF Uploads
<1>4. ASSUME NEW h \in Handlers, Grants(h) PROVE Orphans'
  <2>1. CASE AssignLookup(h) BY <2>1 DEF AssignLookup, HandlerGoes
  <2>2. CASE Assign(h) BY <2>2 DEF Assign, EndRequest
  <2>3. CASE ClearGrants(h) BY <2>3 DEF ClearGrants, EndRequest
  <2>4. CASE SetGlobal(h) BY <2>4 DEF SetGlobal, EndRequest
  <2>5. CASE Unassign(h) BY <2>5 DEF Unassign, EndRequest
  <2> QED BY <1>4, <2>1, <2>2, <2>3, <2>4, <2>5 DEF Grants
<1>5. ASSUME NEW h \in Handlers, Deletes(h) PROVE Orphans'
  <2>1. CASE Identity(h) BY <2>1 DEF Identity
  <2>2. CASE TxRead(h) BY <2>2 DEF TxRead
  <2>3. CASE DeleteVoice(h)
    BY <2>3 DEF DeleteVoice, DeleteRows, HandlerGoes, Files, Snapshots, Knows, Present, MayDelete
  <2>4. CASE Unlink(h) BY <2>4 DEF Unlink, EndRequest
  <2> QED BY <1>5, <2>1, <2>2, <2>3, <2>4 DEF Deletes
<1>6. ASSUME NEW h \in Handlers, CreatesJob(h) PROVE Orphans'
  <2>1. CASE CheckAccess(h) BY <2>1 DEF CheckAccess, HandlerGoes
  <2>2. ASSUME NEW j \in Jobs, Enqueue(h, j) PROVE Orphans'
    BY <2>2 DEF Enqueue, EndRequest
  <2> QED BY <1>6, <2>1, <2>2 DEF CreatesJob
<1>7. ASSUME NEW u \in Users, RemoveUser(u) PROVE Orphans'
  BY <1>7 DEF RemoveUser
<1>8. ASSUME NEW u \in Users, SetRole(u) PROVE Orphans'
  BY <1>8 DEF SetRole
<1>9. CASE Worker
  BY <1>9 DEF Worker, Claim, ReferenceRow, SubmitPlain, Decide, WorkerEnds, SubmitVoiced,
      FailUnreadable, Retry
<1>10. CASE Start
  <2>1. CASE AddCreator BY <2>1 DEF AddCreator, StartGoes
  <2>2. CASE BackfillCreators BY <2>2 DEF BackfillCreators, StartGoes
  <2>3. CASE AddGlobal BY <2>3 DEF AddGlobal, StartGoes
  <2>4. CASE PromoteStock BY <2>4 DEF PromoteStock, StartGoes
  <2>5. CASE BackfillOwners BY <2>5 DEF BackfillOwners, StartGoes
  <2>6. CASE SeedStock BY <2>6 DEF SeedStock, InsertVoice, NextVoice, StartGoes, Files
  <2>7. CASE Reconcile BY <2>7 DEF Reconcile, DeleteRows, StartGoes, Of, Files
  <2> QED BY <1>10, <2>1, <2>2, <2>3, <2>4, <2>5, <2>6, <2>7 DEF Start
<1>11. CASE Down BY <1>11 DEF Down, WorkerEnds
<1> QED BY <1>1, <1>2, <1>3, <1>4, <1>5, <1>6, <1>7, <1>8, <1>9, <1>10, <1>11
    DEF Next, Begins

-----------------------------------------------------------------------------
(* Access and authorship.                                                   *)

\* Once a start has copied the owners into the assignments, an owner is
\* assigned: the next start has nothing to add.
Mirror ==
  ~legacy => \A v \in Voices : owner[v] # NoUser => <<v, owner[v]>> \in assigned

\* No step leaves an owner without the assignment.
LEMMA MirrorStep ==
  ASSUME RowTypes, HandlerTypes, ControlTypes, Mirror, Next
  PROVE  Mirror'
<1> USE LibraryAssumption DEF RowTypes, HandlerTypes, ControlTypes,
        Mirror, Kinds, rowVars, schemaVars
<1>1. ASSUME NEW h \in Handlers, NEW u \in Users, NEW o \in Operations,
             NEW v \in Voices \cup {0}, Begin(h, u, o, v)
      PROVE  Mirror'
  BY <1>1 DEF Begin
<1>2. ASSUME NEW h \in Handlers, RequestFails(h) PROVE Mirror'
  BY <1>2 DEF RequestFails, EndRequest
<1>3. ASSUME NEW h \in Handlers, Uploads(h) PROVE Mirror'
  <2>1. ASSUME NEW p \in Paths, SaveReference(h, p) PROVE Mirror'
    BY <2>1 DEF SaveReference
  <2>2. ASSUME NEW v \in Voices, InsertClone(h, v) PROVE Mirror'
    BY <2>2 DEF InsertClone, InsertVoice, NextVoice, EndRequest
  <2> QED BY <1>3, <2>1, <2>2 DEF Uploads
<1>4. ASSUME NEW h \in Handlers, Grants(h) PROVE Mirror'
  <2>1. CASE AssignLookup(h) BY <2>1 DEF AssignLookup, HandlerGoes
  <2>2. CASE Assign(h) BY <2>2 DEF Assign, EndRequest
  <2>3. CASE ClearGrants(h) BY <2>3 DEF ClearGrants, EndRequest
  <2>4. CASE SetGlobal(h) BY <2>4 DEF SetGlobal, EndRequest
  <2>5. CASE Unassign(h) BY <2>5 DEF Unassign, EndRequest
  <2> QED BY <1>4, <2>1, <2>2, <2>3, <2>4, <2>5 DEF Grants
<1>5. ASSUME NEW h \in Handlers, Deletes(h) PROVE Mirror'
  <2>1. CASE Identity(h) BY <2>1 DEF Identity
  <2>2. CASE TxRead(h) BY <2>2 DEF TxRead
  <2>3. CASE DeleteVoice(h) BY <2>3 DEF DeleteVoice, DeleteRows, HandlerGoes
  <2>4. CASE Unlink(h) BY <2>4 DEF Unlink, EndRequest
  <2> QED BY <1>5, <2>1, <2>2, <2>3, <2>4 DEF Deletes
<1>6. ASSUME NEW h \in Handlers, CreatesJob(h) PROVE Mirror'
  BY <1>6 DEF CreatesJob, CheckAccess, HandlerGoes, Enqueue, EndRequest
<1>7. ASSUME NEW u \in Users, RemoveUser(u) PROVE Mirror'
  BY <1>7 DEF RemoveUser
<1>8. ASSUME NEW u \in Users, SetRole(u) PROVE Mirror'
  BY <1>8 DEF SetRole
<1>9. CASE Worker
  BY <1>9 DEF Worker, Claim, ReferenceRow, SubmitPlain, Decide, WorkerEnds, SubmitVoiced,
      FailUnreadable, Retry
<1>10. CASE Start
  <2>1. CASE AddCreator BY <2>1 DEF AddCreator, StartGoes
  <2>2. CASE BackfillCreators BY <2>2 DEF BackfillCreators, StartGoes
  <2>3. CASE AddGlobal BY <2>3 DEF AddGlobal, StartGoes
  <2>4. CASE PromoteStock BY <2>4 DEF PromoteStock, StartGoes
  <2>5. CASE BackfillOwners BY <2>5 DEF BackfillOwners, StartGoes
  <2>6. CASE SeedStock BY <2>6 DEF SeedStock, InsertVoice, NextVoice, StartGoes
  <2>7. CASE Reconcile BY <2>7 DEF Reconcile, DeleteRows, StartGoes
  <2> QED BY <1>10, <2>1, <2>2, <2>3, <2>4, <2>5, <2>6, <2>7 DEF Start
<1>11. CASE Down BY <1>11 DEF Down, WorkerEnds
<1> QED BY <1>1, <1>2, <1>3, <1>4, <1>5, <1>6, <1>7, <1>8, <1>9, <1>10, <1>11
    DEF Next, Begins

-----------------------------------------------------------------------------
(* The worker.                                                              *)

\* The job at hand is a row that exists, of the voice it was claimed with, and
\* the path the worker read is that of the voice while it is in the library.
Hearing ==
  /\ wjob = 0 => wpath = NoPath
  /\ wjob # 0 => /\ job[wjob] # "absent"
                 /\ job[wjob] = "queued" => jobVoice[wjob] \in {0, wvoice}
  /\ wpath # NoPath => /\ wvoice \in Voices /\ kind[wvoice] # "absent"
                       /\ kind[wvoice] = "cloned" => ref[wvoice] = wpath

\* No step makes the worker's copy wrong about a voice that is there.
LEMMA HearingStep ==
  ASSUME RowTypes, HandlerTypes, ControlTypes, Hearing, Next
  PROVE  Hearing'
<1> USE LibraryAssumption DEF RowTypes, HandlerTypes, ControlTypes,
        Hearing, Kinds, rowVars, jobVars, workerVars
<1>1. ASSUME NEW h \in Handlers, NEW u \in Users, NEW o \in Operations,
             NEW v \in Voices \cup {0}, Begin(h, u, o, v)
      PROVE  Hearing'
  BY <1>1 DEF Begin
<1>2. ASSUME NEW h \in Handlers, RequestFails(h) PROVE Hearing'
  BY <1>2 DEF RequestFails, EndRequest
<1>3. ASSUME NEW h \in Handlers, Uploads(h) PROVE Hearing'
  <2>1. ASSUME NEW p \in Paths, SaveReference(h, p) PROVE Hearing'
    BY <2>1 DEF SaveReference
  <2>2. ASSUME NEW v \in Voices, InsertClone(h, v) PROVE Hearing'
    BY <2>2 DEF InsertClone, InsertVoice, NextVoice, EndRequest
  <2> QED BY <1>3, <2>1, <2>2 DEF Uploads
<1>4. ASSUME NEW h \in Handlers, Grants(h) PROVE Hearing'
  BY <1>4 DEF Grants, AssignLookup, HandlerGoes, Assign, EndRequest, ClearGrants, SetGlobal,
      Unassign
<1>5. ASSUME NEW h \in Handlers, Deletes(h) PROVE Hearing'
  <2>1. CASE Identity(h) BY <2>1 DEF Identity
  <2>2. CASE TxRead(h) BY <2>2 DEF TxRead
  <2>3. CASE DeleteVoice(h) BY <2>3 DEF DeleteVoice, DeleteRows, HandlerGoes
  <2>4. CASE Unlink(h) BY <2>4 DEF Unlink, EndRequest
  <2> QED BY <1>5, <2>1, <2>2, <2>3, <2>4 DEF Deletes
<1>6. ASSUME NEW h \in Handlers, CreatesJob(h) PROVE Hearing'
  BY <1>6 DEF CreatesJob, CheckAccess, HandlerGoes, Enqueue, EndRequest
<1>7. ASSUME NEW u \in Users, RemoveUser(u) PROVE Hearing'
  BY <1>7 DEF RemoveUser
<1>8. ASSUME NEW u \in Users, SetRole(u) PROVE Hearing'
  BY <1>8 DEF SetRole
<1>9. CASE Worker
  <2>1. ASSUME NEW j \in Jobs, Claim(j) PROVE Hearing'
    BY <2>1 DEF Claim
  <2>2. CASE ReferenceRow BY <2>2 DEF ReferenceRow, HasReference, Present
  <2>3. CASE SubmitPlain BY <2>3 DEF SubmitPlain, Decide, WorkerEnds
  <2>4. CASE SubmitVoiced BY <2>4 DEF SubmitVoiced, Decide, WorkerEnds
  <2>5. CASE FailUnreadable BY <2>5 DEF FailUnreadable, Decide, WorkerEnds
  <2>6. CASE Retry BY <2>6 DEF Retry, WorkerEnds
  <2> QED BY <1>9, <2>1, <2>2, <2>3, <2>4, <2>5, <2>6 DEF Worker
<1>10. CASE Start
  <2>1. CASE AddCreator BY <2>1 DEF AddCreator, StartGoes
  <2>2. CASE BackfillCreators BY <2>2 DEF BackfillCreators, StartGoes
  <2>3. CASE AddGlobal BY <2>3 DEF AddGlobal, StartGoes
  <2>4. CASE PromoteStock BY <2>4 DEF PromoteStock, StartGoes
  <2>5. CASE BackfillOwners BY <2>5 DEF BackfillOwners, StartGoes
  <2>6. CASE SeedStock BY <2>6 DEF SeedStock, InsertVoice, NextVoice, StartGoes
  <2>7. CASE Reconcile BY <2>7 DEF Reconcile, DeleteRows, StartGoes, Of
  <2> QED BY <1>10, <2>1, <2>2, <2>3, <2>4, <2>5, <2>6, <2>7 DEF Start
<1>11. CASE Down BY <1>11 DEF Down, WorkerEnds
<1> QED BY <1>1, <1>2, <1>3, <1>4, <1>5, <1>6, <1>7, <1>8, <1>9, <1>10, <1>11
    DEF Next, Begins

-----------------------------------------------------------------------------
(* What a step may never do.                                                *)

\* Who gains access uploads the voice or is assigned it.
Granted ==
  \A g \in (assigned' \ assigned) :
    \/ legacy
    \/ \E h \in Handlers : hpc[h] = "insert" /\ hwho[h] = g[2]
    \/ \E h \in Handlers : hop[h] = "assign" /\ hvoice[h] = g[1] /\ huser[h] = g[2]

\* No step does otherwise.
LEMMA AccessStep ==
  ASSUME RowTypes, HandlerTypes, ControlTypes, Mirror, Next
  PROVE  Granted
<1> USE DEF Granted, RowTypes, HandlerTypes, ControlTypes, Mirror, rowVars
<1>1. ASSUME NEW h \in Handlers, NEW u \in Users, NEW o \in Operations,
             NEW v \in Voices \cup {0}, Begin(h, u, o, v)
      PROVE  Granted
  BY <1>1 DEF Begin
<1>2. ASSUME NEW h \in Handlers, RequestFails(h) PROVE Granted
  BY <1>2 DEF RequestFails, EndRequest
<1>3. ASSUME NEW h \in Handlers, Uploads(h) PROVE Granted
  <2>1. ASSUME NEW p \in Paths, SaveReference(h, p) PROVE Granted
    BY <2>1 DEF SaveReference
  <2>2. ASSUME NEW v \in Voices, InsertClone(h, v) PROVE Granted
    BY <2>2 DEF InsertClone, InsertVoice, NextVoice, EndRequest
  <2> QED BY <1>3, <2>1, <2>2 DEF Uploads
<1>4. ASSUME NEW h \in Handlers, Grants(h) PROVE Granted
  <2>1. CASE AssignLookup(h) BY <2>1 DEF AssignLookup, HandlerGoes
  <2>2. CASE Assign(h) BY <2>2 DEF Assign, EndRequest
  <2>3. CASE ClearGrants(h) BY <2>3 DEF ClearGrants, EndRequest
  <2>4. CASE SetGlobal(h) BY <2>4 DEF SetGlobal, EndRequest
  <2>5. CASE Unassign(h) BY <2>5 DEF Unassign, EndRequest
  <2> QED BY <1>4, <2>1, <2>2, <2>3, <2>4, <2>5 DEF Grants
<1>5. ASSUME NEW h \in Handlers, Deletes(h) PROVE Granted
  BY <1>5 DEF Deletes, Identity, TxRead, DeleteVoice, DeleteRows, HandlerGoes, Unlink,
      EndRequest
<1>6. ASSUME NEW h \in Handlers, CreatesJob(h) PROVE Granted
  BY <1>6 DEF CreatesJob, CheckAccess, HandlerGoes, Enqueue, EndRequest
<1>7. ASSUME NEW u \in Users, RemoveUser(u) PROVE Granted
  BY <1>7 DEF RemoveUser
<1>8. ASSUME NEW u \in Users, SetRole(u) PROVE Granted
  BY <1>8 DEF SetRole
<1>9. CASE Worker
  BY <1>9 DEF Worker, Claim, ReferenceRow, SubmitPlain, Decide, WorkerEnds, SubmitVoiced,
      FailUnreadable, Retry
<1>10. CASE Start
  <2>1. CASE AddCreator BY <2>1 DEF AddCreator, StartGoes
  <2>2. CASE BackfillCreators BY <2>2 DEF BackfillCreators, StartGoes
  <2>3. CASE AddGlobal BY <2>3 DEF AddGlobal, StartGoes
  <2>4. CASE PromoteStock BY <2>4 DEF PromoteStock, StartGoes
  <2>5. CASE BackfillOwners BY <2>5 DEF BackfillOwners, StartGoes
  <2>6. CASE SeedStock BY <2>6 DEF SeedStock, InsertVoice, NextVoice, StartGoes
  <2>7. CASE Reconcile BY <2>7 DEF Reconcile, DeleteRows, StartGoes
  <2> QED BY <1>10, <2>1, <2>2, <2>3, <2>4, <2>5, <2>6, <2>7 DEF Start
<1>11. CASE Down BY <1>11 DEF Down, WorkerEnds
<1> QED BY <1>1, <1>2, <1>3, <1>4, <1>5, <1>6, <1>7, <1>8, <1>9, <1>10, <1>11
    DEF Next, Begins

\* Authorship is at most lost.
CreatorStands ==
  \A v \in Voices : Present(v) /\ ~legacy => creator'[v] \in {creator[v], NoUser}

\* No step does otherwise.
LEMMA CreatorStep ==
  ASSUME RowTypes, ControlTypes, Schema, Next
  PROVE  CreatorStands
<1> USE DEF CreatorStands, RowTypes, ControlTypes, Schema, Present, Kinds, rowVars
<1>1. ASSUME NEW h \in Handlers, NEW u \in Users, NEW o \in Operations,
             NEW v \in Voices \cup {0}, Begin(h, u, o, v)
      PROVE  CreatorStands
  BY <1>1 DEF Begin
<1>2. ASSUME NEW h \in Handlers, RequestFails(h) PROVE CreatorStands
  BY <1>2 DEF RequestFails, EndRequest
<1>3. ASSUME NEW h \in Handlers, Uploads(h) PROVE CreatorStands
  BY <1>3 DEF Uploads, SaveReference, InsertClone, InsertVoice, NextVoice, EndRequest
<1>4. ASSUME NEW h \in Handlers, Grants(h) PROVE CreatorStands
  BY <1>4 DEF Grants, AssignLookup, HandlerGoes, Assign, EndRequest, ClearGrants, SetGlobal,
      Unassign
<1>5. ASSUME NEW h \in Handlers, Deletes(h) PROVE CreatorStands
  <2>1. CASE Identity(h) BY <2>1 DEF Identity
  <2>2. CASE TxRead(h) BY <2>2 DEF TxRead
  <2>3. CASE DeleteVoice(h) BY <2>3 DEF DeleteVoice, DeleteRows, HandlerGoes
  <2>4. CASE Unlink(h) BY <2>4 DEF Unlink, EndRequest
  <2> QED BY <1>5, <2>1, <2>2, <2>3, <2>4 DEF Deletes
<1>6. ASSUME NEW h \in Handlers, CreatesJob(h) PROVE CreatorStands
  BY <1>6 DEF CreatesJob, CheckAccess, HandlerGoes, Enqueue, EndRequest
<1>7. ASSUME NEW u \in Users, RemoveUser(u) PROVE CreatorStands
  BY <1>7 DEF RemoveUser
<1>8. ASSUME NEW u \in Users, SetRole(u) PROVE CreatorStands
  BY <1>8 DEF SetRole
<1>9. CASE Worker
  BY <1>9 DEF Worker, Claim, ReferenceRow, SubmitPlain, Decide, WorkerEnds, SubmitVoiced,
      FailUnreadable, Retry
<1>10. CASE Start
  <2>1. CASE AddCreator BY <2>1 DEF AddCreator, StartGoes
  <2>2. CASE BackfillCreators BY <2>2 DEF BackfillCreators, StartGoes
  <2>3. CASE AddGlobal BY <2>3 DEF AddGlobal, StartGoes
  <2>4. CASE PromoteStock BY <2>4 DEF PromoteStock, StartGoes
  <2>5. CASE BackfillOwners BY <2>5 DEF BackfillOwners, StartGoes
  <2>6. CASE SeedStock BY <2>6 DEF SeedStock, InsertVoice, NextVoice, StartGoes
  <2>7. CASE Reconcile BY <2>7 DEF Reconcile, DeleteRows, StartGoes
  <2> QED BY <1>10, <2>1, <2>2, <2>3, <2>4, <2>5, <2>6, <2>7 DEF Start
<1>11. CASE Down BY <1>11 DEF Down, WorkerEnds
<1> QED BY <1>1, <1>2, <1>3, <1>4, <1>5, <1>6, <1>7, <1>8, <1>9, <1>10, <1>11
    DEF Next, Begins

\* Who deletes a clone is its creator or an administrator.
Entitled ==
  \A v \in Voices : kind[v] = "cloned" /\ kind'[v] = "deleted" =>
    \E h \in Handlers :
      hvoice[h] = v /\ hpc[h] = "write" /\ (h \in hadmin \/ creator[v] = hwho[h])

\* No step does otherwise.
LEMMA DeletionStep ==
  ASSUME RowTypes, HandlerTypes, Snapshots, Next
  PROVE  Entitled
<1> USE DEF Entitled, RowTypes, HandlerTypes, Kinds, rowVars
<1>1. ASSUME NEW h \in Handlers, NEW u \in Users, NEW o \in Operations,
             NEW v \in Voices \cup {0}, Begin(h, u, o, v)
      PROVE  Entitled
  BY <1>1 DEF Begin
<1>2. ASSUME NEW h \in Handlers, RequestFails(h) PROVE Entitled
  BY <1>2 DEF RequestFails, EndRequest
<1>3. ASSUME NEW h \in Handlers, Uploads(h) PROVE Entitled
  BY <1>3 DEF Uploads, SaveReference, InsertClone, InsertVoice, NextVoice, EndRequest
<1>4. ASSUME NEW h \in Handlers, Grants(h) PROVE Entitled
  BY <1>4 DEF Grants, AssignLookup, HandlerGoes, Assign, EndRequest, ClearGrants, SetGlobal,
      Unassign
<1>5. ASSUME NEW h \in Handlers, Deletes(h) PROVE Entitled
  <2>1. CASE Identity(h) BY <2>1 DEF Identity
  <2>2. CASE TxRead(h) BY <2>2 DEF TxRead
  <2>3. CASE DeleteVoice(h)
    BY <2>3 DEF DeleteVoice, DeleteRows, HandlerGoes, Snapshots, Knows, Present, MayDelete
  <2>4. CASE Unlink(h) BY <2>4 DEF Unlink, EndRequest
  <2> QED BY <1>5, <2>1, <2>2, <2>3, <2>4 DEF Deletes
<1>6. ASSUME NEW h \in Handlers, CreatesJob(h) PROVE Entitled
  BY <1>6 DEF CreatesJob, CheckAccess, HandlerGoes, Enqueue, EndRequest
<1>7. ASSUME NEW u \in Users, RemoveUser(u) PROVE Entitled
  BY <1>7 DEF RemoveUser
<1>8. ASSUME NEW u \in Users, SetRole(u) PROVE Entitled
  BY <1>8 DEF SetRole
<1>9. CASE Worker
  BY <1>9 DEF Worker, Claim, ReferenceRow, SubmitPlain, Decide, WorkerEnds, SubmitVoiced,
      FailUnreadable, Retry
<1>10. CASE Start
  <2>1. CASE AddCreator BY <2>1 DEF AddCreator, StartGoes
  <2>2. CASE BackfillCreators BY <2>2 DEF BackfillCreators, StartGoes
  <2>3. CASE AddGlobal BY <2>3 DEF AddGlobal, StartGoes
  <2>4. CASE PromoteStock BY <2>4 DEF PromoteStock, StartGoes
  <2>5. CASE BackfillOwners BY <2>5 DEF BackfillOwners, StartGoes
  <2>6. CASE SeedStock BY <2>6 DEF SeedStock, InsertVoice, NextVoice, StartGoes
  <2>7. CASE Reconcile BY <2>7 DEF Reconcile, DeleteRows, StartGoes, Of
  <2> QED BY <1>10, <2>1, <2>2, <2>3, <2>4, <2>5, <2>6, <2>7 DEF Start
<1>11. CASE Down BY <1>11 DEF Down, WorkerEnds
<1> QED BY <1>1, <1>2, <1>3, <1>4, <1>5, <1>6, <1>7, <1>8, <1>9, <1>10, <1>11
    DEF Next, Begins

\* A job goes without its clone only when that is gone.
Heard ==
  \A j \in Jobs : job[j] = "queued" /\ job'[j] \in {"plain", "failed"}
    => jobVoice[j] = 0 \/ kind[jobVoice[j]] # "cloned"

\* No step does otherwise.
LEMMA HeardStep ==
  ASSUME RowTypes, HandlerTypes, ControlTypes, Files, Hearing, Next
  PROVE  Heard
<1> USE LibraryAssumption DEF Heard, RowTypes, HandlerTypes, ControlTypes,
        Hearing, Kinds, rowVars, jobVars
<1>1. ASSUME NEW h \in Handlers, NEW u \in Users, NEW o \in Operations,
             NEW v \in Voices \cup {0}, Begin(h, u, o, v)
      PROVE  Heard
  BY <1>1 DEF Begin
<1>2. ASSUME NEW h \in Handlers, RequestFails(h) PROVE Heard
  BY <1>2 DEF RequestFails, EndRequest
<1>3. ASSUME NEW h \in Handlers, Uploads(h) PROVE Heard
  BY <1>3 DEF Uploads, SaveReference, InsertClone, InsertVoice, NextVoice, EndRequest
<1>4. ASSUME NEW h \in Handlers, Grants(h) PROVE Heard
  BY <1>4 DEF Grants, AssignLookup, HandlerGoes, Assign, EndRequest, ClearGrants, SetGlobal,
      Unassign
<1>5. ASSUME NEW h \in Handlers, Deletes(h) PROVE Heard
  BY <1>5 DEF Deletes, Identity, TxRead, DeleteVoice, DeleteRows, HandlerGoes, Unlink,
      EndRequest
<1>6. ASSUME NEW h \in Handlers, CreatesJob(h) PROVE Heard
  BY <1>6 DEF CreatesJob, CheckAccess, HandlerGoes, Enqueue, EndRequest
<1>7. ASSUME NEW u \in Users, RemoveUser(u) PROVE Heard
  BY <1>7 DEF RemoveUser
<1>8. ASSUME NEW u \in Users, SetRole(u) PROVE Heard
  BY <1>8 DEF SetRole
<1>9. CASE Worker
  <2>1. ASSUME NEW j \in Jobs, Claim(j) PROVE Heard
    BY <2>1 DEF Claim
  <2>2. CASE ReferenceRow BY <2>2 DEF ReferenceRow
  <2>3. CASE SubmitPlain
    BY <2>3 DEF SubmitPlain, Decide, WorkerEnds, HasReference, Present, Files
  <2>4. CASE SubmitVoiced BY <2>4 DEF SubmitVoiced, Decide, WorkerEnds
  <2>5. CASE FailUnreadable BY <2>5 DEF FailUnreadable, Decide, WorkerEnds, Files
  <2>6. CASE Retry BY <2>6 DEF Retry, WorkerEnds
  <2> QED BY <1>9, <2>1, <2>2, <2>3, <2>4, <2>5, <2>6 DEF Worker
<1>10. CASE Start
  BY <1>10 DEF Start, AddCreator, StartGoes, BackfillCreators, AddGlobal, PromoteStock,
      BackfillOwners, SeedStock, InsertVoice, NextVoice, Reconcile, DeleteRows
<1>11. CASE Down BY <1>11 DEF Down, WorkerEnds
<1> QED BY <1>1, <1>2, <1>3, <1>4, <1>5, <1>6, <1>7, <1>8, <1>9, <1>10, <1>11
    DEF Next, Begins

-----------------------------------------------------------------------------
(* The theorems.                                                            *)

\* The inductive invariant: types, how far a start has come, and the
\* strengthened safety properties.
IInv ==
  /\ RowTypes /\ HandlerTypes /\ ControlTypes
  /\ Schema /\ Files /\ Snapshots /\ Orphans /\ Mirror /\ Hearing

\* It holds of an empty database and of one an older release leaves.
LEMMA InitIInv == ASSUME Init PROVE IInv
<1> USE LibraryAssumption DEF Init, NoRequests
<1> DEFINE Tables ==
      /\ RowTypes /\ Files
      /\ \A p \in disk : \E v \in Voices : ref[v] = p
      /\ columns \subseteq Columns /\ legacy \in BOOLEAN
      /\ ~legacy => columns = Columns /\ \A v \in Voices : owner[v] = NoUser
<1>1. Tables
  <2> USE DEF RowTypes, Files, Holds, Kinds, Voices
  <2>1. CASE EmptyTable BY <2>1 DEF EmptyTable
  <2>2. ASSUME NEW k \in {"stock", "stale"}, NEW u \in Users, NEW p \in Paths,
               MaxVoices >= IF k = "stale" THEN 3 ELSE 2, LegacyRows(k, u, p)
        PROVE  Tables
    <3>1. MaxVoices \in Nat /\ MaxVoices >= 2 BY <2>2
    <3>2. 1 \in Voices /\ 2 \in Voices BY <3>1
    <3>3. columns \subseteq Columns /\ legacy = TRUE /\ global \subseteq Voices
      BY <2>2, <3>2 DEF LegacyRows, Columns
    <3>4. RowTypes BY <2>2, <3>3 DEF LegacyRows
    <3>5. Files BY <2>2, <3>2 DEF LegacyRows
    <3> QED BY <2>2, <3>2, <3>3, <3>4, <3>5 DEF LegacyRows
  <2> QED BY <2>1, <2>2
<1>2. HandlerTypes BY DEF HandlerTypes, Places
<1>3. ControlTypes
  <2>1. restarts \in 0..MaxRestarts OBVIOUS
  <2> QED BY <1>1, <2>1 DEF ControlTypes
<1>4. Schema BY <1>1 DEF Schema
<1>5. Snapshots BY DEF Snapshots
<1>6. Orphans BY <1>1 DEF Orphans, Owned
<1>7. Mirror BY <1>1 DEF Mirror
<1>8. Hearing BY DEF Hearing
<1> QED BY <1>1, <1>2, <1>3, <1>4, <1>5, <1>6, <1>7, <1>8 DEF IInv

\* Every step keeps it.
LEMMA StepIInv == ASSUME IInv, [Next]_vars PROVE IInv'
<1>1. CASE Next
  <2>1. RowTypes' BY <1>1, RowTypesStep DEF IInv
  <2>2. HandlerTypes' BY <1>1, HandlerTypesStep DEF IInv
  <2>3. ControlTypes' BY <1>1, ControlTypesStep DEF IInv
  <2>4. Schema' BY <1>1, SchemaStep DEF IInv
  <2>5. Files' BY <1>1, FilesStep DEF IInv
  <2>6. Snapshots' BY <1>1, SnapshotsStep DEF IInv
  <2>7. Orphans' BY <1>1, OrphansStep DEF IInv
  <2>8. Mirror' BY <1>1, MirrorStep DEF IInv
  <2>9. Hearing' BY <1>1, HearingStep DEF IInv
  <2> QED BY <2>1, <2>2, <2>3, <2>4, <2>5, <2>6, <2>7, <2>8, <2>9 DEF IInv
<1>2. CASE UNCHANGED vars
  <2> USE <1>2 DEF vars, rowVars, schemaVars, userVars, jobVars, workerVars, handlerVars,
                   procVars
  <2>1. RowTypes' /\ HandlerTypes' /\ ControlTypes'
    BY DEF IInv, RowTypes, HandlerTypes, ControlTypes
  <2>2. Schema' BY DEF IInv, Schema
  <2>3. Files' BY DEF IInv, Files, Holds
  <2>4. Snapshots' BY DEF IInv, Snapshots, Knows, Present, MayDelete
  <2>5. Orphans' BY DEF IInv, Orphans, Owned, Holds
  <2>6. Mirror' BY DEF IInv, Mirror
  <2>7. Hearing' BY DEF IInv, Hearing
  <2> QED BY <2>1, <2>2, <2>3, <2>4, <2>5, <2>6, <2>7 DEF IInv
<1> QED BY <1>1, <1>2

\* The type invariant: every table, file, request and snapshot is as declared.
THEOREM TypeCorrect == Spec => []TypeOK
<1>1. Init => IInv BY InitIInv
<1>2. IInv /\ [Next]_vars => IInv' BY StepIInv
<1>3. IInv => TypeOK BY TypeParts DEF IInv
<1> QED BY <1>1, <1>2, <1>3, PTL DEF Spec

\* A clone in the library has its file, whatever uploads fail and whatever
\* deletions overlap (voices.go CreateCloned, Delete; voices.go deleteVoice).
THEOREM ClonesHaveFiles == Spec => []CloneHasFile
<1>1. Init => IInv BY InitIInv
<1>2. IInv /\ [Next]_vars => IInv' BY StepIInv
<1>3. IInv => CloneHasFile BY DEF IInv, Files, CloneHasFile
<1> QED BY <1>1, <1>2, <1>3, PTL DEF Spec

\* A file belongs to a row or to a request, unless a crash cut a request short.
THEOREM NoFileOrphaned == Spec => []NoOrphanFile
<1>1. Init => IInv BY InitIInv
<1>2. IInv /\ [Next]_vars => IInv' BY StepIInv
<1>3. IInv => NoOrphanFile BY DEF IInv, Orphans, Owned, NoOrphanFile
<1> QED BY <1>1, <1>2, <1>3, PTL DEF Spec

\* Access comes from an upload, an administrator or the first start on an older
\* database; no later start gives back what was taken (db.go
\* backfillLegacyVoiceOwners, voices.go Unassign, Assign).
THEOREM AccessAlwaysGranted == Spec => AccessIsGranted
<1>1. Init => IInv BY InitIInv
<1>2. IInv /\ [Next]_vars => IInv' BY StepIInv
<1>3. ASSUME IInv, [Next]_vars PROVE [Granted]_vars
  <2>1. CASE Next BY <1>3, <2>1, AccessStep DEF IInv
  <2>2. CASE UNCHANGED vars BY <2>2
  <2> QED BY <1>3, <2>1, <2>2
<1>4. [][Granted]_vars => AccessIsGranted BY DEF Granted, AccessIsGranted
<1> QED BY <1>1, <1>2, <1>3, <1>4, PTL DEF Spec

\* Nobody becomes the creator of a voice that is in the library (voices.go
\* Assign, db.go migrateVoiceColumns).
THEOREM CreatorAlwaysStable == Spec => CreatorIsStable
<1>1. Init => IInv BY InitIInv
<1>2. IInv /\ [Next]_vars => IInv' BY StepIInv
<1>3. ASSUME IInv, [Next]_vars PROVE [CreatorStands]_vars
  <2>1. CASE Next BY <1>3, <2>1, CreatorStep DEF IInv
  <2>2. CASE UNCHANGED vars BY <2>2
  <2> QED BY <1>3, <2>1, <2>2
<1>4. [][CreatorStands]_vars => CreatorIsStable BY DEF CreatorStands, CreatorIsStable
<1> QED BY <1>1, <1>2, <1>3, <1>4, PTL DEF Spec

\* A clone is deleted only by its creator as the row names it at that moment, or
\* by one who was an administrator when the request asked (voices.go Delete).
THEOREM DeletionAlwaysEntitled == Spec => DeletedByEntitled
<1>1. Init => IInv BY InitIInv
<1>2. IInv /\ [Next]_vars => IInv' BY StepIInv
<1>3. ASSUME IInv, [Next]_vars PROVE [Entitled]_vars
  <2>1. CASE Next BY <1>3, <2>1, DeletionStep DEF IInv
  <2>2. CASE UNCHANGED vars BY <2>2
  <2> QED BY <1>3, <2>1, <2>2
<1>4. [][Entitled]_vars => DeletedByEntitled BY DEF Entitled, DeletedByEntitled
<1> QED BY <1>1, <1>2, <1>3, <1>4, PTL DEF Spec

\* A job whose clone is in the library is rendered with it or retried, although
\* the worker reads row and file apart (worker.go buildInput, voices.go Reference).
THEOREM CloneAlwaysHeard == Spec => CloneIsHeard
<1>1. Init => IInv BY InitIInv
<1>2. IInv /\ [Next]_vars => IInv' BY StepIInv
<1>3. ASSUME IInv, [Next]_vars PROVE [Heard]_vars
  <2>1. CASE Next BY <1>3, <2>1, HeardStep DEF IInv
  <2>2. CASE UNCHANGED vars BY <2>2
  <2> QED BY <1>3, <2>1, <2>2
<1>4. [][Heard]_vars => CloneIsHeard BY DEF Heard, CloneIsHeard
<1> QED BY <1>1, <1>2, <1>3, <1>4, PTL DEF Spec
-----------------------------------------------------------------------------
(* VoiceLibrary implements Sharing.                                         *)

\* Before a start is over nothing is served and the worker holds no job; it ends
\* with stock; and what it takes over are the owners of clones.  A job's voice is
\* in the library, and the path the worker holds was that of a clone.
Serving ==
  /\ proc # "up" => wjob = 0 /\ \A h \in Handlers : hpc[h] = "idle"
  /\ proc = "promote" => legacy
  /\ proc \in {"reconcile", "up"} => Of("stock") # {}
  /\ legacy => \A v \in Voices : owner[v] # NoUser => kind[v] = "cloned"
  /\ \A j \in Jobs : jobVoice[j] # 0 => Present(jobVoice[j])
  /\ wpath # NoPath => kind[wvoice] \in {"cloned", "deleted"}

\* It holds of every database a start may find.
LEMMA InitServing == ASSUME Init PROVE Serving
<1> USE LibraryAssumption DEF Init, NoRequests
<1>1. legacy => \A v \in Voices : owner[v] # NoUser => kind[v] = "cloned"
  <2>1. CASE EmptyTable BY <2>1 DEF EmptyTable
  <2>2. CASE \E k \in {"stock", "stale"}, u \in Users, p \in Paths : LegacyRows(k, u, p)
    BY <2>2 DEF LegacyRows
  <2> QED BY <2>1, <2>2
<1> QED BY <1>1 DEF Serving

\* Every step keeps it.
LEMMA ServingStep == ASSUME IInv, Serving, Next PROVE Serving'
<1> USE DEF IInv, RowTypes, HandlerTypes, ControlTypes, Schema, Serving, Kinds, Of, Present,
            rowVars, schemaVars, userVars, jobVars, workerVars, handlerVars, procVars
<1>1. ASSUME NEW h \in Handlers, NEW u \in Users, NEW o \in Operations,
             NEW v \in Voices \cup {0}, Begin(h, u, o, v)
      PROVE  Serving'
  BY <1>1 DEF Begin
<1>2. ASSUME NEW h \in Handlers, RequestFails(h) PROVE Serving'
  BY <1>2 DEF RequestFails, EndRequest
<1>3. ASSUME NEW h \in Handlers, Uploads(h) PROVE Serving'
  <2>1. ASSUME NEW p \in Paths, SaveReference(h, p) PROVE Serving'
    BY <2>1 DEF SaveReference
  <2>2. ASSUME NEW v \in Voices, InsertClone(h, v) PROVE Serving'
    BY <2>2 DEF InsertClone, InsertVoice, NextVoice, EndRequest
  <2> QED BY <1>3, <2>1, <2>2 DEF Uploads
<1>4. ASSUME NEW h \in Handlers, Grants(h) PROVE Serving'
  <2>1. CASE AssignLookup(h) BY <2>1 DEF AssignLookup, HandlerGoes
  <2>2. CASE Assign(h) BY <2>2 DEF Assign, EndRequest
  <2>3. CASE ClearGrants(h) BY <2>3 DEF ClearGrants, EndRequest
  <2>4. CASE SetGlobal(h) BY <2>4 DEF SetGlobal, EndRequest
  <2>5. CASE Unassign(h) BY <2>5 DEF Unassign, EndRequest
  <2> QED BY <1>4, <2>1, <2>2, <2>3, <2>4, <2>5 DEF Grants
<1>5. ASSUME NEW h \in Handlers, Deletes(h) PROVE Serving'
  <2>1. CASE Identity(h) BY <2>1 DEF Identity
  <2>2. CASE TxRead(h) BY <2>2 DEF TxRead
  <2>3. CASE DeleteVoice(h)
    <3>1. kind[hvoice[h]] = "cloned" /\ hvoice[h] \in Voices /\ proc = "up"
      BY <2>3 DEF DeleteVoice, Snapshots, Knows, MayDelete
    <3>2. Of("stock")' # {}
      BY <2>3, <3>1 DEF DeleteVoice, DeleteRows
    <3>3. \A j \in Jobs : jobVoice'[j] # 0 => Present(jobVoice[j])'
      BY <2>3 DEF DeleteVoice, DeleteRows
    <3>4. wpath' # NoPath => kind'[wvoice'] \in {"cloned", "deleted"}
      BY <2>3 DEF DeleteVoice, DeleteRows, Hearing
    <3> QED BY <2>3, <3>1, <3>2, <3>3, <3>4 DEF DeleteVoice, HandlerGoes
  <2>4. CASE Unlink(h) BY <2>4 DEF Unlink, EndRequest
  <2> QED BY <1>5, <2>1, <2>2, <2>3, <2>4 DEF Deletes
<1>6. ASSUME NEW h \in Handlers, CreatesJob(h) PROVE Serving'
  BY <1>6 DEF CreatesJob, CheckAccess, HandlerGoes, Enqueue, EndRequest
<1>7. ASSUME NEW u \in Users, RemoveUser(u) PROVE Serving'
  BY <1>7 DEF RemoveUser
<1>8. ASSUME NEW u \in Users, SetRole(u) PROVE Serving'
  BY <1>8 DEF SetRole
<1>9. CASE Worker
  <2>1. ASSUME NEW j \in Jobs, Claim(j) PROVE Serving'
    BY <2>1 DEF Claim, Hearing
  <2>2. CASE ReferenceRow BY <2>2 DEF ReferenceRow, HasReference, Files
  <2>3. CASE SubmitPlain BY <2>3 DEF SubmitPlain, Decide, WorkerEnds
  <2>4. CASE SubmitVoiced BY <2>4 DEF SubmitVoiced, Decide, WorkerEnds
  <2>5. CASE FailUnreadable BY <2>5 DEF FailUnreadable, Decide, WorkerEnds
  <2>6. CASE Retry BY <2>6 DEF Retry, WorkerEnds
  <2> QED BY <1>9, <2>1, <2>2, <2>3, <2>4, <2>5, <2>6 DEF Worker
<1>10. CASE Start
  <2>1. CASE AddCreator BY <2>1 DEF AddCreator, StartGoes
  <2>2. CASE BackfillCreators BY <2>2 DEF BackfillCreators, StartGoes
  <2>3. CASE AddGlobal BY <2>3 DEF AddGlobal, StartGoes, Columns
  <2>4. CASE PromoteStock BY <2>4 DEF PromoteStock, StartGoes
  <2>5. CASE BackfillOwners BY <2>5 DEF BackfillOwners, StartGoes
  <2>6. CASE SeedStock
    <3>1. /\ Of("stock")' # {} /\ ~legacy' /\ wpath' = NoPath
          /\ \A v \in Voices : kind[v] \in Kinds => kind'[v] \in Kinds
      BY <2>6 DEF SeedStock, InsertVoice, NextVoice, StartGoes, Hearing
    <3> QED BY <2>6, <3>1 DEF SeedStock, StartGoes
  <2>7. CASE Reconcile
    <3>1. Of("stock")' # {} /\ ~legacy' /\ wpath' = NoPath
      BY <2>7 DEF Reconcile, DeleteRows, StartGoes, Hearing
    <3>2. \A j \in Jobs : jobVoice'[j] # 0 => Present(jobVoice[j])'
      BY <2>7 DEF Reconcile, DeleteRows
    <3> QED BY <2>7, <3>1, <3>2 DEF Reconcile, StartGoes
  <2> QED BY <1>10, <2>1, <2>2, <2>3, <2>4, <2>5, <2>6, <2>7 DEF Start
<1>11. CASE Down BY <1>11 DEF Down, WorkerEnds
<1> QED BY <1>1, <1>2, <1>3, <1>4, <1>5, <1>6, <1>7, <1>8, <1>9, <1>10, <1>11
    DEF Next, Begins

\* A step that no user sees.
Invisible ==
  /\ UNCHANGED <<kind, creator, global, assigned, users, job, jobUser, jobVoice, legacy>>
  /\ proc' = "up" <=> proc = "up"

\* Sharing does not see it either.
LEMMA InvisibleStutters == ASSUME Invisible PROVE UNCHANGED Promise!sharingVars
<1>1. /\ (~legacy)' = (~legacy)
      /\ (proc = "up")' = (proc = "up")
  BY Zenon DEF Invisible
<1> QED
  BY <1>1 DEF Invisible, Promise!sharingVars, Promise!library, Promise!orders

\* Both have the same voices.
LEMMA SameVoices ==
  /\ \A v \in Voices : v \in Promise!Held <=> Present(v)
  /\ \A k : Promise!Of(k) = Of(k)
BY DEF Promise!Held, Present, Kinds, Promise!Of, Of

\* Reads, files, refusals and the worker's preparations are invisible.
LEMMA BehindTheScenes ==
  ASSUME IInv, Serving, NEW h \in Handlers,
         \/ Begins(h) \/ RequestFails(h) \/ \E p \in Paths : SaveReference(h, p)
         \/ AssignLookup(h) \/ Identity(h) \/ TxRead(h) \/ Unlink(h) \/ CheckAccess(h)
  PROVE  Invisible
BY DEF Invisible, Begins, Begin, RequestFails, SaveReference, AssignLookup, Identity, TxRead,
       Unlink, CheckAccess, rowVars, schemaVars, userVars, jobVars, procVars

\* DELETE FROM voices is a withdrawal of these voices.
LEMMA DeletionWithdraws ==
  ASSUME NEW gone, DeleteRows(gone) PROVE Promise!Without(gone)
BY DEF DeleteRows, Promise!Without

\* A statement a request commits is one operation of Sharing.
LEMMA RequestKeepsPromise ==
  ASSUME IInv, Serving, NEW h \in Handlers,
         RequestFails(h) \/ Uploads(h) \/ Grants(h) \/ Deletes(h) \/ CreatesJob(h) \/ Begins(h)
  PROVE  Promise!Next \/ Invisible
<1> USE DEF IInv, RowTypes, HandlerTypes, ControlTypes, rowVars, schemaVars, userVars, jobVars,
            procVars
<1>1. hpc[h] # "idle" => proc = "up"
  BY DEF Serving
<1>2. ASSUME NEW v \in Voices, InsertClone(h, v) PROVE Promise!Next
  <2>1. Promise!Publish(v, hwho[h])
    BY <1>1, <1>2
    DEF InsertClone, InsertVoice, NextVoice, Promise!Publish, Promise!Enter, Promise!Unused,
        Promise!orders
  <2>2. hwho[h] \in Users
    BY <1>2 DEF InsertClone
  <2> QED BY <2>1, <2>2 DEF Promise!Next
<1>3. ASSUME Assign(h) PROVE Promise!Next
  <2>1. hvoice[h] \in Voices /\ huser[h] \in Users
    BY <1>3 DEF Assign, Present
  <2>2. Promise!Grant(hvoice[h], huser[h])
    BY <1>1, <1>3, <2>1, SameVoices DEF Assign, Promise!Grant, Promise!orders
  <2> QED BY <2>1, <2>2 DEF Promise!Next
<1>4. ASSUME ClearGrants(h) PROVE Promise!Next
  <2>1. hvoice[h] \in Voices
    BY <1>4 DEF ClearGrants, Present
  <2>2. Promise!Revoke(hvoice[h], Users)
    BY <1>1, <1>4, <2>1, SameVoices DEF ClearGrants, Promise!Revoke, Promise!orders
  <2> QED BY <2>1, <2>2 DEF Promise!Next
<1>5. ASSUME Unassign(h) PROVE Promise!Next \/ Invisible
  <2>1. Present(hvoice[h]) /\ hvoice[h] \in Voices
    BY <1>5 DEF Unassign, Snapshots, Knows, Present
  <2>2. CASE huser[h] \in Users
    <3>1. {<<hvoice[h], huser[h]>>} = {hvoice[h]} \X {huser[h]}
      OBVIOUS
    <3>2. Promise!Revoke(hvoice[h], {huser[h]})
      BY <1>1, <1>5, <2>1, <3>1, SameVoices DEF Unassign, Promise!Revoke, Promise!orders
    <3> QED BY <2>1, <2>2, <3>2 DEF Promise!Next
  <2>3. CASE huser[h] \notin Users
    <3>1. assigned' = assigned
      BY <1>5, <2>3 DEF Unassign
    <3> QED BY <1>5, <3>1 DEF Unassign, Invisible
  <2> QED BY <2>2, <2>3
<1>6. ASSUME SetGlobal(h) PROVE Promise!Next
  <2>1. hvoice[h] \in Voices
    BY <1>6 DEF SetGlobal, Present
  <2>2. Promise!Share(hvoice[h])
    BY <1>1, <1>6, <2>1, SameVoices DEF SetGlobal, Promise!Share, Promise!orders
  <2> QED BY <2>1, <2>2 DEF Promise!Next
<1>7. ASSUME DeleteVoice(h) PROVE Promise!Next
  <2>1. hvoice[h] \in Voices /\ kind[hvoice[h]] = "cloned"
    BY <1>7 DEF DeleteVoice, Snapshots, Knows, Present, MayDelete
  <2>2. Promise!Withdraw(hvoice[h])
    BY <1>1, <1>7, <2>1, DeletionWithdraws DEF DeleteVoice, Promise!Withdraw
  <2> QED BY <2>1, <2>2 DEF Promise!Next
<1>8. ASSUME NEW j \in Jobs, Enqueue(h, j) PROVE Promise!Next
  <2>1. hvoice[h] \in Voices /\ hwho[h] \in Users
    BY <1>8 DEF Enqueue, Present
  <2>2. Promise!Ask(j, hwho[h], hvoice[h])
    BY <1>1, <1>8, <2>1, SameVoices DEF Enqueue, Promise!Ask, Promise!Unused, Promise!library
  <2> QED BY <2>1, <2>2 DEF Promise!Next
<1> QED
  BY <1>2, <1>3, <1>4, <1>5, <1>6, <1>7, <1>8, BehindTheScenes
  DEF Uploads, Grants, Deletes, CreatesJob

\* The worker's outcome for a job is that of one look at the library.
LEMMA WorkerKeepsPromise ==
  ASSUME IInv, Serving, Worker
  PROVE  Promise!Next \/ Invisible
<1> USE DEF IInv, RowTypes, HandlerTypes, ControlTypes, rowVars, schemaVars, userVars, jobVars,
            procVars
<1>1. wjob # 0 => proc = "up"
  BY DEF Serving
<1>2. ASSUME (\E j \in Jobs : Claim(j)) \/ ReferenceRow \/ Retry PROVE Invisible
  BY <1>2 DEF Invisible, Claim, ReferenceRow, Retry
<1>3. ASSUME NEW outcome \in {"voiced", "plain", "failed"}, wjob # 0, Decide(outcome),
             job[wjob] = "queued" /\ jobVoice[wjob] # 0
               => outcome = IF kind[jobVoice[wjob]] = "cloned" THEN "voiced" ELSE "plain"
      PROVE  Promise!Next \/ Invisible
  <2>1. wjob \in Jobs
    BY <1>3
  <2>2. CASE job[wjob] = "queued"
    <3>1. Promise!Render(wjob, outcome)
      BY <1>1, <1>3, <2>1, <2>2 DEF Decide, Promise!Render, Promise!library
    <3> QED BY <2>1, <3>1 DEF Promise!Next
  <2>3. CASE job[wjob] # "queued"
    BY <1>3, <2>3 DEF Decide, Invisible
  <2> QED BY <2>2, <2>3
<1>4. ASSUME wjob # 0, job[wjob] = "queued", jobVoice[wjob] # 0
      PROVE  /\ jobVoice[wjob] = wvoice /\ wvoice \in Voices /\ wjob \in Jobs
             /\ kind[wvoice] = "cloned" => ref[wvoice] \in disk /\ ref[wvoice] # NoPath
             /\ kind[wvoice] # "cloned" => ref[wvoice] = NoPath
             /\ wpath # NoPath /\ kind[wvoice] = "cloned" => ref[wvoice] = wpath
  BY <1>4, LibraryAssumption DEF Hearing, Files
<1>5. CASE SubmitPlain
  <2>1. job[wjob] = "queued" /\ jobVoice[wjob] # 0 => kind[jobVoice[wjob]] # "cloned"
    BY <1>4, <1>5 DEF SubmitPlain, HasReference, Present, Kinds
  <2> QED BY <1>3, <1>5, <2>1 DEF SubmitPlain
<1>6. CASE SubmitVoiced
  <2>1. job[wjob] = "queued" /\ jobVoice[wjob] # 0 => kind[jobVoice[wjob]] = "cloned"
    BY <1>4, <1>6, LibraryAssumption DEF SubmitVoiced, Serving, Present, Kinds
  <2> QED BY <1>3, <1>6, <2>1 DEF SubmitVoiced
<1>7. CASE FailUnreadable
  <2>1. job[wjob] = "queued" => jobVoice[wjob] = 0
    BY <1>4, <1>7 DEF FailUnreadable, Serving, Present, Kinds
  <2> QED BY <1>3, <1>7, <2>1 DEF FailUnreadable
<1> QED
  BY <1>2, <1>5, <1>6, <1>7 DEF Worker


\* A statement of a start is one of the take-over, the stock or the opening; the
\* owners that later starts copy are assigned already.
LEMMA StartKeepsPromise ==
  ASSUME IInv, Serving, Start
  PROVE  Promise!Next \/ Invisible
<1> USE DEF IInv, RowTypes, HandlerTypes, ControlTypes, Schema, rowVars, schemaVars, userVars,
            jobVars, procVars
<1>1. CASE AddCreator \/ AddGlobal
  BY <1>1 DEF AddCreator, AddGlobal, StartGoes, Invisible
<1>2. CASE BackfillCreators
  <2>1. Promise!Attribute
    BY <1>2
    DEF BackfillCreators, StartGoes, Promise!Attribute, Promise!orders
  <2> QED BY <2>1 DEF Promise!Next
<1>3. CASE PromoteStock
  <2>1. Promise!ShareStock
    BY <1>3, SameVoices DEF PromoteStock, StartGoes, Serving, Promise!ShareStock, Promise!orders
  <2> QED BY <2>1 DEF Promise!Next
<1>4. CASE BackfillOwners /\ legacy
  <2>1. Promise!TakeOver
    BY <1>4 DEF BackfillOwners, StartGoes, Serving, Promise!TakeOver, Promise!orders
  <2> QED BY <2>1 DEF Promise!Next
<1>5. CASE BackfillOwners /\ ~legacy
  <2>1. assigned' = assigned
    BY <1>5 DEF BackfillOwners, Mirror
  <2> QED BY <1>5, <2>1 DEF BackfillOwners, StartGoes, Invisible
<1>6. CASE SeedStock /\ Of("stock") # {}
  BY <1>6 DEF SeedStock, StartGoes, Invisible
<1>7. ASSUME SeedStock, Of("stock") = {} PROVE Promise!Next
  <2>1. PICK v \in Voices : InsertVoice(v, "stock", NoPath, NoUser) /\ global' = global \cup {v}
                             /\ UNCHANGED assigned
    BY <1>7 DEF SeedStock
  <2>2. Promise!Stock(v)
    BY <1>7, <2>1, SameVoices
    DEF SeedStock, StartGoes, InsertVoice, NextVoice, Promise!Stock, Promise!Enter,
        Promise!Unused, Promise!orders
  <2> QED BY <2>2 DEF Promise!Next
<1>8. CASE Reconcile
  <2>1. Promise!Open
    BY <1>8, SameVoices, DeletionWithdraws DEF Reconcile, StartGoes, Serving, Promise!Open
  <2> QED BY <2>1 DEF Promise!Next
<1> QED
  BY <1>1, <1>2, <1>3, <1>4, <1>5, <1>6, <1>7, <1>8 DEF Start

\* Every step of the library is a step of Sharing, or invisible to it.
LEMMA SharingStep ==
  ASSUME IInv, Serving, [Next]_vars
  PROVE  [Promise!Next]_(Promise!sharingVars)
<1> SUFFICES Promise!Next \/ Invisible
  BY InvisibleStutters
<1>1. ASSUME NEW u \in Users, RemoveUser(u) PROVE Promise!Next
  <2>1. Promise!Leave(u)
    BY <1>1 DEF RemoveUser, schemaVars, procVars, Promise!Leave
  <2> QED BY <2>1 DEF Promise!Next
<1>2. ASSUME NEW u \in Users, SetRole(u) PROVE Invisible
  BY <1>2 DEF SetRole, Invisible, rowVars, schemaVars, jobVars, procVars
<1>3. CASE Down /\ proc = "up"
  <2>1. Promise!Close
    BY <1>3
    DEF Down, rowVars, schemaVars, userVars, jobVars, Promise!Close, Promise!library,
        Promise!orders
  <2> QED BY <2>1 DEF Promise!Next
<1>4. CASE Down /\ proc # "up"
  BY <1>4 DEF Down, Invisible, rowVars, schemaVars, userVars, jobVars
<1>5. CASE UNCHANGED vars
  BY <1>5 DEF vars, rowVars, schemaVars, userVars, jobVars, procVars, Invisible
<1> QED
  BY <1>1, <1>2, <1>3, <1>4, <1>5, RequestKeepsPromise, WorkerKeepsPromise, StartKeepsPromise
  DEF Next

\* The library starts as Sharing does.
LEMMA SharingInit == ASSUME Init PROVE Promise!Init
<1> USE LibraryAssumption DEF Init
<1>1. IInv
  BY InitIInv
<1> DEFINE Found == /\ kind \in [Voices -> {"absent", "stock", "stale", "cloned"}]
                    /\ \A v \in global : Present(v)
                    /\ ~legacy => \A v \in Voices : kind[v] = "absent"
<1>2. Found
  <2>1. CASE EmptyTable BY <2>1 DEF EmptyTable
  <2>2. ASSUME NEW k \in {"stock", "stale"}, NEW u \in Users, NEW p \in Paths,
               MaxVoices >= IF k = "stale" THEN 3 ELSE 2, LegacyRows(k, u, p)
        PROVE  Found
    <3>1. 1 \in Voices BY <2>2 DEF Voices
    <3> QED BY <2>2, <3>1 DEF LegacyRows, Present, Kinds
  <2> QED BY <2>1, <2>2
<1>3. \A v \in Voices : Present(v) => kind[v] # "absent"
  BY DEF Present, Kinds
<1>4. global \subseteq Voices /\ legacy \in BOOLEAN
  BY <1>1 DEF IInv, RowTypes, ControlTypes
<1>5. global \subseteq Promise!Held /\ (~legacy => Promise!Held = {})
  BY <1>2, <1>3, <1>4, SameVoices DEF Promise!Held
<1> QED BY <1>2, <1>4, <1>5 DEF Promise!Init

\* The library implements Sharing.
THEOREM LibraryImplementsSharing == Spec => ImplementsSharing
<1>1. Init => IInv /\ Serving /\ Promise!Init
  BY InitIInv, InitServing, SharingInit
<1>2. IInv /\ Serving /\ [Next]_vars => IInv' /\ Serving'
  <2>1. UNCHANGED vars /\ Serving => Serving'
    BY DEF vars, rowVars, schemaVars, jobVars, workerVars, handlerVars, procVars, Serving, Of,
           Present
  <2> QED BY <2>1, StepIInv, ServingStep
<1>3. IInv /\ Serving /\ [Next]_vars => [Promise!Next]_(Promise!sharingVars)
  BY SharingStep
<1> QED BY <1>1, <1>2, <1>3, PTL DEF Spec, ImplementsSharing, Promise!Spec


\* No reference of the tables leads nowhere: who is granted a voice, or authored
\* one, is there, and so is the voice that is granted, shared or asked for.
NothingDangles ==
  /\ \A g \in assigned : Present(g[1]) /\ g[2] \in users
  /\ \A v \in global : Present(v)
  /\ \A v \in Voices : creator[v] \in users \cup {NoUser}
  /\ \A j \in Jobs : jobVoice[j] # 0 => Present(jobVoice[j])

\* What the steps of Sharing keep.
Whole ==
  /\ NothingDangles
  /\ kind \in [Voices -> Kinds \cup {"absent", "deleted"}]
  /\ creator \in [Voices -> Users \cup {NoUser}]
  /\ assigned \subseteq Voices \X Users
  /\ job \in [Jobs -> {"absent", "queued", "plain", "voiced", "failed", "deleted"}]
  /\ jobVoice \in [Jobs -> Voices \cup {0}]
  /\ legacy => proc # "up" /\ users = Users

\* No step leaves anything dangling, moves authorship or fails a job whose clone
\* is there.
LEMMA WholeStep ==
  ASSUME Whole, [Promise!Next]_(Promise!sharingVars)
  PROVE  Whole' /\ CreatorStands /\ Heard
<1> DEFINE Done == Whole' /\ CreatorStands /\ Heard
<1> USE LibraryAssumption DEF Whole, NothingDangles, CreatorStands, Heard, Present, Kinds
<1>1. ASSUME NEW v \in Voices, NEW u \in Users, Promise!Publish(v, u) PROVE Done
  BY <1>1 DEF Promise!Publish, Promise!Enter, Promise!Unused, Promise!orders
<1>2. ASSUME NEW v \in Voices, NEW u \in Users, Promise!Grant(v, u) PROVE Done
  BY <1>2, SameVoices DEF Promise!Grant, Promise!orders
<1>3. ASSUME NEW v \in Voices, NEW who, Promise!Revoke(v, who) PROVE Done
  BY <1>3 DEF Promise!Revoke, Promise!orders
<1>4. ASSUME NEW v \in Voices, Promise!Share(v) PROVE Done
  BY <1>4, SameVoices DEF Promise!Share, Promise!orders
<1>5. ASSUME NEW v \in Voices, Promise!Withdraw(v) PROVE Done
  BY <1>5 DEF Promise!Withdraw, Promise!Without
<1>6. ASSUME NEW v \in Voices, Promise!Stock(v) PROVE Done
  BY <1>6 DEF Promise!Stock, Promise!Enter, Promise!Unused, Promise!orders
<1>7. ASSUME NEW u \in Users, Promise!Leave(u) PROVE Done
  BY <1>7 DEF Promise!Leave
<1>8. ASSUME NEW j \in Jobs, NEW u \in Users, NEW v \in Voices, Promise!Ask(j, u, v) PROVE Done
  BY <1>8, SameVoices DEF Promise!Ask, Promise!Unused, Promise!library
<1>9. ASSUME NEW j \in Jobs, NEW outcome \in {"voiced", "plain", "failed"},
             Promise!Render(j, outcome)
      PROVE  Done
  BY <1>9 DEF Promise!Render, Promise!library
<1>10. CASE Promise!Attribute
  BY <1>10 DEF Promise!Attribute, Promise!orders
<1>11. CASE Promise!ShareStock
  BY <1>11, SameVoices DEF Promise!ShareStock, Promise!orders, Of
<1>12. CASE Promise!TakeOver
  BY <1>12 DEF Promise!TakeOver, Promise!orders
<1>13. CASE Promise!Open
  BY <1>13, SameVoices DEF Promise!Open, Promise!Without, Of
<1>14. CASE Promise!Close
  BY <1>14 DEF Promise!Close, Promise!library, Promise!orders
<1>15. CASE UNCHANGED Promise!sharingVars
  BY <1>15 DEF Promise!sharingVars, Promise!library, Promise!orders
<1> QED
  BY <1>1, <1>2, <1>3, <1>4, <1>5, <1>6, <1>7, <1>8, <1>9, <1>10, <1>11, <1>12, <1>13, <1>14,
     <1>15
  DEF Promise!Next

\* Whatever keeps the promise of Sharing never lets authorship move or a clone
\* that is there go unheard, and leaves no grant, share, author or wish dangling
\* (voices.go Assign, Delete, Reference; the foreign keys of db.go).
THEOREM SharingSuffices ==
  Promise!Spec => []NothingDangles /\ CreatorIsStable /\ CloneIsHeard
<1>1. Promise!Init => Whole
  <2> SUFFICES ASSUME Promise!Init PROVE Whole
    OBVIOUS
  <2>1. \A v \in global : Present(v)
    BY SameVoices DEF Promise!Init, Promise!Held
  <2>2. /\ kind \in [Voices -> Kinds \cup {"absent", "deleted"}]
        /\ creator = [v \in Voices |-> NoUser] /\ assigned = {}
        /\ job = [j \in Jobs |-> "absent"] /\ jobVoice = [j \in Jobs |-> 0]
        /\ users = Users /\ proc # "up"
    BY DEF Promise!Init, Kinds
  <2> QED BY <2>1, <2>2 DEF Whole, NothingDangles
<1>2. Whole /\ [Promise!Next]_(Promise!sharingVars)
        => Whole' /\ [CreatorStands]_vars /\ [Heard]_vars
  BY WholeStep
<1>3. Whole => NothingDangles
  BY DEF Whole
<1>4. ([][CreatorStands]_vars => CreatorIsStable) /\ ([][Heard]_vars => CloneIsHeard)
  BY DEF CreatorStands, CreatorIsStable, Heard, CloneIsHeard
<1> QED BY <1>1, <1>2, <1>3, <1>4, PTL DEF Promise!Spec


\* So nothing dangles in the library, whatever requests, removals and starts meet.
THEOREM NothingEverDangles == Spec => []NothingDangles
<1>1. Spec => Promise!Spec
  BY LibraryImplementsSharing DEF ImplementsSharing
<1>2. Promise!Spec => []NothingDangles
  BY SharingSuffices
<1> QED BY <1>1, <1>2
=============================================================================
