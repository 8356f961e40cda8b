---------------------------- MODULE VoiceLibrary ----------------------------
(***************************************************************************)
(* Timbre's voice library: the voices and voice_assignments tables, the    *)
(* reference files, the requests that change them, the worker's read of a  *)
(* reference for a job, and what every start does: the migrations of the   *)
(* voice columns, the backfill of assignments and the seed.                *)
(*                                                                         *)
(* Accounts models users and the gates; here a user is present or not and  *)
(* an administrator or not, and both change at any moment.  A transaction  *)
(* that begins with a SELECT writes only while its snapshot is the         *)
(* database (`fresh'); every other statement or transaction is one step.   *)
(* Jobs are MOSS jobs: the only ones whose voice may be missing at submit. *)
(***************************************************************************)
EXTENDS Naturals, FiniteSets

CONSTANTS
  MaxVoices,     \* ids of voices handed out by AUTOINCREMENT (bound)
  MaxJobs,       \* ids of jobs handed out (bound)
  Users,         \* ids of accounts
  NoUser,        \* SQL NULL for a user id
  Paths,         \* names randomName may return (bound)
  NoPath,        \* SQL NULL for a reference path
  Handlers,      \* concurrent HTTP requests (bound)
  Operations,    \* what users ask for, of AllOperations
  MaxRestarts    \* crashes and stops (bound)

Voices == 1..MaxVoices
Jobs == 1..MaxJobs
Columns == {"creator", "global"}
AdminOps == {"assign", "clear", "unassign", "share", "unshare", "purge"}
AllOperations == AdminOps \cup {"upload", "delete", "job"}

ASSUME LibraryAssumption ==
  /\ MaxVoices \in Nat
  /\ MaxJobs \in Nat
  /\ MaxRestarts \in Nat
  /\ NoUser \notin Users
  /\ NoPath \notin Paths
  /\ Operations \subseteq AllOperations

VARIABLES
  kind, ref, owner, creator,          \* the voices table, one row per id
  global,                             \* the voices whose is_global is 1
  assigned,                           \* voice_assignments: <<voice, user>>
  columns, legacy,                    \* columns added so far; no start completed
  disk,                               \* the reference files
  users, admins,                      \* accounts there are, administrators
  job, jobUser, jobVoice,             \* the jobs table
  wjob, wvoice, wpath,                \* the worker: job, its voice, the path read
  hpc, hwho, hop, hvoice, huser, hpath, hadmin,   \* each request
  fresh,                              \* the open snapshots still up to date
  proc, restarts, cut                 \* cut: a crash interrupted some request

rowVars     == <<kind, ref, owner, creator, global, assigned>>
schemaVars  == <<columns, legacy>>
userVars    == <<users, admins>>
jobVars     == <<job, jobUser, jobVoice>>
workerVars  == <<wjob, wvoice, wpath>>
handlerVars == <<hpc, hwho, hop, hvoice, huser, hpath, hadmin>>
procVars    == <<proc, restarts, cut>>
vars == <<rowVars, schemaVars, disk, userVars, jobVars, workerVars, handlerVars,
          fresh, procVars>>

Kinds == {"stock", "stale", "cloned"}
Present(v) == v \in Voices /\ kind[v] \in Kinds
Of(k) == {v \in Voices : kind[v] = k}

TypeOK ==
  /\ kind \in [Voices -> Kinds \cup {"absent", "deleted"}]
  /\ ref \in [Voices -> Paths \cup {NoPath}]
  /\ owner \in [Voices -> Users \cup {NoUser}]
  /\ creator \in [Voices -> Users \cup {NoUser}]
  /\ global \subseteq Voices
  /\ assigned \subseteq Voices \X Users
  /\ columns \subseteq Columns /\ legacy \in BOOLEAN
  /\ disk \subseteq Paths
  /\ users \subseteq Users /\ admins \subseteq users
  /\ job \in [Jobs -> {"absent", "queued", "plain", "voiced", "failed", "deleted"}]
  /\ jobUser \in [Jobs -> Users \cup {NoUser}]
  /\ jobVoice \in [Jobs -> Voices \cup {0}]
  /\ wjob \in Jobs \cup {0} /\ wvoice \in Voices \cup {0}
  /\ wpath \in Paths \cup {NoPath}
  /\ hpc \in [Handlers -> {"idle", "save", "insert", "lookup", "act", "identity",
                           "read", "write", "unlink", "access", "enqueue"}]
  /\ hwho \in [Handlers -> Users \cup {NoUser}]
  /\ hop \in [Handlers -> AllOperations \cup {"none"}]
  /\ hvoice \in [Handlers -> Voices \cup {0}]
  /\ huser \in [Handlers -> Users \cup {NoUser}]
  /\ hpath \in [Handlers -> Paths \cup {NoPath}]
  /\ hadmin \subseteq Handlers
  /\ fresh \subseteq Handlers
  /\ proc \in {"down", "creators", "flag", "promote", "mirror", "seed", "reconcile", "up"}
  /\ restarts \in 0..MaxRestarts /\ cut \in BOOLEAN

NoRequests ==
  /\ hpc = [h \in Handlers |-> "idle"] /\ hwho = [h \in Handlers |-> NoUser]
  /\ hop = [h \in Handlers |-> "none"] /\ hvoice = [h \in Handlers |-> 0]
  /\ huser = [h \in Handlers |-> NoUser] /\ hpath = [h \in Handlers |-> NoPath]
  /\ hadmin = {} /\ fresh = {}

\* The table an older release leaves: a stock voice, in the list still (k) or not
\* any more, and a clone that belongs to its owner, without assignments and
\* without the columns of creator_id and, before it, is_global.
LegacyRows(k, u, p) ==
  /\ kind = [v \in Voices |-> IF v = 1 THEN k ELSE IF v = 2 THEN "cloned" ELSE "absent"]
  /\ ref = [v \in Voices |-> IF v = 2 THEN p ELSE NoPath]
  /\ owner = [v \in Voices |-> IF v = 2 THEN u ELSE NoUser]
  /\ disk = {p}
  /\ columns \in {{}, {"global"}}
  /\ global = IF "global" \in columns THEN {1} ELSE {}
  /\ legacy = TRUE

EmptyTable ==
  /\ kind = [v \in Voices |-> "absent"]
  /\ ref = [v \in Voices |-> NoPath]
  /\ owner = [v \in Voices |-> NoUser]
  /\ disk = {} /\ columns = Columns /\ global = {} /\ legacy = FALSE

Init ==
  /\ \/ EmptyTable
     \/ \E k \in {"stock", "stale"}, u \in Users, p \in Paths :
          (MaxVoices >= IF k = "stale" THEN 3 ELSE 2) /\ LegacyRows(k, u, p)
  /\ creator = [v \in Voices |-> NoUser]
  /\ assigned = {}
  /\ users = Users /\ admins \in SUBSET Users \ {{}}
  /\ job = [j \in Jobs |-> "absent"]
  /\ jobUser = [j \in Jobs |-> NoUser] /\ jobVoice = [j \in Jobs |-> 0]
  /\ wjob = 0 /\ wvoice = 0 /\ wpath = NoPath
  /\ NoRequests
  /\ proc = "down" /\ restarts = 0 /\ cut = FALSE

-----------------------------------------------------------------------------
(* Statements.                                                              *)

\* Every commit, on whatever table, makes the other snapshots stale.
Commits == fresh' = {}

\* The next id: AUTOINCREMENT never hands out one that was used before.
NextVoice(v) == kind[v] = "absent" /\ \A w \in 1..(v - 1) : kind[w] # "absent"

InsertVoice(v, k, p, u) ==
  /\ NextVoice(v)
  /\ kind' = [kind EXCEPT ![v] = k]
  /\ ref' = [ref EXCEPT ![v] = p]
  /\ owner' = [owner EXCEPT ![v] = u]
  /\ creator' = [creator EXCEPT ![v] = u]

\* DELETE FROM voices: assignments cascade, jobs keep their row without a voice.
DeleteRows(gone) ==
  /\ kind' = [v \in Voices |-> IF v \in gone THEN "deleted" ELSE kind[v]]
  /\ ref' = [v \in Voices |-> IF v \in gone THEN NoPath ELSE ref[v]]
  /\ owner' = [v \in Voices |-> IF v \in gone THEN NoUser ELSE owner[v]]
  /\ creator' = [v \in Voices |-> IF v \in gone THEN NoUser ELSE creator[v]]
  /\ global' = global \ gone
  /\ assigned' = assigned \ (gone \X Users)
  /\ jobVoice' = [j \in Jobs |-> IF jobVoice[j] \in gone THEN 0 ELSE jobVoice[j]]

Accessible(v, u) == Present(v) /\ (v \in global \/ <<v, u>> \in assigned)

-----------------------------------------------------------------------------
(* Requests.                                                                *)

HandlerGoes(h, pc) ==
  /\ hpc' = [hpc EXCEPT ![h] = pc]
  /\ UNCHANGED <<hwho, hop, hvoice, huser, hpath, hadmin>>

EndRequest(h) ==
  /\ hpc' = [hpc EXCEPT ![h] = "idle"] /\ hwho' = [hwho EXCEPT ![h] = NoUser]
  /\ hop' = [hop EXCEPT ![h] = "none"] /\ hvoice' = [hvoice EXCEPT ![h] = 0]
  /\ huser' = [huser EXCEPT ![h] = NoUser] /\ hpath' = [hpath EXCEPT ![h] = NoPath]
  /\ hadmin' = hadmin \ {h}

First == [upload |-> "save", job |-> "access", delete |-> "identity",
          assign |-> "lookup", clear |-> "act", share |-> "act", unshare |-> "act",
          unassign |-> "read", purge |-> "read"]

\* A request of u that passed the gates.  v is the id it names, of a voice there
\* is: an id that names nothing changes nothing.  The administrators' routes
\* see to it that u is one at this moment, and do not use u again.
Begin(h, u, o, v) ==
  LET forAdmins == o \in AdminOps
      targets == IF o \in {"assign", "unassign"} THEN Users ELSE {NoUser}
  IN  /\ proc = "up" /\ hpc[h] = "idle"
      /\ IF o = "upload" THEN v = 0 ELSE Present(v)
      /\ u \in IF forAdmins THEN admins ELSE users
      /\ hpc' = [hpc EXCEPT ![h] = First[o]]
      /\ hop' = [hop EXCEPT ![h] = o]
      /\ hvoice' = [hvoice EXCEPT ![h] = v]
      /\ huser' \in {[huser EXCEPT ![h] = t] : t \in targets}
      /\ hwho' = IF forAdmins THEN hwho ELSE [hwho EXCEPT ![h] = u]
      /\ hadmin' = IF forAdmins THEN hadmin \cup {h} ELSE hadmin
      /\ UNCHANGED <<hpath, rowVars, schemaVars, disk, userVars, jobVars, workerVars, fresh,
                     procVars>>

\* Deviation: the file stays when the row is refused.
RequestFailsUncleaned(h) ==
  /\ hpc[h] \notin {"idle", "unlink"}
  /\ fresh' = fresh \ {h}
  /\ EndRequest(h)
  /\ UNCHANGED <<disk, rowVars, schemaVars, userVars, jobVars, workerVars, procVars>>

\* A statement fails, or the client is told no.  What the request holds on disk
\* before its row exists is removed.
RequestFails(h) ==
  /\ hpc[h] \notin {"idle", "unlink"}
  /\ disk' = IF hpc[h] = "insert" THEN disk \ {hpath[h]} ELSE disk
  /\ fresh' = fresh \ {h}
  /\ EndRequest(h)
  /\ UNCHANGED <<rowVars, schemaVars, userVars, jobVars, workerVars, procVars>>

\* CreateCloned: the file under a random name, then row and assignment in one
\* transaction, which the foreign keys refuse when the user is gone.
SaveReference(h, p) ==
  /\ hpc[h] = "save"
  /\ p \notin disk /\ p # wpath
  /\ \A v \in Voices : ref[v] # p
  /\ \A g \in Handlers : hpath[g] # p
  /\ disk' = disk \cup {p}
  /\ hpc' = [hpc EXCEPT ![h] = "insert"]
  /\ hpath' = [hpath EXCEPT ![h] = p]
  /\ UNCHANGED <<hwho, hop, hvoice, huser, hadmin, rowVars, schemaVars, userVars, jobVars,
                 workerVars, fresh, procVars>>

InsertClone(h, v) ==
  /\ hpc[h] = "insert" /\ hwho[h] \in users
  /\ InsertVoice(v, "cloned", hpath[h], hwho[h])
  /\ assigned' = assigned \cup {<<v, hwho[h]>>}
  /\ Commits
  /\ EndRequest(h)
  /\ UNCHANGED <<global, schemaVars, disk, userVars, jobVars, workerVars, procVars>>

\* handleAdminVoiceOwner: the user is looked up in a statement of its own, then
\* Assign writes the mirror and the grant; the foreign keys need the user.
AssignLookup(h) ==
  /\ hpc[h] = "lookup" /\ huser[h] \in users
  /\ HandlerGoes(h, "act")
  /\ UNCHANGED <<rowVars, schemaVars, disk, userVars, jobVars, workerVars, fresh, procVars>>

Assign(h) ==
  /\ hpc[h] = "act" /\ hop[h] = "assign"
  /\ Present(hvoice[h]) /\ huser[h] \in users
  /\ owner' = [owner EXCEPT ![hvoice[h]] = huser[h]]
  /\ assigned' = assigned \cup {<<hvoice[h], huser[h]>>}
  /\ Commits
  /\ EndRequest(h)
  /\ UNCHANGED <<kind, ref, creator, global, schemaVars, disk, userVars, jobVars, workerVars,
                 procVars>>

\* Deviation: nobody is assigned as if 0 were a user.
AssignNobody(h) ==
  /\ hpc[h] = "act" /\ hop[h] = "clear"
  /\ Present(hvoice[h])
  /\ owner' = [owner EXCEPT ![hvoice[h]] = NoUser]
  /\ assigned' = assigned \cup {<<hvoice[h], NoUser>>}
  /\ Commits
  /\ EndRequest(h)
  /\ UNCHANGED <<kind, ref, creator, global, schemaVars, disk, userVars, jobVars, workerVars,
                 procVars>>

\* user_id=0 clears the mirror and every grant.
ClearGrants(h) ==
  /\ hpc[h] = "act" /\ hop[h] = "clear"
  /\ Present(hvoice[h])
  /\ owner' = [owner EXCEPT ![hvoice[h]] = NoUser]
  /\ assigned' = assigned \ ({hvoice[h]} \X Users)
  /\ Commits
  /\ EndRequest(h)
  /\ UNCHANGED <<kind, ref, creator, global, schemaVars, disk, userVars, jobVars, workerVars,
                 procVars>>

SetGlobal(h) ==
  /\ hpc[h] = "act" /\ hop[h] \in {"share", "unshare"}
  /\ Present(hvoice[h])
  /\ global' = IF hop[h] = "share" THEN global \cup {hvoice[h]} ELSE global \ {hvoice[h]}
  /\ Commits
  /\ EndRequest(h)
  /\ UNCHANGED <<kind, ref, owner, creator, assigned, schemaVars, disk, userVars, jobVars,
                 workerVars, procVars>>

\* handleVoiceDelete asks who the user is, once, before the transaction.
Identity(h) ==
  /\ hpc[h] = "identity" /\ hwho[h] \in users
  /\ hpc' = [hpc EXCEPT ![h] = "read"]
  /\ hadmin' = IF hwho[h] \in admins THEN hadmin \cup {h} ELSE hadmin
  /\ UNCHANGED <<hwho, hop, hvoice, huser, hpath, rowVars, schemaVars, disk, userVars, jobVars,
                 workerVars, fresh, procVars>>

\* Deviation: the owner mirror decides.
OwnerMayDelete(h) ==
  kind[hvoice[h]] = "cloned" /\ (h \in hadmin \/ owner[hvoice[h]] = hwho[h])

MayDelete(h) ==
  kind[hvoice[h]] = "cloned" /\ (h \in hadmin \/ creator[hvoice[h]] = hwho[h])

\* The SELECT of Delete and of Unassign: the checks, and for Delete the path.
\* A voice that may not be changed ends the request (RequestFails).
TxRead(h) ==
  /\ hpc[h] = "read" /\ Present(hvoice[h])
  /\ hop[h] # "unassign" => MayDelete(h)
  /\ hpc' = [hpc EXCEPT ![h] = "write"]
  /\ hpath' = [hpath EXCEPT ![h] = IF hop[h] = "unassign" THEN NoPath ELSE ref[hvoice[h]]]
  /\ fresh' = fresh \cup {h}
  /\ UNCHANGED <<hwho, hop, hvoice, huser, hadmin, rowVars, schemaVars, disk, userVars, jobVars,
                 workerVars, procVars>>

\* Deviation: the mirror keeps naming the user.
UnassignKeepsMirror(h) ==
  /\ hpc[h] = "write" /\ hop[h] = "unassign" /\ h \in fresh
  /\ assigned' = assigned \ {<<hvoice[h], huser[h]>>}
  /\ Commits
  /\ EndRequest(h)
  /\ UNCHANGED <<owner, kind, ref, creator, global, schemaVars, disk, userVars, jobVars,
                 workerVars, procVars>>

Unassign(h) ==
  /\ hpc[h] = "write" /\ hop[h] = "unassign" /\ h \in fresh
  /\ assigned' = assigned \ {<<hvoice[h], huser[h]>>}
  /\ owner' = IF owner[hvoice[h]] = huser[h]
                THEN [owner EXCEPT ![hvoice[h]] = NoUser] ELSE owner
  /\ Commits
  /\ EndRequest(h)
  /\ UNCHANGED <<kind, ref, creator, global, schemaVars, disk, userVars, jobVars, workerVars,
                 procVars>>

\* Deviation: the file goes before the commit.
DeleteFileFirst(h) ==
  /\ hpc[h] = "write" /\ hop[h] \in {"delete", "purge"}
  /\ disk' = disk \ {hpath[h]}
  /\ IF h \in fresh THEN DeleteRows({hvoice[h]}) ELSE UNCHANGED <<rowVars, jobVoice>>
  /\ Commits
  /\ EndRequest(h)
  /\ UNCHANGED <<job, jobUser, schemaVars, userVars, workerVars, procVars>>

DeleteVoice(h) ==
  /\ hpc[h] = "write" /\ hop[h] \in {"delete", "purge"} /\ h \in fresh
  /\ DeleteRows({hvoice[h]})
  /\ Commits
  /\ HandlerGoes(h, "unlink")
  /\ UNCHANGED <<job, jobUser, schemaVars, disk, userVars, workerVars, procVars>>

Unlink(h) ==
  /\ hpc[h] = "unlink"
  /\ disk' = disk \ {hpath[h]}
  /\ EndRequest(h)
  /\ UNCHANGED <<rowVars, schemaVars, userVars, jobVars, workerVars, fresh, procVars>>

\* handleCreateJob: access is checked before, and apart from, the INSERT; the
\* foreign keys want the voice and the user to be there still.
CheckAccess(h) ==
  /\ hpc[h] = "access" /\ Accessible(hvoice[h], hwho[h])
  /\ HandlerGoes(h, "enqueue")
  /\ UNCHANGED <<rowVars, schemaVars, disk, userVars, jobVars, workerVars, fresh, procVars>>

Enqueue(h, j) ==
  /\ hpc[h] = "enqueue" /\ Present(hvoice[h]) /\ hwho[h] \in users
  /\ job[j] = "absent" /\ \A i \in 1..(j - 1) : job[i] # "absent"
  /\ job' = [job EXCEPT ![j] = "queued"]
  /\ jobUser' = [jobUser EXCEPT ![j] = hwho[h]]
  /\ jobVoice' = [jobVoice EXCEPT ![j] = hvoice[h]]
  /\ Commits
  /\ EndRequest(h)
  /\ UNCHANGED <<rowVars, schemaVars, disk, userVars, workerVars, procVars>>

-----------------------------------------------------------------------------
(* Accounts, as far as the library sees them: the last administrator stays. *)

\* deleteAdminUser: cards stay without owner and creator, grants and jobs go.
RemoveUser(u) ==
  /\ proc = "up" /\ u \in users /\ admins # {u}
  /\ users' = users \ {u} /\ admins' = admins \ {u}
  /\ owner' = [v \in Voices |-> IF owner[v] = u THEN NoUser ELSE owner[v]]
  /\ creator' = [v \in Voices |-> IF creator[v] = u THEN NoUser ELSE creator[v]]
  /\ assigned' = assigned \ (Voices \X {u})
  /\ job' = [j \in Jobs |-> IF jobUser[j] = u THEN "deleted" ELSE job[j]]
  /\ jobVoice' = [j \in Jobs |-> IF jobUser[j] = u THEN 0 ELSE jobVoice[j]]
  /\ jobUser' = [j \in Jobs |-> IF jobUser[j] = u THEN NoUser ELSE jobUser[j]]
  /\ Commits
  /\ UNCHANGED <<kind, ref, global, schemaVars, disk, workerVars, handlerVars, procVars>>

SetRole(u) ==
  /\ proc = "up" /\ u \in users /\ admins # {u}
  /\ admins' = IF u \in admins THEN admins \ {u} ELSE admins \cup {u}
  /\ Commits
  /\ UNCHANGED <<users, rowVars, schemaVars, disk, jobVars, workerVars, handlerVars, procVars>>

-----------------------------------------------------------------------------
(* The worker: buildInput reads the row, then the file.                     *)

WorkerEnds == wjob' = 0 /\ wvoice' = 0 /\ wpath' = NoPath

Decide(outcome) ==
  /\ job' = IF job[wjob] = "queued" THEN [job EXCEPT ![wjob] = outcome] ELSE job
  /\ Commits
  /\ WorkerEnds
  /\ UNCHANGED <<jobUser, jobVoice, rowVars, schemaVars, disk, userVars, handlerVars, procVars>>

\* ClaimQueued: the row as it is at this moment, with its voice if it has one.
Claim(j) ==
  /\ proc = "up" /\ wjob = 0 /\ job[j] = "queued"
  /\ wjob' = j /\ wvoice' = jobVoice[j]
  /\ UNCHANGED <<wpath, rowVars, schemaVars, disk, userVars, jobVars, handlerVars, fresh, procVars>>

HasReference(v) == Present(v) /\ ref[v] # NoPath

ReferenceRow ==
  /\ wjob # 0 /\ wpath = NoPath /\ HasReference(wvoice)
  /\ wpath' = ref[wvoice]
  /\ UNCHANGED <<wjob, wvoice, rowVars, schemaVars, disk, userVars, jobVars, handlerVars, fresh,
                 procVars>>

\* No voice, a stock voice, or one deleted since: rendered without a reference.
SubmitPlain ==
  /\ wjob # 0 /\ wpath = NoPath /\ ~HasReference(wvoice)
  /\ Decide("plain")

SubmitVoiced == wjob # 0 /\ wpath \in disk /\ Decide("voiced")

\* The file is not there: an error that is taken to be permanent.
FailUnreadable == wjob # 0 /\ wpath # NoPath /\ wpath \notin disk /\ Decide("failed")

\* The submission meets an error that is retried at another tick.
Retry ==
  /\ wjob # 0
  /\ WorkerEnds
  /\ UNCHANGED <<rowVars, schemaVars, disk, userVars, jobVars, handlerVars, fresh, procVars>>

-----------------------------------------------------------------------------
(* A start, statement by statement; nothing is served before its end.       *)

StartGoes(from, to) ==
  /\ proc = from /\ proc' = to
  /\ Commits
  /\ UNCHANGED <<restarts, cut, disk, userVars, job, jobUser, workerVars, handlerVars>>

\* Deviation: creators are filled in at every start.
AddCreatorAlways ==
  /\ StartGoes("down", "creators")
  /\ columns' = columns \cup {"creator"}
  /\ UNCHANGED <<rowVars, legacy, jobVoice>>

\* migrateVoiceColumns adds a column and, only if it was not there, fills it in
\* with a second statement.
AddCreator ==
  /\ StartGoes("down", IF "creator" \in columns THEN "flag" ELSE "creators")
  /\ columns' = columns \cup {"creator"}
  /\ UNCHANGED <<rowVars, legacy, jobVoice>>

BackfillCreators ==
  /\ StartGoes("creators", "flag")
  /\ creator' = [v \in Voices |->
       IF kind[v] = "cloned" /\ creator[v] = NoUser THEN owner[v] ELSE creator[v]]
  /\ UNCHANGED <<kind, ref, owner, global, assigned, schemaVars, jobVoice>>

AddGlobal ==
  /\ StartGoes("flag", IF "global" \in columns THEN "mirror" ELSE "promote")
  /\ columns' = columns \cup {"global"}
  /\ UNCHANGED <<rowVars, legacy, jobVoice>>

PromoteStock ==
  /\ StartGoes("promote", "mirror")
  /\ global' = global \cup Of("stock") \cup Of("stale")
  /\ UNCHANGED <<kind, ref, owner, creator, assigned, schemaVars, jobVoice>>

\* backfillLegacyVoiceOwners, at every start.
BackfillOwners ==
  /\ StartGoes("mirror", "seed")
  /\ assigned' = assigned \cup {<<v, owner[v]>> : v \in {w \in Voices : owner[w] # NoUser}}
  /\ legacy' = FALSE
  /\ UNCHANGED <<columns, kind, ref, owner, creator, global, jobVoice>>

\* SeedStock: insert what is missing, then delete what is no longer listed.
SeedStock ==
  /\ StartGoes("seed", "reconcile")
  /\ IF Of("stock") # {} THEN UNCHANGED rowVars
     ELSE \E v \in Voices :
            /\ InsertVoice(v, "stock", NoPath, NoUser)
            /\ global' = global \cup {v}
            /\ UNCHANGED assigned
  /\ UNCHANGED <<schemaVars, jobVoice>>

Reconcile ==
  /\ StartGoes("reconcile", "up")
  /\ DeleteRows(Of("stale"))
  /\ UNCHANGED schemaVars

\* The process ends, at any moment.
Down ==
  /\ proc # "down" /\ restarts < MaxRestarts
  /\ proc' = "down" /\ restarts' = restarts + 1
  /\ cut' = (cut \/ \E h \in Handlers : hpc[h] # "idle")
  /\ hpc' = [h \in Handlers |-> "idle"] /\ hwho' = [h \in Handlers |-> NoUser]
  /\ hop' = [h \in Handlers |-> "none"] /\ hvoice' = [h \in Handlers |-> 0]
  /\ huser' = [h \in Handlers |-> NoUser] /\ hpath' = [h \in Handlers |-> NoPath]
  /\ hadmin' = {}
  /\ Commits
  /\ WorkerEnds
  /\ UNCHANGED <<rowVars, schemaVars, disk, userVars, jobVars>>

-----------------------------------------------------------------------------
Begins(h) == \E u \in Users, o \in Operations, v \in Voices \cup {0} : Begin(h, u, o, v)

Uploads(h) ==
  \/ \E p \in Paths : SaveReference(h, p)
  \/ \E v \in Voices : InsertClone(h, v)

Grants(h) == AssignLookup(h) \/ Assign(h) \/ ClearGrants(h) \/ SetGlobal(h) \/ Unassign(h)

Deletes(h) == Identity(h) \/ TxRead(h) \/ DeleteVoice(h) \/ Unlink(h)

CreatesJob(h) == CheckAccess(h) \/ \E j \in Jobs : Enqueue(h, j)

Worker ==
  \/ \E j \in Jobs : Claim(j)
  \/ ReferenceRow \/ SubmitPlain \/ SubmitVoiced \/ FailUnreadable \/ Retry

Start ==
  \/ AddCreator \/ BackfillCreators \/ AddGlobal \/ PromoteStock \/ BackfillOwners
  \/ SeedStock \/ Reconcile

Next ==
  \/ \E h \in Handlers :
       Begins(h) \/ RequestFails(h) \/ Uploads(h) \/ Grants(h) \/ Deletes(h) \/ CreatesJob(h)
  \/ \E u \in Users : RemoveUser(u) \/ SetRole(u)
  \/ Worker \/ Start \/ Down

Spec == Init /\ [][Next]_vars

-----------------------------------------------------------------------------
(* Safety.                                                                  *)

\* A clone that is in the library has its file: written before the row, unlinked
\* after the row is gone, and never taken by a failed upload (voices.go
\* CreateCloned, Delete; server/voices.go deleteVoice).
CloneHasFile ==
  \A v \in Voices : kind[v] = "cloned" => ref[v] \in disk

\* No reference file is left that no row names, unless a crash cut a request
\* short (CreateCloned's cleanup, deleteVoice).
NoOrphanFile ==
  ~cut => \A p \in disk : \/ \E v \in Voices : ref[v] = p
                          \/ \E h \in Handlers : hpath[h] = p

\* Access to a voice comes from its upload, from an administrator's assignment
\* or from the first start on an older database: a later start never gives
\* back what was taken (backfillLegacyVoiceOwners and the owner mirror).
AccessIsGranted ==
  [][\A g \in (assigned' \ assigned) :
       \/ legacy
       \/ \E h \in Handlers : hpc[h] = "insert" /\ hwho[h] = g[2]
       \/ \E h \in Handlers : hop[h] = "assign" /\ hvoice[h] = g[1] /\ huser[h] = g[2]]_vars

\* Authorship is not reassigned: the creator of a voice changes only to nobody,
\* by the removal of that account (README.md:206; Assign, the backfill).
CreatorIsStable ==
  [][\A v \in Voices : Present(v) /\ ~legacy => creator'[v] \in {creator[v], NoUser}]_vars

\* A clone is deleted only by the user who created it or by one who was an
\* administrator when the request asked (Delete, handleVoiceDelete).
DeletedByEntitled ==
  [][\A v \in Voices : kind[v] = "cloned" /\ kind'[v] = "deleted" =>
       \E h \in Handlers :
         hvoice[h] = v /\ hpc[h] = "write" /\ (h \in hadmin \/ creator[v] = hwho[h])]_vars

\* While its voice is in the library a MOSS job with a cloned voice is neither
\* failed for its reference nor rendered without it, although row and file are
\* read apart (worker.go buildInput, voices.go Reference).
CloneIsHeard ==
  [][\A j \in Jobs : job[j] = "queued" /\ job'[j] \in {"plain", "failed"}
       => jobVoice[j] = 0 \/ kind[jobVoice[j]] # "cloned"]_vars

\* The library keeps the promise of Sharing: requests, files, the owner mirror,
\* the worker's two reads and every start change what users see as if each
\* operation were one step on the library of that moment, and what a member
\* authored stays that member's (README.md:206; voices.go, db.go Migrate).
Promise == INSTANCE Sharing WITH
  author <- creator, everyone <- global, grants <- assigned, members <- users,
  asker <- jobUser, wish <- jobVoice, taken <- ~legacy, open <- (proc = "up"),
  Nobody <- NoUser

ImplementsSharing == Promise!Spec
=============================================================================
