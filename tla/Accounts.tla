------------------------------ MODULE Accounts ------------------------------
(***************************************************************************)
(* Timbre's accounts: the users and access_requests tables, the sessions   *)
(* that name users, the gates every request passes, the administrators'    *)
(* operations, and what every start of the process does to the users.      *)
(*                                                                         *)
(* A statement outside a transaction is one step.  A transaction that      *)
(* begins with a SELECT holds a snapshot from there on; SQLite lets it     *)
(* write only if nothing was committed since (SQLITE_BUSY_SNAPSHOT), which *)
(* `fresh' records: the requests whose snapshot is still the database.  A  *)
(* transaction that begins with a write holds the write lock to its end,   *)
(* so it is one step as well.                                              *)
(***************************************************************************)
EXTENDS Naturals, FiniteSets

CONSTANTS
  MaxUsers,      \* ids of users handed out by AUTOINCREMENT (bound)
  MaxRequests,   \* ids of access requests handed out (bound)
  Names,         \* usernames
  Root,          \* ADMIN_USERNAME, one of Names
  Configured,    \* whether ADMIN_USERNAME and ADMIN_PASSWORD are set
  Handlers,      \* concurrent HTTP requests (bound)
  Paths,         \* names os.CreateTemp may return for AuK inputs (bound)
  Operations,    \* what signed-in users ask for, of AllOperations
  MaxRestarts    \* crashes and stops (bound)

Users == 1..MaxUsers
Requests == 1..MaxRequests
UserOps == {"enable", "disable", "promote", "demote", "delete"}
RequestOps == {"accept", "deny", "forget"}
AdminOps == UserOps \cup RequestOps
AllOperations == AdminOps \cup {"job"}

ASSUME AccountsAssumption ==
  /\ MaxUsers \in Nat
  /\ MaxRequests \in Nat
  /\ MaxRestarts \in Nat
  /\ Root \in Names
  /\ Configured \in BOOLEAN
  /\ Operations \subseteq AllOperations

VARIABLES
  role, state, name,                  \* the users table, one row per id
  request, applicant, decidedBy,      \* the access_requests table
  granted,                            \* the accounts a request was turned into
  sessions,                           \* the users some stored session names
  jobOwner,                           \* the user of the job that names a path
  disk,                               \* the input files on disk
  hpc, hwho, hop, harg, hpaths,       \* each request: where it is, for whom
  fresh,                              \* the open snapshots still up to date
  wasApproved, wasAdmin,              \* requests whose user was, since it began
  proc, restarts, cut                 \* cut: a crash interrupted some request

userVars    == <<role, state, name>>
requestVars == <<request, applicant, decidedBy, granted>>
jobVars     == <<jobOwner, disk>>
handlerVars == <<hpc, hwho, hop, harg, hpaths>>
procVars    == <<proc, restarts, cut>>
seenVars    == <<wasApproved, wasAdmin>>
vars == <<userVars, requestVars, sessions, jobVars, handlerVars, fresh, seenVars,
          procVars>>

Present(u) == u \in Users /\ state[u] \notin {"absent", "deleted"}

TypeOK ==
  /\ role \in [Users -> {"user", "admin"}]
  /\ state \in [Users -> {"absent", "pending", "approved", "disabled", "deleted"}]
  /\ name \in [Users -> Names]
  /\ request \in [Requests -> {"absent", "pending", "approved", "denied", "deleted"}]
  /\ applicant \in [Requests -> Names]
  /\ decidedBy \in [Requests -> Users \cup {0}]
  /\ granted \in [Requests -> SUBSET Users]
  /\ sessions \subseteq Users
  /\ jobOwner \in [Paths -> Users \cup {0}]
  /\ disk \subseteq Paths
  /\ hpc \in [Handlers -> {"idle", "login", "pending", "insert", "gate", "admin",
                           "act", "write", "unlink", "logout", "save", "enqueue"}]
  /\ hwho \in [Handlers -> Users \cup {0}]
  /\ hop \in [Handlers -> AllOperations \cup {"none"}]
  /\ harg \in [Handlers -> Users \cup Requests \cup Names \cup {0}]
  /\ hpaths \in [Handlers -> SUBSET Paths]
  /\ fresh \subseteq Handlers
  /\ wasApproved \subseteq Handlers
  /\ wasAdmin \subseteq Handlers
  /\ proc \in {"down", "migrated", "up"}
  /\ restarts \in 0..MaxRestarts
  /\ cut \in BOOLEAN

NoRequests ==
  /\ hpc = [h \in Handlers |-> "idle"] /\ hwho = [h \in Handlers |-> 0]
  /\ hop = [h \in Handlers |-> "none"] /\ harg = [h \in Handlers |-> 0]
  /\ hpaths = [h \in Handlers |-> {}]
  /\ fresh = {} /\ wasApproved = {} /\ wasAdmin = {}

Init ==
  /\ role = [u \in Users |-> "user"]
  /\ state = [u \in Users |-> "absent"]
  /\ name = [u \in Users |-> Root]
  /\ request = [q \in Requests |-> "absent"]
  /\ applicant = [q \in Requests |-> Root]
  /\ decidedBy = [q \in Requests |-> 0]
  /\ granted = [q \in Requests |-> {}]
  /\ sessions = {}
  /\ jobOwner = [p \in Paths |-> 0] /\ disk = {}
  /\ NoRequests
  /\ proc = "down" /\ restarts = 0 /\ cut = FALSE

-----------------------------------------------------------------------------
(* Statements.                                                              *)

\* Every commit, on whatever table, makes the other snapshots stale.
Commits == fresh' = {}

Taken(n) == \E u \in Users : Present(u) /\ name[u] = n

\* Deviation: INTEGER PRIMARY KEY alone, which hands a deleted id out again.
ReusesIds(u) == ~Present(u) /\ \A v \in 1..(u - 1) : Present(v)

\* The next id: AUTOINCREMENT never hands out one that was used before.
NextUser(u) == state[u] = "absent" /\ \A v \in 1..(u - 1) : state[v] # "absent"

\* An INSERT, which the UNIQUE username refuses when the name is taken.
InsertUser(u, n, r, s) ==
  /\ NextUser(u) /\ ~Taken(n)
  /\ role' = [role EXCEPT ![u] = r]
  /\ state' = [state EXCEPT ![u] = s]
  /\ name' = [name EXCEPT ![u] = n]

ApprovedAdmins == {u \in Users : role[u] = "admin" /\ state[u] = "approved"}

\* Deviation: the statement does not ask for a pending request.
ClaimAny(q, to, admin) ==
  /\ request[q] \in {"pending", "approved", "denied"} /\ Present(admin)
  /\ request' = [request EXCEPT ![q] = to]
  /\ decidedBy' = [decidedBy EXCEPT ![q] = admin]

\* claim: one conditional UPDATE.  decided_by is a foreign key, so it fails
\* when the deciding administrator's own account was deleted meanwhile.
Claim(q, to, admin) ==
  /\ request[q] = "pending" /\ Present(admin)
  /\ request' = [request EXCEPT ![q] = to]
  /\ decidedBy' = [decidedBy EXCEPT ![q] = admin]

-----------------------------------------------------------------------------
(* Requests.                                                                *)

HandlerGoes(h, pc) ==
  hpc' = [hpc EXCEPT ![h] = pc] /\ UNCHANGED <<hwho, hop, harg, hpaths>>

EndRequest(h) ==
  /\ hpc' = [hpc EXCEPT ![h] = "idle"] /\ hwho' = [hwho EXCEPT ![h] = 0]
  /\ hop' = [hop EXCEPT ![h] = "none"] /\ harg' = [harg EXCEPT ![h] = 0]
  /\ hpaths' = [hpaths EXCEPT ![h] = {}]

StartRequest(h, pc, u, o, a) ==
  /\ proc = "up" /\ hpc[h] = "idle"
  /\ hpc' = [hpc EXCEPT ![h] = pc] /\ hwho' = [hwho EXCEPT ![h] = u]
  /\ hop' = [hop EXCEPT ![h] = o] /\ harg' = [harg EXCEPT ![h] = a]
  /\ UNCHANGED hpaths

\* POST /register is one INSERT; the account waits for approval.
Register(u, n) ==
  /\ proc = "up"
  /\ InsertUser(u, n, "user", "pending")
  /\ Commits
  /\ UNCHANGED <<requestVars, sessions, jobVars, handlerVars, procVars>>

\* Login reads the row and, after the password, stores a session: the account
\* may be gone by then.
LoginLookup(h, u) ==
  /\ Present(u)
  /\ StartRequest(h, "login", u, "none", 0)
  /\ UNCHANGED <<userVars, requestVars, sessions, jobVars, fresh, procVars>>

\* Deviation: the id is stored before it is read from the row.
LoginSaveZero(h) ==
  /\ hpc[h] = "login"
  /\ sessions' = sessions \cup {harg[h]}
  /\ Commits
  /\ EndRequest(h)
  /\ UNCHANGED <<userVars, requestVars, jobVars, procVars>>

LoginSave(h) ==
  /\ hpc[h] = "login"
  /\ sessions' = sessions \cup {hwho[h]}
  /\ Commits
  /\ EndRequest(h)
  /\ UNCHANGED <<userVars, requestVars, jobVars, procVars>>

\* The last session of a user ends by logout or by its expiry.
SessionEnds(u) ==
  /\ u \in sessions
  /\ sessions' = sessions \ {u}
  /\ Commits
  /\ UNCHANGED <<userVars, requestVars, jobVars, handlerVars, procVars>>

\* AccessRequests.Create: two SELECTs and an INSERT, each a statement of its
\* own.  A refusal changes nothing.
ApplyCheckName(h, n) ==
  /\ ~Taken(n)
  /\ StartRequest(h, "pending", 0, "none", n)
  /\ UNCHANGED <<userVars, requestVars, sessions, jobVars, fresh, procVars>>

Waiting(n) == \E q \in Requests : request[q] = "pending" /\ applicant[q] = n

ApplyCheckPending(h) ==
  /\ hpc[h] = "pending"
  /\ IF Waiting(harg[h]) THEN EndRequest(h) ELSE HandlerGoes(h, "insert")
  /\ UNCHANGED <<userVars, requestVars, sessions, jobVars, fresh, procVars>>

ApplyInsert(h, q) ==
  /\ hpc[h] = "insert"
  /\ request[q] = "absent" /\ \A p \in 1..(q - 1) : request[p] # "absent"
  /\ request' = [request EXCEPT ![q] = "pending"]
  /\ applicant' = [applicant EXCEPT ![q] = harg[h]]
  /\ Commits
  /\ EndRequest(h)
  /\ UNCHANGED <<decidedBy, granted, userVars, sessions, jobVars, procVars>>

\* The database is busy, or a visitor's request ends before its write.
VisitorFails(h) ==
  /\ hpc[h] \in {"login", "pending", "insert"}
  /\ EndRequest(h)
  /\ UNCHANGED <<userVars, requestVars, sessions, jobVars, fresh, procVars>>

-----------------------------------------------------------------------------
(* The gates: a session, then the live status, then the live role.          *)

\* auth.Middleware lets a request with a session in, whoever the user is now.
Begin(h, u, o, a) ==
  /\ u \in sessions /\ o \in Operations
  /\ StartRequest(h, "gate", u, o, a)
  /\ UNCHANGED <<userVars, requestVars, sessions, jobVars, fresh, procVars>>

\* Deviation: the session alone opens the gate.
GateTrustsSession(h) ==
  /\ hpc[h] = "gate"
  /\ HandlerGoes(h, IF hop[h] = "job" THEN "save" ELSE "admin")
  /\ UNCHANGED <<userVars, requestVars, sessions, jobVars, fresh, procVars>>

\* approvalGate reads the status of this moment.
GateOpens(h) ==
  /\ hpc[h] = "gate"
  /\ Present(hwho[h]) /\ state[hwho[h]] = "approved"
  /\ HandlerGoes(h, IF hop[h] = "job" THEN "save" ELSE "admin")
  /\ UNCHANGED <<userVars, requestVars, sessions, jobVars, fresh, procVars>>

GateCloses(h) ==
  /\ hpc[h] = "gate"
  /\ ~Present(hwho[h]) \/ state[hwho[h]] # "approved"
  /\ EndRequest(h)
  /\ UNCHANGED <<userVars, requestVars, sessions, jobVars, fresh, procVars>>

\* adminOnly reads the role in a statement of its own; the status is not
\* looked at again.
AdminOnly(h) ==
  /\ hpc[h] = "admin"
  /\ IF Present(hwho[h]) /\ role[hwho[h]] = "admin"
       THEN HandlerGoes(h, "act") ELSE EndRequest(h)
  /\ UNCHANGED <<userVars, requestVars, sessions, jobVars, fresh, procVars>>

-----------------------------------------------------------------------------
(* Changing a user: setAdminUserStatus, setAdminUserRole, deleteAdminUser.  *)

\* What takes an administrator away.
Removes(o) == o \in {"disable", "demote", "delete"}

\* Deviation: off by one.
AllowsTheLast(h) ==
  LET u == harg[h]
  IN  /\ Present(u)
      /\ hop[h] = "demote" /\ role[u] = "admin" => u # hwho[h]
      /\ Removes(hop[h]) /\ u \in ApprovedAdmins => Cardinality(ApprovedAdmins) >= 1

\* The checks of the three transactions, all on one snapshot: the user is
\* there, nobody demotes themselves, and the last approved administrator stays.
Allowed(h) ==
  LET u == harg[h]
  IN  /\ Present(u)
      /\ hop[h] = "demote" /\ role[u] = "admin" => u # hwho[h]
      /\ Removes(hop[h]) /\ u \in ApprovedAdmins => Cardinality(ApprovedAdmins) > 1

\* The first SELECT takes the snapshot; a deletion also lists the files of the
\* user's jobs from it.
TxRead(h) ==
  /\ hpc[h] = "act" /\ hop[h] \in UserOps
  /\ Allowed(h)
  /\ fresh' = fresh \cup {h}
  /\ hpc' = [hpc EXCEPT ![h] = "write"]
  /\ hpaths' = [hpaths EXCEPT ![h] =
       IF hop[h] = "delete" THEN {p \in Paths : jobOwner[p] = harg[h]} ELSE {}]
  /\ UNCHANGED <<hwho, hop, harg, userVars, requestVars, sessions, jobVars, procVars>>

TxRefused(h) ==
  /\ hpc[h] = "act" /\ hop[h] \in UserOps
  /\ ~Allowed(h)
  /\ EndRequest(h)
  /\ UNCHANGED <<userVars, requestVars, sessions, jobVars, fresh, procVars>>

NewState == [enable |-> "approved", disable |-> "disabled", delete |-> "deleted"]
NewRole == [promote |-> "admin", demote |-> "user"]

\* Deviation: decided_by is no foreign key.
KeepsDeciders(o, u) ==
  /\ state' = IF o \in DOMAIN NewState THEN [state EXCEPT ![u] = NewState[o]] ELSE state
  /\ role' = IF o \in DOMAIN NewRole THEN [role EXCEPT ![u] = NewRole[o]] ELSE role
  /\ jobOwner' = [p \in Paths |->
       IF o = "delete" /\ jobOwner[p] = u THEN 0 ELSE jobOwner[p]]
  /\ UNCHANGED <<name, decidedBy>>

\* The writes of a transaction.  Deleting a user takes the jobs along and, by
\* ON DELETE SET NULL, clears decided_by; sessions stay behind.
ChangeUser(o, u) ==
  /\ state' = IF o \in DOMAIN NewState THEN [state EXCEPT ![u] = NewState[o]] ELSE state
  /\ role' = IF o \in DOMAIN NewRole THEN [role EXCEPT ![u] = NewRole[o]] ELSE role
  /\ decidedBy' = [q \in Requests |->
       IF o = "delete" /\ decidedBy[q] = u THEN 0 ELSE decidedBy[q]]
  /\ jobOwner' = [p \in Paths |->
       IF o = "delete" /\ jobOwner[p] = u THEN 0 ELSE jobOwner[p]]
  /\ UNCHANGED name

\* Deviation: the check and the write are two transactions.
TxWriteAnyway(h) ==
  /\ hpc[h] = "write" /\ Present(harg[h])
  /\ ChangeUser(hop[h], harg[h])
  /\ Commits
  /\ IF hop[h] = "delete" THEN HandlerGoes(h, "unlink") ELSE EndRequest(h)
  /\ UNCHANGED <<request, applicant, granted, sessions, disk, procVars>>

\* The first write takes the lock, if the snapshot still is the database.
TxWrite(h) ==
  /\ hpc[h] = "write" /\ h \in fresh
  /\ ChangeUser(hop[h], harg[h])
  /\ Commits
  /\ IF hop[h] = "delete" THEN HandlerGoes(h, "unlink") ELSE EndRequest(h)
  /\ UNCHANGED <<request, applicant, granted, sessions, disk, procVars>>

\* It is not, because of a commit here or of one by the queue; or the lock is
\* held for longer than busy_timeout.
TxBusy(h) ==
  /\ hpc[h] = "write"
  /\ fresh' = fresh \ {h}
  /\ EndRequest(h)
  /\ UNCHANGED <<userVars, requestVars, sessions, jobVars, procVars>>

\* After the commit the files go, and who deleted themselves is logged out.
Unlink(h) ==
  /\ hpc[h] = "unlink"
  /\ disk' = disk \ hpaths[h]
  /\ IF harg[h] = hwho[h]
       THEN /\ hpc' = [hpc EXCEPT ![h] = "logout"]
            /\ hpaths' = [hpaths EXCEPT ![h] = {}]
            /\ UNCHANGED <<hwho, hop, harg>>
       ELSE EndRequest(h)
  /\ UNCHANGED <<jobOwner, userVars, requestVars, sessions, fresh, procVars>>

\* Only this session: the user may have others, and this one may have ended.
Logout(h) ==
  /\ hpc[h] = "logout"
  /\ sessions' \in {sessions, sessions \ {hwho[h]}}
  /\ Commits
  /\ EndRequest(h)
  /\ UNCHANGED <<userVars, requestVars, jobVars, procVars>>

-----------------------------------------------------------------------------
(* Deciding an access request.                                              *)

Approve(h, u) ==
  LET q == harg[h]
  IN  /\ hpc[h] = "act" /\ hop[h] = "accept"
      /\ Claim(q, "approved", hwho[h])
      /\ InsertUser(u, applicant[q], "user", "approved")
      /\ granted' = [granted EXCEPT ![q] = @ \cup {u}]
      /\ Commits
      /\ EndRequest(h)
      /\ UNCHANGED <<applicant, sessions, jobVars, procVars>>

Deny(h) ==
  /\ hpc[h] = "act" /\ hop[h] = "deny"
  /\ Claim(harg[h], "denied", hwho[h])
  /\ Commits
  /\ EndRequest(h)
  /\ UNCHANGED <<applicant, granted, userVars, sessions, jobVars, procVars>>

DeleteRequest(h) ==
  /\ hpc[h] = "act" /\ hop[h] = "forget"
  /\ request[harg[h]] \notin {"absent", "deleted"}
  /\ request' = [request EXCEPT ![harg[h]] = "deleted"]
  /\ Commits
  /\ EndRequest(h)
  /\ UNCHANGED <<applicant, decidedBy, granted, userVars, sessions, jobVars, procVars>>

\* Decided already, gone, the name taken meanwhile, or the database busy: the
\* transaction is rolled back.
DecisionFails(h) ==
  /\ hpc[h] = "act" /\ hop[h] \in RequestOps
  /\ EndRequest(h)
  /\ UNCHANGED <<userVars, requestVars, sessions, jobVars, fresh, procVars>>

-----------------------------------------------------------------------------
(* A user's job with an input file: file first, then the row, which the     *)
(* foreign key refuses when the user was deleted meanwhile.                 *)

SaveInput(h, p) ==
  /\ hpc[h] = "save"
  /\ p \notin disk /\ jobOwner[p] = 0 /\ \A g \in Handlers : p \notin hpaths[g]
  /\ disk' = disk \cup {p}
  /\ hpc' = [hpc EXCEPT ![h] = "enqueue"]
  /\ hpaths' = [hpaths EXCEPT ![h] = {p}]
  /\ UNCHANGED <<hwho, hop, harg, jobOwner, userVars, requestVars, sessions, fresh, procVars>>

Enqueue(h) ==
  /\ hpc[h] = "enqueue"
  /\ Present(hwho[h])
  /\ jobOwner' = [p \in Paths |-> IF p \in hpaths[h] THEN hwho[h] ELSE jobOwner[p]]
  /\ Commits
  /\ EndRequest(h)
  /\ UNCHANGED <<disk, userVars, requestVars, sessions, procVars>>

\* The file cannot be written, the job is refused or the INSERT fails.
EnqueueRefused(h) ==
  /\ hpc[h] \in {"save", "enqueue"}
  /\ disk' = disk \ hpaths[h]
  /\ EndRequest(h)
  /\ UNCHANGED <<jobOwner, userVars, requestVars, sessions, fresh, procVars>>

-----------------------------------------------------------------------------
(* The process.  Nothing is served before both steps of the start are done. *)

\* migrateUserColumns: the lowest id is made an approved administrator, at
\* every start.
Migrate ==
  LET lowest(u) == Present(u) /\ \A v \in Users : Present(v) => u <= v
  IN  /\ proc = "down" /\ proc' = "migrated"
      /\ role' = [u \in Users |-> IF lowest(u) THEN "admin" ELSE role[u]]
      /\ state' = [u \in Users |-> IF lowest(u) THEN "approved" ELSE state[u]]
      /\ Commits
      /\ UNCHANGED <<name, restarts, cut, requestVars, sessions, jobVars, handlerVars>>

\* Bootstrap: only an empty table gets the configured administrator.
Bootstrap ==
  /\ proc = "migrated" /\ proc' = "up"
  /\ IF Configured /\ \A u \in Users : ~Present(u)
       THEN \E u \in Users : InsertUser(u, Root, "admin", "approved")
       ELSE UNCHANGED userVars
  /\ Commits
  /\ UNCHANGED <<restarts, cut, requestVars, sessions, jobVars, handlerVars>>

\* The process ends, at any moment.  With no SESSION_SECRET the next one cannot
\* read the sessions of this one.
Down ==
  /\ proc # "down" /\ restarts < MaxRestarts
  /\ proc' = "down" /\ restarts' = restarts + 1
  /\ cut' = (cut \/ \E h \in Handlers : hpc[h] # "idle")
  /\ hpc' = [h \in Handlers |-> "idle"] /\ hwho' = [h \in Handlers |-> 0]
  /\ hop' = [h \in Handlers |-> "none"] /\ harg' = [h \in Handlers |-> 0]
  /\ hpaths' = [h \in Handlers |-> {}]
  /\ Commits
  /\ sessions' \in {sessions, {}}
  /\ UNCHANGED <<userVars, requestVars, jobVars>>

-----------------------------------------------------------------------------
Visitor(h) ==
  \/ \E u \in Users : LoginLookup(h, u)
  \/ \E n \in Names : ApplyCheckName(h, n)
  \/ \E q \in Requests : ApplyInsert(h, q)
  \/ LoginSave(h) \/ ApplyCheckPending(h) \/ VisitorFails(h)

Targets(o) ==
  IF o \in UserOps THEN Users ELSE IF o \in RequestOps THEN Requests ELSE {0}

Gates(h) ==
  \/ \E u \in Users, o \in Operations : \E a \in Targets(o) : Begin(h, u, o, a)
  \/ GateOpens(h) \/ GateCloses(h) \/ AdminOnly(h)

Administers(h) ==
  \/ TxRead(h) \/ TxRefused(h) \/ TxWrite(h) \/ TxBusy(h) \/ Unlink(h) \/ Logout(h)
  \/ \E u \in Users : Approve(h, u)
  \/ Deny(h) \/ DeleteRequest(h) \/ DecisionFails(h)

CreatesJob(h) ==
  \/ \E p \in Paths : SaveInput(h, p)
  \/ Enqueue(h) \/ EnqueueRefused(h)

Process == Migrate \/ Bootstrap \/ Down

Steps ==
  \/ \E h \in Handlers : Visitor(h) \/ Gates(h) \/ Administers(h) \/ CreatesJob(h)
  \/ \E u \in Users, n \in Names : Register(u, n)
  \/ \E u \in Users : SessionEnds(u)
  \/ Process

\* What the requests being served could have seen of their own user.
Observe ==
  LET serving == {h \in Handlers : hpc'[h] # "idle"}
      approved == {h \in serving : hwho'[h] # 0 /\ state'[hwho'[h]] = "approved"}
      admin == {h \in serving : hwho'[h] # 0 /\ role'[hwho'[h]] = "admin"}
  IN  /\ wasApproved' = (wasApproved \cap serving) \cup approved
      /\ wasAdmin' = (wasAdmin \cap serving) \cup admin

Next == Steps /\ Observe

Spec == Init /\ [][Next]_vars

-----------------------------------------------------------------------------
(* Safety.                                                                  *)

\* With an administrator configured, whenever the process serves there is an
\* approved administrator: not even two who disable, demote or delete each
\* other at the same moment leave the application without one (admin.go
\* setAdminUserStatus, setAdminUserRole, deleteAdminUser; auth.go Bootstrap).
AdministratorLeft == Configured /\ proc = "up" => ApprovedAdmins # {}

\* Nobody acts on what a session remembers: a request that passed the gates
\* belongs to a user who was approved, and for an administrator's operation
\* had the role, at some moment since that request began (gate.go, adminOnly).
ActsEntitled ==
  \A h \in Handlers :
    /\ hpc[h] \in {"admin", "act", "write", "unlink", "logout", "save", "enqueue"}
         => h \in wasApproved
    /\ hpc[h] \in {"act", "write", "unlink", "logout"} => h \in wasAdmin

\* An application becomes one account when it is approved, and none otherwise,
\* however many administrators decide it at once (access.go Approve, claim).
OneAccountPerApplication ==
  \A q \in Requests :
    /\ request[q] = "approved" => Cardinality(granted[q]) = 1
    /\ request[q] \in {"absent", "pending", "denied"} => granted[q] = {}

\* A decision is never changed, nor attributed to somebody else; an
\* administrator may delete the request (access.go claim, admin.go).
DecisionIsFinal ==
  [][\A q \in Requests : request[q] \in {"approved", "denied"} =>
       /\ request'[q] \in {request[q], "deleted"}
       /\ decidedBy'[q] \in {decidedBy[q], 0}]_vars

\* Deleting a user leaves no job and, unless a crash cut a request short, no
\* input file behind, not even of a job created meanwhile (deleteAdminUser's
\* list of paths, the foreign key of jobs.user_id, handleAdminDeleteUser).
NothingLeftBehind ==
  /\ \A p \in Paths : jobOwner[p] # 0 => Present(jobOwner[p])
  /\ ~cut => \A p \in disk : jobOwner[p] # 0 \/ \E h \in Handlers : p \in hpaths[h]

-----------------------------------------------------------------------------
(* What the accounts promise.                                               *)

\* Requests, gates, snapshots and crashes are invisible in the tables: each
\* change is one step on the members as they are at that moment, with the
\* checks made on that very state (admin.go, access.go Create and Approve,
\* auth.go Bootstrap, db.go migrateUserColumns; AUTOINCREMENT).
Promise == INSTANCE Membership WITH
  standing <- state, rank <- role, login <- name,
  application <- request, decider <- decidedBy, account <- granted,
  open <- (proc = "up")
ImplementsMembership == Promise!Spec

\* The same of every step, whatever database the process was started with.
FollowsMembership == [][Promise!Next]_(Promise!membershipVars)

-----------------------------------------------------------------------------
(* What a comment says and the code does not do.                            *)

\* "scoping to MIN(id) means no later account is ever promoted by a restart"
\* (db.go:226); the accounts after the first one.
LaterAccountsKeepRole ==
  [][proc = "down" =>
       \A u \in Users \ {1} : role[u] = "user" => role'[u] = "user"]_vars
=============================================================================
