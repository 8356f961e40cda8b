--------------------------- MODULE AccountsProofs ---------------------------
(***************************************************************************)
(* Proofs about Accounts, for any number of users, access requests, HTTP   *)
(* requests and restarts.  Each conjunct of the inductive invariant IInv   *)
(* has a lemma with one step per action; the theorems are at the end.      *)
(***************************************************************************)
EXTENDS Accounts, FiniteSetTheorems, WellFoundedInduction, TLAPS

\* The steps at which a request knows its user.
Signed == {"login", "gate", "admin", "act", "write", "unlink", "logout", "save",
           "enqueue"}

\* What a request holds at each of its steps: a user of the session, a target
\* of the right kind, and files only while it is about to write or remove them.
Shape ==
  /\ \A h \in Handlers :
       /\ hpc[h] \in Signed => hwho[h] \in Users
       /\ hpc[h] \in {"pending", "insert"} => harg[h] \in Names
       /\ hop[h] \in UserOps => harg[h] \in Users
       /\ hop[h] \in RequestOps => harg[h] \in Requests
       /\ hpc[h] \in {"write", "unlink"} => hop[h] \in UserOps
       /\ hpc[h] \notin {"write", "unlink", "enqueue"} => hpaths[h] = {}
       /\ proc # "up" => hpc[h] = "idle"
  /\ proc # "up" => fresh = {}

\* TypeOK in three parts: the tables and files, the requests, and the rest.
States == {"absent", "pending", "approved", "disabled", "deleted"}
RowTypes ==
  /\ role \in [Users -> {"user", "admin"}]
  /\ state \in [Users -> States]
  /\ name \in [Users -> Names]
  /\ request \in [Requests -> {"absent", "pending", "approved", "denied", "deleted"}]
  /\ applicant \in [Requests -> Names]
  /\ decidedBy \in [Requests -> Users \cup {0}]
  /\ granted \in [Requests -> SUBSET Users]
  /\ sessions \subseteq Users
  /\ jobOwner \in [Paths -> Users \cup {0}]
  /\ disk \subseteq Paths

Places == {"idle", "pending", "insert"} \cup Signed
Arguments == Users \cup Requests \cup Names \cup {0}
HandlerTypes ==
  /\ hpc \in [Handlers -> Places]
  /\ hwho \in [Handlers -> Users \cup {0}]
  /\ hop \in [Handlers -> AllOperations \cup {"none"}]
  /\ harg \in [Handlers -> Arguments]
  /\ hpaths \in [Handlers -> SUBSET Paths]

SeenTypes == wasApproved \subseteq Handlers /\ wasAdmin \subseteq Handlers
ControlTypes ==
  /\ fresh \subseteq Handlers
  /\ proc \in {"down", "migrated", "up"}
  /\ restarts \in 0..MaxRestarts
  /\ cut \in BOOLEAN

\* The four parts are the type invariant.
LEMMA TypeParts ==
  TypeOK <=> RowTypes /\ HandlerTypes /\ ControlTypes /\ SeenTypes
BY DEF TypeOK, RowTypes, HandlerTypes, ControlTypes, SeenTypes, States, Places,
       Signed, Arguments

\* A request that ends keeps the types,
LEMMA EndRequestType ==
  ASSUME HandlerTypes, NEW h \in Handlers, EndRequest(h)
  PROVE  HandlerTypes'
BY DEF HandlerTypes, EndRequest, Places, Arguments

\* as does one that goes on,
LEMMA HandlerGoesType ==
  ASSUME HandlerTypes, NEW h \in Handlers, NEW pc \in Places, HandlerGoes(h, pc)
  PROVE  HandlerTypes'
BY DEF HandlerTypes, HandlerGoes

\* and one that begins.
LEMMA StartRequestType ==
  ASSUME HandlerTypes, NEW h \in Handlers, NEW pc \in Places,
         NEW u \in Users \cup {0}, NEW o \in AllOperations \cup {"none"},
         NEW a \in Arguments, StartRequest(h, pc, u, o, a)
  PROVE  HandlerTypes'
BY DEF HandlerTypes, StartRequest

\* No step gives a table or a file a wrong type.
LEMMA RowTypesStep ==
  ASSUME RowTypes, HandlerTypes, Shape, Next
  PROVE  RowTypes'
<1> USE DEF RowTypes, HandlerTypes, Shape, Signed, States, userVars,
            requestVars, jobVars, handlerVars, procVars
<1>1. ASSUME NEW h \in Handlers, Visitor(h) PROVE RowTypes'
  <2>1. ASSUME NEW u \in Users, LoginLookup(h, u)
        PROVE  RowTypes'
    BY <2>1 DEF LoginLookup, StartRequest
  <2>2. ASSUME NEW n \in Names, ApplyCheckName(h, n)
        PROVE  RowTypes'
    BY <2>2 DEF ApplyCheckName, StartRequest
  <2>3. ASSUME NEW q \in Requests, ApplyInsert(h, q)
        PROVE  RowTypes'
    BY <2>3 DEF ApplyInsert
  <2>4. CASE LoginSave(h) BY <2>4 DEF LoginSave, Signed
  <2>5. CASE ApplyCheckPending(h) BY <2>5 DEF ApplyCheckPending
  <2>6. CASE VisitorFails(h) BY <2>6 DEF VisitorFails
  <2> QED BY <1>1, <2>1, <2>2, <2>3, <2>4, <2>5, <2>6 DEF Visitor
<1>2. ASSUME NEW h \in Handlers, Gates(h) PROVE RowTypes'
  <2>1. ASSUME NEW u \in Users, NEW o \in Operations, NEW a \in Targets(o), Begin(h, u, o, a)
        PROVE  RowTypes'
    BY <2>1 DEF Begin, StartRequest
  <2>2. CASE GateOpens(h) BY <2>2 DEF GateOpens
  <2>3. CASE GateCloses(h) BY <2>3 DEF GateCloses
  <2>4. CASE AdminOnly(h) BY <2>4 DEF AdminOnly
  <2> QED BY <1>2, <2>1, <2>2, <2>3, <2>4 DEF Gates
<1>3. ASSUME NEW h \in Handlers, Administers(h) PROVE RowTypes'
  <2>1. CASE TxRead(h) BY <2>1 DEF TxRead
  <2>2. CASE TxRefused(h) BY <2>2 DEF TxRefused
  <2>3. CASE TxWrite(h) BY <2>3 DEF TxWrite, ChangeUser, NewState, NewRole
  <2>4. CASE TxBusy(h) BY <2>4 DEF TxBusy
  <2>5. CASE Unlink(h) BY <2>5 DEF Unlink
  <2>6. CASE Logout(h) BY <2>6 DEF Logout
  <2>7. ASSUME NEW u \in Users, Approve(h, u)
        PROVE  RowTypes'
    BY <2>7 DEF Approve, Claim, InsertUser, UserOps, RequestOps
  <2>8. CASE Deny(h) BY <2>8 DEF Deny, Claim, RequestOps
  <2>9. CASE DeleteRequest(h) BY <2>9 DEF DeleteRequest, RequestOps
  <2>10. CASE DecisionFails(h) BY <2>10 DEF DecisionFails
  <2> QED BY <1>3, <2>1, <2>2, <2>3, <2>4, <2>5, <2>6, <2>7, <2>8, <2>9, <2>10
      DEF Administers
<1>4. ASSUME NEW h \in Handlers, CreatesJob(h) PROVE RowTypes'
  <2>1. ASSUME NEW p \in Paths, SaveInput(h, p)
        PROVE  RowTypes'
    BY <2>1 DEF SaveInput
  <2>2. CASE Enqueue(h) BY <2>2 DEF Enqueue, Signed
  <2>3. CASE EnqueueRefused(h) BY <2>3 DEF EnqueueRefused
  <2> QED BY <1>4, <2>1, <2>2, <2>3 DEF CreatesJob
<1>5. ASSUME NEW u \in Users, NEW n \in Names, Register(u, n)
      PROVE  RowTypes'
  BY <1>5 DEF Register, InsertUser
<1>6. ASSUME NEW u \in Users, SessionEnds(u)
      PROVE  RowTypes'
  BY <1>6 DEF SessionEnds
<1>7. CASE Migrate BY <1>7 DEF Migrate, Present
<1>8. CASE Bootstrap BY <1>8, AccountsAssumption DEF Bootstrap, InsertUser
<1>9. CASE Down BY <1>9 DEF Down
<1> QED BY <1>1, <1>2, <1>3, <1>4, <1>5, <1>6, <1>7, <1>8, <1>9
    DEF Next, Steps, Process

\* Nor a request.
LEMMA HandlerTypesStep ==
  ASSUME RowTypes, HandlerTypes, Next
  PROVE  HandlerTypes'
<1> USE DEF HandlerTypes, Places, Signed, Arguments, handlerVars
<1>1. ASSUME NEW h \in Handlers, Visitor(h) PROVE HandlerTypes'
  <2>1. ASSUME NEW u \in Users, LoginLookup(h, u)
        PROVE  HandlerTypes'
    BY <2>1, StartRequestType DEF LoginLookup
  <2>2. ASSUME NEW n \in Names, ApplyCheckName(h, n)
        PROVE  HandlerTypes'
    BY <2>2, StartRequestType DEF ApplyCheckName
  <2>3. ASSUME NEW q \in Requests, ApplyInsert(h, q)
        PROVE  HandlerTypes'
    BY <2>3, EndRequestType DEF ApplyInsert
  <2>4. CASE LoginSave(h) BY <2>4, EndRequestType DEF LoginSave
  <2>5. CASE ApplyCheckPending(h)
    BY <2>5, EndRequestType, HandlerGoesType DEF ApplyCheckPending
  <2>6. CASE VisitorFails(h) BY <2>6, EndRequestType DEF VisitorFails
  <2> QED BY <1>1, <2>1, <2>2, <2>3, <2>4, <2>5, <2>6 DEF Visitor
<1>2. ASSUME NEW h \in Handlers, Gates(h) PROVE HandlerTypes'
  <2>1. ASSUME NEW u \in Users, NEW o \in Operations, NEW a \in Targets(o), Begin(h, u, o, a)
        PROVE  HandlerTypes'
    BY <2>1, StartRequestType, AccountsAssumption DEF Begin, Targets,
                                                      AllOperations, AdminOps,
                                                      UserOps, RequestOps
  <2>2. CASE GateOpens(h) BY <2>2, HandlerGoesType DEF GateOpens
  <2>3. CASE GateCloses(h) BY <2>3, EndRequestType DEF GateCloses
  <2>4. CASE AdminOnly(h)
    BY <2>4, EndRequestType, HandlerGoesType DEF AdminOnly
  <2> QED BY <1>2, <2>1, <2>2, <2>3, <2>4 DEF Gates
<1>3. ASSUME NEW h \in Handlers, Administers(h) PROVE HandlerTypes'
  <2>1. CASE TxRead(h) BY <2>1 DEF TxRead
  <2>2. CASE TxRefused(h) BY <2>2, EndRequestType DEF TxRefused
  <2>3. CASE TxWrite(h) BY <2>3, EndRequestType, HandlerGoesType DEF TxWrite
  <2>4. CASE TxBusy(h) BY <2>4, EndRequestType DEF TxBusy
  <2>5. CASE Unlink(h) BY <2>5, EndRequestType DEF Unlink
  <2>6. CASE Logout(h) BY <2>6, EndRequestType DEF Logout
  <2>7. ASSUME NEW u \in Users, Approve(h, u)
        PROVE  HandlerTypes'
    BY <2>7, EndRequestType DEF Approve
  <2>8. CASE Deny(h) BY <2>8, EndRequestType DEF Deny
  <2>9. CASE DeleteRequest(h) BY <2>9, EndRequestType DEF DeleteRequest
  <2>10. CASE DecisionFails(h) BY <2>10, EndRequestType DEF DecisionFails
  <2> QED BY <1>3, <2>1, <2>2, <2>3, <2>4, <2>5, <2>6, <2>7, <2>8, <2>9, <2>10
      DEF Administers
<1>4. ASSUME NEW h \in Handlers, CreatesJob(h) PROVE HandlerTypes'
  <2>1. ASSUME NEW p \in Paths, SaveInput(h, p)
        PROVE  HandlerTypes'
    BY <2>1 DEF SaveInput
  <2>2. CASE Enqueue(h) BY <2>2, EndRequestType DEF Enqueue
  <2>3. CASE EnqueueRefused(h) BY <2>3, EndRequestType DEF EnqueueRefused
  <2> QED BY <1>4, <2>1, <2>2, <2>3 DEF CreatesJob
<1>5. ASSUME NEW u \in Users, NEW n \in Names, Register(u, n)
      PROVE  HandlerTypes'
  BY <1>5 DEF Register
<1>6. ASSUME NEW u \in Users, SessionEnds(u)
      PROVE  HandlerTypes'
  BY <1>6 DEF SessionEnds
<1>7. CASE Migrate BY <1>7 DEF Migrate
<1>8. CASE Bootstrap BY <1>8 DEF Bootstrap
<1>9. CASE Down BY <1>9 DEF Down
<1> QED BY <1>1, <1>2, <1>3, <1>4, <1>5, <1>6, <1>7, <1>8, <1>9
    DEF Next, Steps, Process

\* Nor the process.
LEMMA ControlTypesStep ==
  ASSUME ControlTypes, Next
  PROVE  ControlTypes'
<1> USE DEF ControlTypes, Commits, procVars
<1>1. ASSUME NEW h \in Handlers, Visitor(h) PROVE ControlTypes'
  <2>1. ASSUME NEW u \in Users, LoginLookup(h, u)
        PROVE  ControlTypes'
    BY <2>1 DEF LoginLookup
  <2>2. ASSUME NEW n \in Names, ApplyCheckName(h, n)
        PROVE  ControlTypes'
    BY <2>2 DEF ApplyCheckName
  <2>3. ASSUME NEW q \in Requests, ApplyInsert(h, q)
        PROVE  ControlTypes'
    BY <2>3 DEF ApplyInsert
  <2>4. CASE LoginSave(h) BY <2>4 DEF LoginSave
  <2>5. CASE ApplyCheckPending(h) BY <2>5 DEF ApplyCheckPending
  <2>6. CASE VisitorFails(h) BY <2>6 DEF VisitorFails
  <2> QED BY <1>1, <2>1, <2>2, <2>3, <2>4, <2>5, <2>6 DEF Visitor
<1>2. ASSUME NEW h \in Handlers, Gates(h) PROVE ControlTypes'
  <2>1. ASSUME NEW u \in Users, NEW o \in Operations, NEW a \in Targets(o), Begin(h, u, o, a)
        PROVE  ControlTypes'
    BY <2>1 DEF Begin
  <2>2. CASE GateOpens(h) BY <2>2 DEF GateOpens
  <2>3. CASE GateCloses(h) BY <2>3 DEF GateCloses
  <2>4. CASE AdminOnly(h) BY <2>4 DEF AdminOnly
  <2> QED BY <1>2, <2>1, <2>2, <2>3, <2>4 DEF Gates
<1>3. ASSUME NEW h \in Handlers, Administers(h) PROVE ControlTypes'
  <2>1. CASE TxRead(h) BY <2>1 DEF TxRead
  <2>2. CASE TxRefused(h) BY <2>2 DEF TxRefused
  <2>3. CASE TxWrite(h) BY <2>3 DEF TxWrite
  <2>4. CASE TxBusy(h) BY <2>4 DEF TxBusy
  <2>5. CASE Unlink(h) BY <2>5 DEF Unlink
  <2>6. CASE Logout(h) BY <2>6 DEF Logout
  <2>7. ASSUME NEW u \in Users, Approve(h, u)
        PROVE  ControlTypes'
    BY <2>7 DEF Approve
  <2>8. CASE Deny(h) BY <2>8 DEF Deny
  <2>9. CASE DeleteRequest(h) BY <2>9 DEF DeleteRequest
  <2>10. CASE DecisionFails(h) BY <2>10 DEF DecisionFails
  <2> QED BY <1>3, <2>1, <2>2, <2>3, <2>4, <2>5, <2>6, <2>7, <2>8, <2>9, <2>10
      DEF Administers
<1>4. ASSUME NEW h \in Handlers, CreatesJob(h) PROVE ControlTypes'
  <2>1. ASSUME NEW p \in Paths, SaveInput(h, p)
        PROVE  ControlTypes'
    BY <2>1 DEF SaveInput
  <2>2. CASE Enqueue(h) BY <2>2 DEF Enqueue
  <2>3. CASE EnqueueRefused(h) BY <2>3 DEF EnqueueRefused
  <2> QED BY <1>4, <2>1, <2>2, <2>3 DEF CreatesJob
<1>5. ASSUME NEW u \in Users, NEW n \in Names, Register(u, n)
      PROVE  ControlTypes'
  BY <1>5 DEF Register
<1>6. ASSUME NEW u \in Users, SessionEnds(u)
      PROVE  ControlTypes'
  BY <1>6 DEF SessionEnds
<1>7. CASE Migrate BY <1>7 DEF Migrate
<1>8. CASE Bootstrap BY <1>8 DEF Bootstrap
<1>9. CASE Down BY <1>9, AccountsAssumption DEF Down
<1> QED BY <1>1, <1>2, <1>3, <1>4, <1>5, <1>6, <1>7, <1>8, <1>9
    DEF Next, Steps, Process

\* Nor what was observed of the users.
LEMMA SeenTypesStep ==
  ASSUME HandlerTypes, SeenTypes, Next
  PROVE  SeenTypes'
BY DEF SeenTypes, Next, Observe

\* Every step leaves each request with what its place asks for.
LEMMA ShapeStep ==
  ASSUME HandlerTypes, ControlTypes, Shape, Next
  PROVE  Shape'
<1> USE DEF HandlerTypes, ControlTypes, Shape, Places, Signed, AllOperations,
            AdminOps, UserOps, RequestOps, EndRequest, HandlerGoes, Commits,
            handlerVars, procVars
<1>1. ASSUME NEW h \in Handlers, Visitor(h) PROVE Shape'
  <2>1. ASSUME NEW u \in Users, LoginLookup(h, u)
        PROVE  Shape'
    BY <2>1 DEF LoginLookup, StartRequest
  <2>2. ASSUME NEW n \in Names, ApplyCheckName(h, n)
        PROVE  Shape'
    BY <2>2 DEF ApplyCheckName, StartRequest
  <2>3. ASSUME NEW q \in Requests, ApplyInsert(h, q)
        PROVE  Shape'
    BY <2>3 DEF ApplyInsert
  <2>4. CASE LoginSave(h) BY <2>4 DEF LoginSave
  <2>5. CASE ApplyCheckPending(h) BY <2>5 DEF ApplyCheckPending
  <2>6. CASE VisitorFails(h) BY <2>6 DEF VisitorFails
  <2> QED BY <1>1, <2>1, <2>2, <2>3, <2>4, <2>5, <2>6 DEF Visitor
<1>2. ASSUME NEW h \in Handlers, Gates(h) PROVE Shape'
  <2>1. ASSUME NEW u \in Users, NEW o \in Operations, NEW a \in Targets(o), Begin(h, u, o, a)
        PROVE  Shape'
    BY <2>1, AccountsAssumption DEF Begin, StartRequest, Targets
  <2>2. CASE GateOpens(h) BY <2>2 DEF GateOpens
  <2>3. CASE GateCloses(h) BY <2>3 DEF GateCloses
  <2>4. CASE AdminOnly(h) BY <2>4 DEF AdminOnly
  <2> QED BY <1>2, <2>1, <2>2, <2>3, <2>4 DEF Gates
<1>3. ASSUME NEW h \in Handlers, Administers(h) PROVE Shape'
  <2>1. CASE TxRead(h) BY <2>1 DEF TxRead
  <2>2. CASE TxRefused(h) BY <2>2 DEF TxRefused
  <2>3. CASE TxWrite(h) BY <2>3 DEF TxWrite
  <2>4. CASE TxBusy(h) BY <2>4 DEF TxBusy
  <2>5. CASE Unlink(h) BY <2>5 DEF Unlink
  <2>6. CASE Logout(h) BY <2>6 DEF Logout
  <2>7. ASSUME NEW u \in Users, Approve(h, u)
        PROVE  Shape'
    BY <2>7 DEF Approve
  <2>8. CASE Deny(h) BY <2>8 DEF Deny
  <2>9. CASE DeleteRequest(h) BY <2>9 DEF DeleteRequest
  <2>10. CASE DecisionFails(h) BY <2>10 DEF DecisionFails
  <2> QED BY <1>3, <2>1, <2>2, <2>3, <2>4, <2>5, <2>6, <2>7, <2>8, <2>9, <2>10
      DEF Administers
<1>4. ASSUME NEW h \in Handlers, CreatesJob(h) PROVE Shape'
  <2>1. ASSUME NEW p \in Paths, SaveInput(h, p)
        PROVE  Shape'
    BY <2>1 DEF SaveInput
  <2>2. CASE Enqueue(h) BY <2>2 DEF Enqueue
  <2>3. CASE EnqueueRefused(h) BY <2>3 DEF EnqueueRefused
  <2> QED BY <1>4, <2>1, <2>2, <2>3 DEF CreatesJob
<1>5. ASSUME NEW u \in Users, NEW n \in Names, Register(u, n)
      PROVE  Shape'
  BY <1>5 DEF Register
<1>6. ASSUME NEW u \in Users, SessionEnds(u)
      PROVE  Shape'
  BY <1>6 DEF SessionEnds
<1>7. CASE Migrate BY <1>7 DEF Migrate
<1>8. CASE Bootstrap BY <1>8 DEF Bootstrap
<1>9. CASE Down BY <1>9 DEF Down
<1> QED BY <1>1, <1>2, <1>3, <1>4, <1>5, <1>6, <1>7, <1>8, <1>9
    DEF Next, Steps, Process

\* AdministratorLeft, made inductive: between the two steps of a start it holds
\* as soon as there is any user, and a snapshot that is still the database
\* allows what its transaction is about to write.
Managed ==
  /\ AdministratorLeft
  /\ proc = "migrated" /\ (\E u \in Users : Present(u)) => ApprovedAdmins # {}
  /\ \A h \in fresh : hpc[h] = "write" /\ Allowed(h)

\* A step that changes neither a role nor a status, opens no snapshot and
\* leaves those that hold one where they are.
Calm ==
  /\ UNCHANGED <<role, state>>
  /\ fresh' \subseteq fresh
  /\ \A h \in fresh' : /\ hpc'[h] = hpc[h] /\ hop'[h] = hop[h]
                       /\ harg'[h] = harg[h] /\ hwho'[h] = hwho[h]
  /\ proc' \in {proc, "down"}

\* Such a step leaves the administrators alone.
LEMMA CalmKeepsManaged == ASSUME Managed, Calm PROVE Managed'
<1>1. ApprovedAdmins' = ApprovedAdmins
  BY DEF Calm, ApprovedAdmins
<1>2. AdministratorLeft' /\ (proc' = "migrated" /\ (\E u \in Users : Present(u)')
                              => ApprovedAdmins' # {})
  BY <1>1 DEF Managed, Calm, AdministratorLeft, Present
<1>3. ASSUME NEW h \in fresh' PROVE hpc'[h] = "write" /\ Allowed(h)'
  BY <1>1, <1>3 DEF Managed, Calm, Allowed, Present, Removes
<1> QED BY <1>2, <1>3 DEF Managed

\* Where there are two administrators, there is one besides u.
LEMMA AnotherAdmin ==
  ASSUME NEW u, Cardinality(ApprovedAdmins) > 1
  PROVE  \E v \in ApprovedAdmins : v # u
<1> SUFFICES ASSUME ApprovedAdmins \subseteq {u} PROVE FALSE
  OBVIOUS
<1>1. Cardinality({u}) = 1 /\ IsFiniteSet({u})
  BY FS_Singleton
<1>2. Cardinality(ApprovedAdmins) <= 1 /\ Cardinality(ApprovedAdmins) \in Nat
  BY <1>1, FS_Subset, FS_CardinalityType
<1> QED BY <1>2

\* Among the ids of some users there is a smallest one.
LEMMA SmallestUser ==
  ASSUME NEW P \in SUBSET Users, NEW u \in P
  PROVE  \E w \in P : \A v \in P : w <= v
<1> DEFINE Less == OpToRel(<, Nat)
<1>1. P \subseteq Nat
  BY AccountsAssumption DEF Users
<1>2. PICK w \in P : \A v \in P : <<v, w>> \notin Less
  BY <1>1, NatLessThanWellFounded, WFMin
<1>3. ASSUME NEW v \in P PROVE w <= v
  <2>1. <<v, w>> \notin {s \in Nat \X Nat : s[1] < s[2]}
    BY <1>2 DEF OpToRel
  <2> QED BY <1>1, <2>1
<1> QED BY <1>3

\* No step takes the last approved administrator away.
LEMMA ManagedStep ==
  ASSUME RowTypes, HandlerTypes, ControlTypes, Shape, Managed, Next
  PROVE  Managed'
<1> USE DEF Calm, Commits, EndRequest, HandlerGoes, userVars, requestVars,
            jobVars, handlerVars, procVars, HandlerTypes
<1>a. \A g \in fresh : hpc[g] = "write"
  BY DEF Managed
<1>1. ASSUME NEW h \in Handlers, Visitor(h) PROVE Managed'
  <2>1. ASSUME NEW u \in Users, LoginLookup(h, u)
        PROVE  Managed'
    BY <2>1, <1>a, CalmKeepsManaged DEF LoginLookup, StartRequest
  <2>2. ASSUME NEW n \in Names, ApplyCheckName(h, n)
        PROVE  Managed'
    BY <2>2, <1>a, CalmKeepsManaged DEF ApplyCheckName, StartRequest
  <2>3. ASSUME NEW q \in Requests, ApplyInsert(h, q)
        PROVE  Managed'
    BY <2>3, <1>a, CalmKeepsManaged DEF ApplyInsert
  <2>4. CASE LoginSave(h) BY <2>4, <1>a, CalmKeepsManaged DEF LoginSave
  <2>5. CASE ApplyCheckPending(h)
    <3>1. h \notin fresh BY <2>5, <1>a DEF ApplyCheckPending
    <3>2. CASE EndRequest(h)
      <4> Calm BY <2>5, <1>a, <3>1, <3>2 DEF ApplyCheckPending
      <4> QED BY CalmKeepsManaged
    <3>3. CASE HandlerGoes(h, "insert")
      <4> Calm BY <2>5, <1>a, <3>1, <3>3 DEF ApplyCheckPending
      <4> QED BY CalmKeepsManaged
    <3> QED BY <2>5, <3>2, <3>3 DEF ApplyCheckPending
  <2>6. CASE VisitorFails(h) BY <2>6, <1>a, CalmKeepsManaged DEF VisitorFails
  <2> QED BY <1>1, <2>1, <2>2, <2>3, <2>4, <2>5, <2>6 DEF Visitor
<1>2. ASSUME NEW h \in Handlers, Gates(h) PROVE Managed'
  <2>1. ASSUME NEW u \in Users, NEW o \in Operations, NEW a \in Targets(o), Begin(h, u, o, a)
        PROVE  Managed'
    BY <2>1, <1>a, CalmKeepsManaged DEF Begin, StartRequest
  <2>2. CASE GateOpens(h) BY <2>2, <1>a, CalmKeepsManaged DEF GateOpens
  <2>3. CASE GateCloses(h) BY <2>3, <1>a, CalmKeepsManaged DEF GateCloses
  <2>4. CASE AdminOnly(h)
    <3>1. h \notin fresh BY <2>4, <1>a DEF AdminOnly
    <3>2. CASE EndRequest(h)
      <4> Calm BY <2>4, <1>a, <3>1, <3>2 DEF AdminOnly
      <4> QED BY CalmKeepsManaged
    <3>3. CASE HandlerGoes(h, "act")
      <4> Calm BY <2>4, <1>a, <3>1, <3>3 DEF AdminOnly
      <4> QED BY CalmKeepsManaged
    <3> QED BY <2>4, <3>2, <3>3 DEF AdminOnly
  <2> QED BY <1>2, <2>1, <2>2, <2>3, <2>4 DEF Gates
<1>3. ASSUME NEW h \in Handlers, Administers(h) PROVE Managed'
  <2>1. CASE TxRead(h)
    <3>1. ApprovedAdmins' = ApprovedAdmins
      BY <2>1 DEF TxRead, ApprovedAdmins
    <3>2. AdministratorLeft' /\ (proc' = "migrated" => ApprovedAdmins' # {})
      BY <2>1, <3>1 DEF TxRead, Managed, AdministratorLeft, Shape
    <3>3. ASSUME NEW g \in fresh' PROVE hpc'[g] = "write" /\ Allowed(g)'
      <4>1. hpc'[g] = "write"
        BY <2>1, <3>3 DEF TxRead, Managed, HandlerTypes
      <4>2. Allowed(g)
        BY <2>1, <3>3 DEF TxRead, Managed
      <4> QED BY <2>1, <3>1, <4>1, <4>2 DEF TxRead, Allowed, Present, Removes
    <3> QED BY <3>2, <3>3 DEF Managed
  <2>2. CASE TxRefused(h) BY <2>2, <1>a, CalmKeepsManaged DEF TxRefused
  <2>3. CASE TxWrite(h)
    <3> DEFINE u == harg[h]
    <3>1. u \in Users /\ hop[h] \in UserOps /\ Allowed(h) /\ proc = "up"
      BY <2>3 DEF TxWrite, Managed, Shape
    <3>2. fresh' = {} /\ proc' = proc
      BY <2>3 DEF TxWrite, Commits
    <3>3. ASSUME NEW v \in ApprovedAdmins, v # u PROVE v \in ApprovedAdmins'
      BY <2>3, <3>1, <3>3
         DEF TxWrite, ChangeUser, NewState, NewRole, ApprovedAdmins, RowTypes
    <3>4. ASSUME ApprovedAdmins # {} PROVE ApprovedAdmins' # {}
      <4>1. CASE u \in ApprovedAdmins /\ Removes(hop[h])
        BY <3>1, <3>3, <4>1, AnotherAdmin DEF Allowed
      <4>2. CASE u \in ApprovedAdmins /\ ~Removes(hop[h])
        BY <2>3, <3>1, <4>2
           DEF TxWrite, ChangeUser, NewState, NewRole, ApprovedAdmins, Removes, UserOps, RowTypes
      <4>3. CASE u \notin ApprovedAdmins
        BY <3>3, <3>4, <4>3
      <4> QED BY <4>1, <4>2, <4>3
    <3> QED BY <3>1, <3>2, <3>4 DEF Managed, AdministratorLeft
  <2>4. CASE TxBusy(h)
    <3>1. Calm BY <2>4, <1>a DEF TxBusy
    <3> QED BY <3>1, CalmKeepsManaged
  <2>5. CASE Unlink(h)
    <3>1. h \notin fresh BY <2>5, <1>a DEF Unlink
    <3>2. UNCHANGED <<role, state, fresh, proc>>
      BY <2>5 DEF Unlink
    <3>3. ASSUME NEW g \in fresh'
          PROVE  /\ hpc'[g] = hpc[g] /\ hop'[g] = hop[g]
                 /\ harg'[g] = harg[g] /\ hwho'[g] = hwho[g]
      <4>1. g \in fresh /\ g # h
        BY <3>1, <3>2
      <4>2. CASE harg[h] = hwho[h]
        <5>1. hpc' = [hpc EXCEPT ![h] = "logout"] /\ UNCHANGED <<hwho, hop, harg>>
          BY <2>5, <4>2 DEF Unlink
        <5> QED BY <4>1, <5>1
      <4>3. CASE harg[h] # hwho[h]
        <5>1. EndRequest(h)
          BY <2>5, <4>3 DEF Unlink
        <5> QED BY <4>1, <5>1
      <4> QED BY <4>2, <4>3
    <3>4. Calm
      BY <3>2, <3>3
    <3> QED BY <3>4, CalmKeepsManaged
  <2>6. CASE Logout(h) BY <2>6, <1>a, CalmKeepsManaged DEF Logout
  <2>7. ASSUME NEW u \in Users, Approve(h, u)
        PROVE  Managed'
    <3>1. ASSUME NEW v \in ApprovedAdmins PROVE v \in ApprovedAdmins'
      BY <2>7, <3>1 DEF Approve, InsertUser, NextUser, ApprovedAdmins, RowTypes
    <3> QED BY <2>7, <3>1
        DEF Approve, Managed, AdministratorLeft, Commits, Shape, procVars
  <2>8. CASE Deny(h) BY <2>8, <1>a, CalmKeepsManaged DEF Deny, Claim
  <2>9. CASE DeleteRequest(h) BY <2>9, <1>a, CalmKeepsManaged DEF DeleteRequest
  <2>10. CASE DecisionFails(h)
    BY <2>10, <1>a, CalmKeepsManaged DEF DecisionFails
  <2> QED BY <1>3, <2>1, <2>2, <2>3, <2>4, <2>5, <2>6, <2>7, <2>8, <2>9, <2>10
      DEF Administers
<1>4. ASSUME NEW h \in Handlers, CreatesJob(h) PROVE Managed'
  <2>1. ASSUME NEW p \in Paths, SaveInput(h, p)
        PROVE  Managed'
    BY <2>1, <1>a, CalmKeepsManaged DEF SaveInput
  <2>2. CASE Enqueue(h) BY <2>2, <1>a, CalmKeepsManaged DEF Enqueue
  <2>3. CASE EnqueueRefused(h)
    BY <2>3, <1>a, CalmKeepsManaged DEF EnqueueRefused
  <2> QED BY <1>4, <2>1, <2>2, <2>3 DEF CreatesJob
<1>5. ASSUME NEW u \in Users, NEW n \in Names, Register(u, n)
      PROVE  Managed'
  <2>1. ASSUME NEW v \in ApprovedAdmins PROVE v \in ApprovedAdmins'
    BY <1>5, <2>1 DEF Register, InsertUser, NextUser, ApprovedAdmins, RowTypes
  <2> QED BY <1>5, <2>1
      DEF Register, Managed, AdministratorLeft, Commits, Shape, procVars
<1>6. ASSUME NEW u \in Users, SessionEnds(u)
      PROVE  Managed'
  BY <1>6, <1>a, CalmKeepsManaged DEF SessionEnds
<1>7. CASE Migrate
  <2>1. fresh' = {} /\ proc' = "migrated"
    BY <1>7 DEF Migrate, Commits
  <2>2. ASSUME NEW u \in Users, Present(u)' PROVE ApprovedAdmins' # {}
    <3> DEFINE P == {v \in Users : Present(v)}
    <3>1. u \in P
      BY <1>7, <2>2 DEF Migrate, Present, RowTypes
    <3>2. PICK w \in P : \A v \in P : w <= v
      BY <3>1, SmallestUser
    <3> QED BY <1>7, <3>2 DEF Migrate, ApprovedAdmins, RowTypes
  <2> QED BY <2>1, <2>2 DEF Managed, AdministratorLeft
<1>8. CASE Bootstrap
  <2>1. fresh' = {} /\ proc = "migrated" /\ proc' = "up"
    BY <1>8 DEF Bootstrap, Commits
  <2>2. CASE Configured /\ \A u \in Users : ~Present(u)
    BY <1>8, <2>1, <2>2
       DEF Bootstrap, InsertUser, ApprovedAdmins, RowTypes, Managed, AdministratorLeft
  <2>3. CASE ~(Configured /\ \A u \in Users : ~Present(u))
    BY <1>8, <2>1, <2>3
       DEF Bootstrap, userVars, ApprovedAdmins, Managed, AdministratorLeft
  <2> QED BY <2>2, <2>3
<1>9. CASE Down BY <1>9, <1>a, CalmKeepsManaged DEF Down
<1> QED BY <1>1, <1>2, <1>3, <1>4, <1>5, <1>6, <1>7, <1>8, <1>9
    DEF Next, Steps, Process

\* Past the gates; and past adminOnly as well.
Entered == {"admin", "act", "write", "unlink", "logout", "save", "enqueue"}
Acting == {"act", "write", "unlink", "logout"}

\* Who passes a gate in this step, and who was past it already.
Admitted ==
  \A g \in Handlers :
    /\ hpc'[g] \in Entered =>
         hpc[g] \in Entered \/ (hwho'[g] # 0 /\ state'[hwho'[g]] = "approved")
    /\ hpc'[g] \in Acting =>
         hpc[g] \in Acting \/ (hwho'[g] # 0 /\ role'[hwho'[g]] = "admin")

\* Nobody gets past a gate but by what the gate asks for.
LEMMA AdmittedStep ==
  ASSUME HandlerTypes, Next
  PROVE  Admitted
<1> USE DEF Admitted, Entered, Acting, HandlerTypes, EndRequest, HandlerGoes,
            handlerVars, userVars
<1>1. ASSUME NEW h \in Handlers, Visitor(h) PROVE Admitted
  <2>1. ASSUME NEW u \in Users, LoginLookup(h, u)
        PROVE  Admitted
    BY <2>1 DEF LoginLookup, StartRequest
  <2>2. ASSUME NEW n \in Names, ApplyCheckName(h, n)
        PROVE  Admitted
    BY <2>2 DEF ApplyCheckName, StartRequest
  <2>3. ASSUME NEW q \in Requests, ApplyInsert(h, q)
        PROVE  Admitted
    BY <2>3 DEF ApplyInsert
  <2>4. CASE LoginSave(h) BY <2>4 DEF LoginSave
  <2>5. CASE ApplyCheckPending(h)
    <3>1. CASE EndRequest(h) BY <2>5, <3>1 DEF ApplyCheckPending
    <3>2. CASE HandlerGoes(h, "insert")
      BY <2>5, <3>2 DEF ApplyCheckPending
    <3> QED BY <2>5, <3>1, <3>2 DEF ApplyCheckPending
  <2>6. CASE VisitorFails(h) BY <2>6 DEF VisitorFails
  <2> QED BY <1>1, <2>1, <2>2, <2>3, <2>4, <2>5, <2>6 DEF Visitor
<1>2. ASSUME NEW h \in Handlers, Gates(h) PROVE Admitted
  <2>1. ASSUME NEW u \in Users, NEW o \in Operations, NEW a \in Targets(o), Begin(h, u, o, a)
        PROVE  Admitted
    BY <2>1 DEF Begin, StartRequest
  <2>2. CASE GateOpens(h)
    <3>1. HandlerGoes(h, "save") \/ HandlerGoes(h, "admin")
      BY <2>2 DEF GateOpens
    <3>2. hwho[h] # 0 /\ state'[hwho[h]] = "approved"
      BY <2>2 DEF GateOpens, Present, Users
    <3> QED BY <3>1, <3>2
  <2>3. CASE GateCloses(h) BY <2>3 DEF GateCloses
  <2>4. CASE AdminOnly(h)
    <3>1. CASE EndRequest(h) BY <2>4, <3>1 DEF AdminOnly
    <3>2. CASE HandlerGoes(h, "act") /\ Present(hwho[h]) /\ role[hwho[h]] = "admin"
      BY <2>4, <3>2 DEF AdminOnly, Present, Users
    <3> QED BY <2>4, <3>1, <3>2 DEF AdminOnly
  <2> QED BY <1>2, <2>1, <2>2, <2>3, <2>4 DEF Gates
<1>3. ASSUME NEW h \in Handlers, Administers(h) PROVE Admitted
  <2>1. CASE TxRead(h) BY <2>1 DEF TxRead
  <2>2. CASE TxRefused(h) BY <2>2 DEF TxRefused
  <2>3. CASE TxWrite(h)
    <3>1. CASE EndRequest(h) BY <2>3, <3>1 DEF TxWrite
    <3>2. CASE HandlerGoes(h, "unlink") BY <2>3, <3>2 DEF TxWrite
    <3> QED BY <2>3, <3>1, <3>2 DEF TxWrite
  <2>4. CASE TxBusy(h) BY <2>4 DEF TxBusy
  <2>5. CASE Unlink(h)
    <3>1. CASE harg[h] = hwho[h]
      <4>1. hpc' = [hpc EXCEPT ![h] = "logout"] /\ hwho' = hwho
        BY <2>5, <3>1 DEF Unlink
      <4> QED BY <2>5, <4>1 DEF Unlink
    <3>2. CASE EndRequest(h) BY <2>5, <3>2 DEF Unlink
    <3> QED BY <2>5, <3>1, <3>2 DEF Unlink
  <2>6. CASE Logout(h) BY <2>6 DEF Logout
  <2>7. ASSUME NEW u \in Users, Approve(h, u)
        PROVE  Admitted
    BY <2>7 DEF Approve
  <2>8. CASE Deny(h) BY <2>8 DEF Deny
  <2>9. CASE DeleteRequest(h) BY <2>9 DEF DeleteRequest
  <2>10. CASE DecisionFails(h) BY <2>10 DEF DecisionFails
  <2> QED BY <1>3, <2>1, <2>2, <2>3, <2>4, <2>5, <2>6, <2>7, <2>8, <2>9, <2>10
      DEF Administers
<1>4. ASSUME NEW h \in Handlers, CreatesJob(h) PROVE Admitted
  <2>1. ASSUME NEW p \in Paths, SaveInput(h, p)
        PROVE  Admitted
    BY <2>1 DEF SaveInput
  <2>2. CASE Enqueue(h) BY <2>2 DEF Enqueue
  <2>3. CASE EnqueueRefused(h) BY <2>3 DEF EnqueueRefused
  <2> QED BY <1>4, <2>1, <2>2, <2>3 DEF CreatesJob
<1>5. ASSUME NEW u \in Users, NEW n \in Names, Register(u, n)
      PROVE  Admitted
  BY <1>5 DEF Register
<1>6. ASSUME NEW u \in Users, SessionEnds(u)
      PROVE  Admitted
  BY <1>6 DEF SessionEnds
<1>7. CASE Migrate BY <1>7 DEF Migrate
<1>8. CASE Bootstrap BY <1>8 DEF Bootstrap
<1>9. CASE Down BY <1>9 DEF Down
<1> QED BY <1>1, <1>2, <1>3, <1>4, <1>5, <1>6, <1>7, <1>8, <1>9
    DEF Next, Steps, Process

\* What was observed of a user stays observed while the request is served.
LEMMA EntitledStep ==
  ASSUME HandlerTypes, ActsEntitled, Next PROVE ActsEntitled'
<1>1. Admitted
  BY AdmittedStep
<1>2. \A g \in Handlers :
        /\ hpc'[g] # "idle" /\ g \in wasApproved => g \in wasApproved'
        /\ hpc'[g] # "idle" /\ g \in wasAdmin => g \in wasAdmin'
        /\ hpc'[g] # "idle" /\ hwho'[g] # 0 /\ state'[hwho'[g]] = "approved"
             => g \in wasApproved'
        /\ hpc'[g] # "idle" /\ hwho'[g] # 0 /\ role'[hwho'[g]] = "admin"
             => g \in wasAdmin'
  BY DEF Next, Observe
<1> QED BY <1>1, <1>2 DEF Admitted, ActsEntitled, Entered, Acting

\* What a step may do to a request that was decided.
DecisionStands ==
  \A q \in Requests : request[q] \in {"approved", "denied"} =>
    /\ request'[q] \in {request[q], "deleted"}
    /\ decidedBy'[q] \in {decidedBy[q], 0}

\* A decided request is never decided again.
LEMMA DecisionStep ==
  ASSUME RowTypes, Next
  PROVE  DecisionStands
<1> USE DEF DecisionStands, RowTypes, requestVars
<1>1. ASSUME NEW h \in Handlers, Visitor(h) PROVE DecisionStands
  <2>1. ASSUME NEW u \in Users, LoginLookup(h, u)
        PROVE  DecisionStands
    BY <2>1 DEF LoginLookup
  <2>2. ASSUME NEW n \in Names, ApplyCheckName(h, n)
        PROVE  DecisionStands
    BY <2>2 DEF ApplyCheckName
  <2>3. ASSUME NEW q \in Requests, ApplyInsert(h, q)
        PROVE  DecisionStands
    BY <2>3 DEF ApplyInsert
  <2>4. CASE LoginSave(h) BY <2>4 DEF LoginSave
  <2>5. CASE ApplyCheckPending(h) BY <2>5 DEF ApplyCheckPending
  <2>6. CASE VisitorFails(h) BY <2>6 DEF VisitorFails
  <2> QED BY <1>1, <2>1, <2>2, <2>3, <2>4, <2>5, <2>6 DEF Visitor
<1>2. ASSUME NEW h \in Handlers, Gates(h) PROVE DecisionStands
  <2>1. ASSUME NEW u \in Users, NEW o \in Operations, NEW a \in Targets(o), Begin(h, u, o, a)
        PROVE  DecisionStands
    BY <2>1 DEF Begin
  <2>2. CASE GateOpens(h) BY <2>2 DEF GateOpens
  <2>3. CASE GateCloses(h) BY <2>3 DEF GateCloses
  <2>4. CASE AdminOnly(h) BY <2>4 DEF AdminOnly
  <2> QED BY <1>2, <2>1, <2>2, <2>3, <2>4 DEF Gates
<1>3. ASSUME NEW h \in Handlers, Administers(h) PROVE DecisionStands
  <2>1. CASE TxRead(h) BY <2>1 DEF TxRead
  <2>2. CASE TxRefused(h) BY <2>2 DEF TxRefused
  <2>3. CASE TxWrite(h) BY <2>3 DEF TxWrite, ChangeUser
  <2>4. CASE TxBusy(h) BY <2>4 DEF TxBusy
  <2>5. CASE Unlink(h) BY <2>5 DEF Unlink
  <2>6. CASE Logout(h) BY <2>6 DEF Logout
  <2>7. ASSUME NEW u \in Users, Approve(h, u)
        PROVE  DecisionStands
    BY <2>7 DEF Approve, Claim
  <2>8. CASE Deny(h) BY <2>8 DEF Deny, Claim
  <2>9. CASE DeleteRequest(h) BY <2>9 DEF DeleteRequest
  <2>10. CASE DecisionFails(h) BY <2>10 DEF DecisionFails
  <2> QED BY <1>3, <2>1, <2>2, <2>3, <2>4, <2>5, <2>6, <2>7, <2>8, <2>9, <2>10
      DEF Administers
<1>4. ASSUME NEW h \in Handlers, CreatesJob(h) PROVE DecisionStands
  <2>1. ASSUME NEW p \in Paths, SaveInput(h, p)
        PROVE  DecisionStands
    BY <2>1 DEF SaveInput
  <2>2. CASE Enqueue(h) BY <2>2 DEF Enqueue
  <2>3. CASE EnqueueRefused(h) BY <2>3 DEF EnqueueRefused
  <2> QED BY <1>4, <2>1, <2>2, <2>3 DEF CreatesJob
<1>5. ASSUME NEW u \in Users, NEW n \in Names, Register(u, n)
      PROVE  DecisionStands
  BY <1>5 DEF Register
<1>6. ASSUME NEW u \in Users, SessionEnds(u)
      PROVE  DecisionStands
  BY <1>6 DEF SessionEnds
<1>7. CASE Migrate BY <1>7 DEF Migrate
<1>8. CASE Bootstrap BY <1>8 DEF Bootstrap
<1>9. CASE Down BY <1>9 DEF Down
<1> QED BY <1>1, <1>2, <1>3, <1>4, <1>5, <1>6, <1>7, <1>8, <1>9
    DEF Next, Steps, Process

\* OneAccountPerApplication without its cardinality.
Applications ==
  \A q \in Requests :
    /\ request[q] = "approved" => \E u : granted[q] = {u}
    /\ request[q] \in {"absent", "pending", "denied"} => granted[q] = {}

\* An account is made exactly when a request is approved.
LEMMA ApplicationsStep ==
  ASSUME RowTypes, Applications, Next
  PROVE  Applications'
<1> USE DEF Applications, RowTypes, requestVars
<1>1. ASSUME NEW h \in Handlers, Visitor(h) PROVE Applications'
  <2>1. ASSUME NEW u \in Users, LoginLookup(h, u)
        PROVE  Applications'
    BY <2>1 DEF LoginLookup
  <2>2. ASSUME NEW n \in Names, ApplyCheckName(h, n)
        PROVE  Applications'
    BY <2>2 DEF ApplyCheckName
  <2>3. ASSUME NEW q \in Requests, ApplyInsert(h, q)
        PROVE  Applications'
    BY <2>3 DEF ApplyInsert
  <2>4. CASE LoginSave(h) BY <2>4 DEF LoginSave
  <2>5. CASE ApplyCheckPending(h) BY <2>5 DEF ApplyCheckPending
  <2>6. CASE VisitorFails(h) BY <2>6 DEF VisitorFails
  <2> QED BY <1>1, <2>1, <2>2, <2>3, <2>4, <2>5, <2>6 DEF Visitor
<1>2. ASSUME NEW h \in Handlers, Gates(h) PROVE Applications'
  <2>1. ASSUME NEW u \in Users, NEW o \in Operations, NEW a \in Targets(o), Begin(h, u, o, a)
        PROVE  Applications'
    BY <2>1 DEF Begin
  <2>2. CASE GateOpens(h) BY <2>2 DEF GateOpens
  <2>3. CASE GateCloses(h) BY <2>3 DEF GateCloses
  <2>4. CASE AdminOnly(h) BY <2>4 DEF AdminOnly
  <2> QED BY <1>2, <2>1, <2>2, <2>3, <2>4 DEF Gates
<1>3. ASSUME NEW h \in Handlers, Administers(h) PROVE Applications'
  <2>1. CASE TxRead(h) BY <2>1 DEF TxRead
  <2>2. CASE TxRefused(h) BY <2>2 DEF TxRefused
  <2>3. CASE TxWrite(h) BY <2>3 DEF TxWrite
  <2>4. CASE TxBusy(h) BY <2>4 DEF TxBusy
  <2>5. CASE Unlink(h) BY <2>5 DEF Unlink
  <2>6. CASE Logout(h) BY <2>6 DEF Logout
  <2>7. ASSUME NEW u \in Users, Approve(h, u)
        PROVE  Applications'
    BY <2>7 DEF Approve, Claim, UserOps, RequestOps
  <2>8. CASE Deny(h) BY <2>8 DEF Deny, Claim
  <2>9. CASE DeleteRequest(h) BY <2>9 DEF DeleteRequest
  <2>10. CASE DecisionFails(h) BY <2>10 DEF DecisionFails
  <2> QED BY <1>3, <2>1, <2>2, <2>3, <2>4, <2>5, <2>6, <2>7, <2>8, <2>9, <2>10
      DEF Administers
<1>4. ASSUME NEW h \in Handlers, CreatesJob(h) PROVE Applications'
  <2>1. ASSUME NEW p \in Paths, SaveInput(h, p)
        PROVE  Applications'
    BY <2>1 DEF SaveInput
  <2>2. CASE Enqueue(h) BY <2>2 DEF Enqueue
  <2>3. CASE EnqueueRefused(h) BY <2>3 DEF EnqueueRefused
  <2> QED BY <1>4, <2>1, <2>2, <2>3 DEF CreatesJob
<1>5. ASSUME NEW u \in Users, NEW n \in Names, Register(u, n)
      PROVE  Applications'
  BY <1>5 DEF Register
<1>6. ASSUME NEW u \in Users, SessionEnds(u)
      PROVE  Applications'
  BY <1>6 DEF SessionEnds
<1>7. CASE Migrate BY <1>7 DEF Migrate
<1>8. CASE Bootstrap BY <1>8 DEF Bootstrap
<1>9. CASE Down BY <1>9 DEF Down
<1> QED BY <1>1, <1>2, <1>3, <1>4, <1>5, <1>6, <1>7, <1>8, <1>9
    DEF Next, Steps, Process

\* NothingLeftBehind, made inductive: who removes a file is on the way to do so,
\* and a snapshot that is still the database lists all of a user's files.
JobsOwned == \A p \in Paths : jobOwner[p] # 0 => Present(jobOwner[p])

Minded(p) == \E h \in Handlers : p \in hpaths[h] /\ hpc[h] \in {"unlink", "enqueue"}

FilesMinded == ~cut => \A p \in disk : jobOwner[p] = 0 => Minded(p)

Lists(h) ==
  /\ hpc[h] = "write"
  /\ hop[h] = "delete" => \A p \in Paths : jobOwner[p] = harg[h] => p \in hpaths[h]

Tidy == JobsOwned /\ FilesMinded /\ \A h \in fresh : Lists(h)


\* A step that deletes no user, touches no file or job, and leaves the requests
\* that hold a snapshot or are about to remove a file where they are.
Aside ==
  /\ UNCHANGED <<jobOwner, disk, cut>>
  /\ \A u \in Users : Present(u) => Present(u)'
  /\ fresh' \subseteq fresh
  /\ \A h \in fresh' : /\ hpc'[h] = hpc[h] /\ hop'[h] = hop[h]
                       /\ harg'[h] = harg[h] /\ hpaths'[h] = hpaths[h]
  /\ \A h \in Handlers : hpc[h] \in {"unlink", "enqueue"} =>
       hpc'[h] = hpc[h] /\ hpaths'[h] = hpaths[h]

\* Such a step leaves nothing behind.
LEMMA AsideKeepsTidy ==
  ASSUME RowTypes, ControlTypes, Tidy, Aside PROVE Tidy'
<1>1. JobsOwned'
  BY DEF Tidy, Aside, RowTypes, JobsOwned
<1>2. FilesMinded'
  BY DEF Tidy, Aside, FilesMinded, Minded
<1>3. \A h \in fresh' : Lists(h)'
  BY DEF Tidy, Aside, Lists
<1> QED BY <1>1, <1>2, <1>3 DEF Tidy

\* No step leaves a deleted user's job behind, nor a file nobody removes.
LEMMA TidyStep ==
  ASSUME RowTypes, HandlerTypes, ControlTypes, Shape, Tidy, Next
  PROVE  Tidy'
<1> USE DEF Aside, Commits, EndRequest, HandlerGoes, Present, userVars,
            requestVars, jobVars, handlerVars, procVars, HandlerTypes
<1>a. fresh \subseteq Handlers /\ \A g \in fresh : hpc[g] = "write"
  BY DEF Tidy, Lists, ControlTypes
<1>1. ASSUME NEW h \in Handlers, Visitor(h) PROVE Tidy'
  <2>1. ASSUME NEW u \in Users, LoginLookup(h, u)
        PROVE  Tidy'
    BY <2>1, <1>a, AsideKeepsTidy DEF LoginLookup, StartRequest
  <2>2. ASSUME NEW n \in Names, ApplyCheckName(h, n)
        PROVE  Tidy'
    BY <2>2, <1>a, AsideKeepsTidy DEF ApplyCheckName, StartRequest
  <2>3. ASSUME NEW q \in Requests, ApplyInsert(h, q)
        PROVE  Tidy'
    BY <2>3, <1>a, AsideKeepsTidy DEF ApplyInsert
  <2>4. CASE LoginSave(h) BY <2>4, <1>a, AsideKeepsTidy DEF LoginSave
  <2>5. CASE ApplyCheckPending(h)
    <3>1. h \notin fresh BY <2>5, <1>a DEF ApplyCheckPending
    <3>2. CASE EndRequest(h)
      <4> Aside BY <2>5, <1>a, <3>1, <3>2 DEF ApplyCheckPending
      <4> QED BY AsideKeepsTidy
    <3>3. CASE HandlerGoes(h, "insert")
      <4> Aside BY <2>5, <1>a, <3>1, <3>3 DEF ApplyCheckPending
      <4> QED BY AsideKeepsTidy
    <3> QED BY <2>5, <3>2, <3>3 DEF ApplyCheckPending
  <2>6. CASE VisitorFails(h) BY <2>6, <1>a, AsideKeepsTidy DEF VisitorFails
  <2> QED BY <1>1, <2>1, <2>2, <2>3, <2>4, <2>5, <2>6 DEF Visitor
<1>2. ASSUME NEW h \in Handlers, Gates(h) PROVE Tidy'
  <2>1. ASSUME NEW u \in Users, NEW o \in Operations, NEW a \in Targets(o), Begin(h, u, o, a)
        PROVE  Tidy'
    BY <2>1, <1>a, AsideKeepsTidy DEF Begin, StartRequest
  <2>2. CASE GateOpens(h) BY <2>2, <1>a, AsideKeepsTidy DEF GateOpens
  <2>3. CASE GateCloses(h) BY <2>3, <1>a, AsideKeepsTidy DEF GateCloses
  <2>4. CASE AdminOnly(h)
    <3>1. h \notin fresh BY <2>4, <1>a DEF AdminOnly
    <3>2. CASE EndRequest(h)
      <4> Aside BY <2>4, <1>a, <3>1, <3>2 DEF AdminOnly
      <4> QED BY AsideKeepsTidy
    <3>3. CASE HandlerGoes(h, "act")
      <4> Aside BY <2>4, <1>a, <3>1, <3>3 DEF AdminOnly
      <4> QED BY AsideKeepsTidy
    <3> QED BY <2>4, <3>2, <3>3 DEF AdminOnly
  <2> QED BY <1>2, <2>1, <2>2, <2>3, <2>4 DEF Gates
<1>3. ASSUME NEW h \in Handlers, Administers(h) PROVE Tidy'
  <2>1. CASE TxRead(h)
    <3>1. JobsOwned'
      BY <2>1 DEF TxRead, Tidy, RowTypes, JobsOwned
    <3>2. FilesMinded'
      BY <2>1 DEF TxRead, Tidy, FilesMinded, Minded
    <3>3. \A g \in fresh' : Lists(g)'
      <4>1. ASSUME NEW g \in fresh', g # h PROVE Lists(g)'
        BY <2>1, <1>a, <4>1 DEF TxRead, Tidy, Lists
      <4>2. Lists(h)'
        BY <2>1 DEF TxRead, Lists
      <4> QED BY <4>1, <4>2
    <3> QED BY <3>1, <3>2, <3>3 DEF Tidy
  <2>2. CASE TxRefused(h) BY <2>2, <1>a, AsideKeepsTidy DEF TxRefused
  <2>3. CASE TxWrite(h)
    <3>1. JobsOwned'
      <4> SUFFICES ASSUME NEW p \in Paths, jobOwner'[p] # 0 PROVE Present(jobOwner[p])'
        BY DEF JobsOwned
      <4> DEFINE v == jobOwner[p]
      <4>1. jobOwner'[p] = v /\ Present(v) /\ ~(hop[h] = "delete" /\ v = harg[h])
        BY <2>3 DEF TxWrite, ChangeUser, Tidy, RowTypes, JobsOwned
      <4>2. hop[h] \in UserOps /\ harg[h] \in Users
        BY <2>3 DEF TxWrite, Shape
      <4>3. state'[v] \notin {"absent", "deleted"}
        BY <2>3, <4>1, <4>2 DEF TxWrite, ChangeUser, NewState, UserOps, RowTypes
      <4> QED BY <4>1, <4>3
    <3>2. FilesMinded'
      <4> SUFFICES ASSUME ~cut', NEW p \in disk', jobOwner'[p] = 0 PROVE Minded(p)'
        BY DEF FilesMinded
      <4>1. p \in disk /\ ~cut /\ p \in Paths
        BY <2>3 DEF TxWrite, RowTypes
      <4>2. CASE jobOwner[p] = 0
        <5>1. PICK g \in Handlers : p \in hpaths[g] /\ hpc[g] \in {"unlink", "enqueue"}
          BY <4>1, <4>2 DEF Tidy, FilesMinded, Minded
        <5>2. hpc[h] = "write"
          BY <2>3 DEF TxWrite
        <5>3. CASE hop[h] = "delete" BY <2>3, <5>1, <5>2, <5>3 DEF TxWrite, Minded
        <5>4. CASE hop[h] # "delete"
          <6>1. EndRequest(h) BY <2>3, <5>4 DEF TxWrite
          <6> QED BY <6>1, <5>1, <5>2 DEF Minded
        <5> QED BY <5>3, <5>4
      <4>3. CASE jobOwner[p] # 0
        <5>1. hop[h] = "delete" /\ jobOwner[p] = harg[h]
          BY <2>3, <4>1, <4>3 DEF TxWrite, ChangeUser
        <5>2. p \in hpaths[h]
          BY <2>3, <4>1, <5>1 DEF TxWrite, Tidy, Lists
        <5>3. HandlerGoes(h, "unlink")
          BY <2>3, <5>1 DEF TxWrite
        <5> QED BY <5>2, <5>3 DEF Minded
      <4> QED BY <4>2, <4>3
    <3>3. \A g \in fresh' : Lists(g)'
      BY <2>3 DEF TxWrite
    <3> QED BY <3>1, <3>2, <3>3 DEF Tidy
  <2>4. CASE TxBusy(h)
    <3>1. Aside BY <2>4, <1>a DEF TxBusy
    <3> QED BY <3>1, AsideKeepsTidy
  <2>5. CASE Unlink(h)
    <3>0. h \notin fresh BY <2>5, <1>a DEF Unlink
    <3>z. \A g \in Handlers \ {h} :
           hpc'[g] = hpc[g] /\ hop'[g] = hop[g] /\ harg'[g] = harg[g] /\ hpaths'[g] = hpaths[g]
      <4>1. CASE harg[h] = hwho[h]
        <5>1. /\ hpc' = [hpc EXCEPT ![h] = "logout"]
              /\ hpaths' = [hpaths EXCEPT ![h] = {}]
              /\ UNCHANGED <<hwho, hop, harg>>
          BY <2>5, <4>1 DEF Unlink
        <5> QED BY <5>1
      <4>2. CASE harg[h] # hwho[h]
        <5>1. EndRequest(h) BY <2>5, <4>2 DEF Unlink
        <5> QED BY <5>1
      <4> QED BY <4>1, <4>2
    <3>1. JobsOwned'
      BY <2>5 DEF Unlink, Tidy, RowTypes, JobsOwned
    <3>2. FilesMinded'
      BY <2>5, <3>z DEF Unlink, Tidy, FilesMinded, Minded
    <3>3. \A g \in fresh' : Lists(g)'
      BY <2>5, <1>a, <3>0, <3>z DEF Unlink, Tidy, Lists
    <3> QED BY <3>1, <3>2, <3>3 DEF Tidy
  <2>6. CASE Logout(h) BY <2>6, <1>a, AsideKeepsTidy DEF Logout
  <2>7. ASSUME NEW u \in Users, Approve(h, u)
        PROVE  Tidy'
    <3>1. Aside BY <2>7, <1>a DEF Approve, InsertUser, NextUser
    <3> QED BY <3>1, AsideKeepsTidy
  <2>8. CASE Deny(h) BY <2>8, <1>a, AsideKeepsTidy DEF Deny, Claim
  <2>9. CASE DeleteRequest(h) BY <2>9, <1>a, AsideKeepsTidy DEF DeleteRequest
  <2>10. CASE DecisionFails(h) BY <2>10, <1>a, AsideKeepsTidy DEF DecisionFails
  <2> QED BY <1>3, <2>1, <2>2, <2>3, <2>4, <2>5, <2>6, <2>7, <2>8, <2>9, <2>10
      DEF Administers
<1>4. ASSUME NEW h \in Handlers, CreatesJob(h) PROVE Tidy'
  <2>1. ASSUME NEW p \in Paths, SaveInput(h, p)
        PROVE  Tidy'
    <3>0. h \notin fresh BY <2>1, <1>a DEF SaveInput
    <3>1. JobsOwned'
      BY <2>1 DEF SaveInput, Tidy, RowTypes, JobsOwned
    <3>2. FilesMinded'
      BY <2>1 DEF SaveInput, Tidy, FilesMinded, Minded
    <3>3. \A g \in fresh' : Lists(g)'
      BY <2>1, <1>a, <3>0 DEF SaveInput, Tidy, Lists
    <3> QED BY <3>1, <3>2, <3>3 DEF Tidy
  <2>2. CASE Enqueue(h)
    <3>1. JobsOwned'
      BY <2>2 DEF Enqueue, Tidy, RowTypes, JobsOwned
    <3>2. FilesMinded'
      <4> SUFFICES ASSUME ~cut', NEW p \in disk', jobOwner'[p] = 0 PROVE Minded(p)'
        BY DEF FilesMinded
      <4>1. jobOwner[p] = 0 /\ p \notin hpaths[h] /\ p \in Paths /\ p \in disk /\ ~cut
        BY <2>2 DEF Enqueue, RowTypes, Shape, Signed, Users
      <4>2. PICK g \in Handlers : p \in hpaths[g] /\ hpc[g] \in {"unlink", "enqueue"}
        BY <4>1 DEF Tidy, FilesMinded, Minded
      <4> QED BY <2>2, <4>1, <4>2 DEF Enqueue, Minded
    <3>3. \A g \in fresh' : Lists(g)'
      BY <2>2 DEF Enqueue
    <3> QED BY <3>1, <3>2, <3>3 DEF Tidy
  <2>3. CASE EnqueueRefused(h)
    <3>0. h \notin fresh BY <2>3, <1>a DEF EnqueueRefused
    <3>1. JobsOwned'
      BY <2>3 DEF EnqueueRefused, Tidy, RowTypes, JobsOwned
    <3>2. FilesMinded'
      BY <2>3 DEF EnqueueRefused, Tidy, FilesMinded, Minded
    <3>3. \A g \in fresh' : Lists(g)'
      BY <2>3, <1>a, <3>0 DEF EnqueueRefused, Tidy, Lists
    <3> QED BY <3>1, <3>2, <3>3 DEF Tidy
  <2> QED BY <1>4, <2>1, <2>2, <2>3 DEF CreatesJob
<1>5. ASSUME NEW u \in Users, NEW n \in Names, Register(u, n)
      PROVE  Tidy'
  <2>1. Aside BY <1>5, <1>a DEF Register, InsertUser, NextUser
  <2> QED BY <2>1, AsideKeepsTidy
<1>6. ASSUME NEW u \in Users, SessionEnds(u)
      PROVE  Tidy'
  BY <1>6, <1>a, AsideKeepsTidy DEF SessionEnds
<1>7. CASE Migrate
  <2>1. Aside BY <1>7, <1>a DEF Migrate
  <2> QED BY <2>1, AsideKeepsTidy
<1>8. CASE Bootstrap
  <2>1. CASE Configured /\ \A u \in Users : ~Present(u)
    <3>1. Aside BY <1>8, <1>a, <2>1 DEF Bootstrap, InsertUser, NextUser
    <3> QED BY <3>1, AsideKeepsTidy
  <2>2. CASE ~(Configured /\ \A u \in Users : ~Present(u))
    <3>1. Aside BY <1>8, <1>a, <2>2 DEF Bootstrap
    <3> QED BY <3>1, AsideKeepsTidy
  <2> QED BY <2>1, <2>2
<1>9. CASE Down
  <2>1. JobsOwned'
    BY <1>9 DEF Down, Tidy, RowTypes, JobsOwned
  <2>2. FilesMinded'
    BY <1>9 DEF Down, Tidy, FilesMinded, Minded
  <2>3. \A g \in fresh' : Lists(g)'
    BY <1>9 DEF Down
  <2> QED BY <2>1, <2>2, <2>3 DEF Tidy
<1> QED BY <1>1, <1>2, <1>3, <1>4, <1>5, <1>6, <1>7, <1>8, <1>9
    DEF Next, Steps, Process

-----------------------------------------------------------------------------
(* The theorems.                                                            *)

\* The inductive invariant: types, what each place of a request asks for, and
\* the strengthened safety properties.
IInv ==
  /\ RowTypes /\ HandlerTypes /\ ControlTypes /\ SeenTypes
  /\ Shape /\ Managed /\ ActsEntitled /\ Applications /\ Tidy

\* It holds of the empty database, before the first start.
LEMMA InitIInv == ASSUME Init PROVE IInv
<1> USE AccountsAssumption DEF Init, NoRequests
<1>1. RowTypes BY DEF RowTypes, States
<1>2. HandlerTypes
  <2>1. hpc \in [Handlers -> Places] BY DEF Places
  <2>2. hop \in [Handlers -> AllOperations \cup {"none"}] OBVIOUS
  <2>3. hwho \in [Handlers -> Users \cup {0}] /\ harg \in [Handlers -> Arguments]
    BY DEF Arguments
  <2>4. hpaths \in [Handlers -> SUBSET Paths] OBVIOUS
  <2> QED BY <2>1, <2>2, <2>3, <2>4 DEF HandlerTypes
<1>3. ControlTypes
  <2>1. restarts \in 0..MaxRestarts OBVIOUS
  <2>2. fresh \subseteq Handlers /\ proc = "down" /\ cut \in BOOLEAN OBVIOUS
  <2> QED BY <2>1, <2>2 DEF ControlTypes
<1>s. SeenTypes BY DEF SeenTypes
<1>4. Shape BY DEF Shape, Signed, UserOps, RequestOps
<1>5. Managed BY DEF Managed, AdministratorLeft
<1>6. ActsEntitled BY DEF ActsEntitled
<1>7. Applications BY DEF Applications
<1>8. Tidy BY DEF Tidy, JobsOwned, FilesMinded
<1> QED BY <1>1, <1>2, <1>3, <1>s, <1>4, <1>5, <1>6, <1>7, <1>8 DEF IInv

\* Every step keeps it.
LEMMA StepIInv == ASSUME IInv, [Next]_vars PROVE IInv'
<1>1. CASE Next
  <2>1. RowTypes' BY <1>1, RowTypesStep DEF IInv
  <2>2. HandlerTypes' BY <1>1, HandlerTypesStep DEF IInv
  <2>3. ControlTypes' BY <1>1, ControlTypesStep DEF IInv
  <2>4. SeenTypes' BY <1>1, SeenTypesStep DEF IInv
  <2>5. Shape' BY <1>1, ShapeStep DEF IInv
  <2>6. Managed' BY <1>1, ManagedStep DEF IInv
  <2>7. ActsEntitled' BY <1>1, EntitledStep DEF IInv
  <2>8. Applications' BY <1>1, ApplicationsStep DEF IInv
  <2>9. Tidy' BY <1>1, TidyStep DEF IInv
  <2> QED BY <2>1, <2>2, <2>3, <2>4, <2>5, <2>6, <2>7, <2>8, <2>9 DEF IInv
<1>2. CASE UNCHANGED vars
  <2> USE <1>2 DEF vars, userVars, requestVars, jobVars, handlerVars, procVars,
                   seenVars
  <2>1. RowTypes' /\ HandlerTypes' BY DEF IInv, RowTypes, HandlerTypes
  <2>2. ControlTypes' /\ SeenTypes' BY DEF IInv, ControlTypes, SeenTypes
  <2>3. Shape' BY DEF IInv, Shape
  <2>4. Calm /\ Managed BY DEF IInv, Calm
  <2>5. Managed' BY <2>4, CalmKeepsManaged
  <2>6. ActsEntitled' BY DEF IInv, ActsEntitled
  <2>7. Applications' BY DEF IInv, Applications
  <2>8. Aside BY DEF Aside, Present
  <2>9. Tidy' BY <2>8, AsideKeepsTidy DEF IInv
  <2> QED BY <2>1, <2>2, <2>3, <2>5, <2>6, <2>7, <2>9 DEF IInv
<1> QED BY <1>1, <1>2

\* Every reachable state of the accounts has the types of the schema and of the
\* requests being served (db.go, the users and access_requests tables).
THEOREM TypeCorrect == Spec => []TypeOK
<1>1. Init => IInv BY InitIInv
<1>2. IInv /\ [Next]_vars => IInv' BY StepIInv
<1>3. IInv => TypeOK BY TypeParts DEF IInv
<1> QED BY <1>1, <1>2, <1>3, PTL DEF Spec

\* With an administrator configured, the process never serves without an
\* approved administrator, however many users, administrators and requests
\* there are (admin.go's three transactions, auth.go Bootstrap, db.go's
\* migrateUserColumns).
THEOREM AdministratorAlwaysLeft == Spec => []AdministratorLeft
<1>1. Init => IInv BY InitIInv
<1>2. IInv /\ [Next]_vars => IInv' BY StepIInv
<1>3. IInv => AdministratorLeft BY DEF IInv, Managed
<1> QED BY <1>1, <1>2, <1>3, PTL DEF Spec

\* Whoever is past the gates was approved, and past adminOnly an administrator,
\* at some moment since the request began (gate.go approvalGate, adminOnly).
THEOREM EveryoneEntitled == Spec => []ActsEntitled
<1>1. Init => IInv BY InitIInv
<1>2. IInv /\ [Next]_vars => IInv' BY StepIInv
<1>3. IInv => ActsEntitled BY DEF IInv
<1> QED BY <1>1, <1>2, <1>3, PTL DEF Spec

\* An approved application has become exactly one account, any other not yet
\* decided or denied one none (access.go Approve, claim).
THEOREM ApplicationsBecomeOneAccount == Spec => []OneAccountPerApplication
<1>1. Init => IInv BY InitIInv
<1>2. IInv /\ [Next]_vars => IInv' BY StepIInv
<1>3. IInv => OneAccountPerApplication
  <2> SUFFICES ASSUME Applications PROVE OneAccountPerApplication
    BY DEF IInv
  <2>1. \A u : Cardinality({u}) = 1
    BY FS_Singleton
  <2> QED BY <2>1 DEF Applications, OneAccountPerApplication
<1> QED BY <1>1, <1>2, <1>3, PTL DEF Spec

\* Deleting a user leaves no job behind, nor a file that no request is about to
\* remove, unless a crash cut a request short (admin.go deleteAdminUser).
THEOREM DeletionLeavesNothing == Spec => []NothingLeftBehind
<1>1. Init => IInv BY InitIInv
<1>2. IInv /\ [Next]_vars => IInv' BY StepIInv
<1>3. IInv => NothingLeftBehind
  BY DEF IInv, Tidy, JobsOwned, FilesMinded, Minded, NothingLeftBehind
<1> QED BY <1>1, <1>2, <1>3, PTL DEF Spec

\* A decided request is never decided again and its decision never attributed
\* to another administrator (access.go claim).
THEOREM DecisionsStand == Spec => DecisionIsFinal
<1>1. Init => IInv BY InitIInv
<1>2. IInv /\ [Next]_vars => IInv' BY StepIInv
<1>3. ASSUME IInv, [Next]_vars PROVE [DecisionStands]_vars
  <2>1. CASE Next BY <1>3, <2>1, DecisionStep DEF IInv
  <2>2. CASE UNCHANGED vars BY <2>2
  <2> QED BY <1>3, <2>1, <2>2
<1>4. [][DecisionStands]_vars => DecisionIsFinal BY DEF DecisionStands, DecisionIsFinal
<1> QED BY <1>1, <1>2, <1>3, <1>4, PTL DEF Spec
=============================================================================
