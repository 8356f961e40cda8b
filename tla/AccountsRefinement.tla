-------------------------- MODULE AccountsRefinement --------------------------
(***************************************************************************)
(* Accounts implements Membership: whatever requests, snapshots, restarts  *)
(* and crashes there are, the tables change as if every operation were one *)
(* step on the members of that moment.  A step of Accounts is either       *)
(* invisible in the tables or one operation of Membership; the checks of   *)
(* a transaction hold when it commits because its snapshot still is the    *)
(* database (Managed, of the inductive invariant).                         *)
(***************************************************************************)
EXTENDS AccountsProofs

\* A step that no table and nobody outside sees.
Invisible ==
  /\ UNCHANGED <<role, state, name, request, applicant, decidedBy, granted>>
  /\ proc' = proc

\* Membership does not see it either.
LEMMA InvisibleStutters ==
  ASSUME Invisible PROVE UNCHANGED Promise!membershipVars
BY DEF Invisible, Promise!membershipVars, Promise!members, Promise!applications

\* Both have the same members and administrators.
LEMMA SameMembers ==
  /\ Promise!Members = {u \in Users : Present(u)}
  /\ Promise!Administrators = ApprovedAdmins
BY DEF Promise!Members, Promise!Gone, Present, Promise!Administrators, ApprovedAdmins

\* An INSERT is an entry: the next id, and a name no member has.
LEMMA InsertEnters ==
  ASSUME NEW u \in Users, NEW n, NEW r, NEW s, InsertUser(u, n, r, s)
  PROVE  Promise!Enter(u, n, r, s)
<1>1. \A v \in Users : v < u => state[v] # "absent"
  <2> SUFFICES ASSUME NEW v \in Users, v < u PROVE state[v] # "absent"
    OBVIOUS
  <2>1. v \in 1..(u - 1)
    BY AccountsAssumption DEF Users
  <2> QED BY <2>1 DEF InsertUser, NextUser
<1>2. \A v \in Promise!Members : name[v] # n
  BY SameMembers DEF InsertUser, Taken
<1> QED
  BY <1>1, <1>2 DEF InsertUser, NextUser, Promise!Enter, Promise!Unused

\* What a transaction that takes an administrator away has checked.
LEMMA AllowedSpares ==
  ASSUME NEW h, Allowed(h), Removes(hop[h])
  PROVE  Promise!Spared(harg[h])
BY SameMembers, AnotherAdmin DEF Allowed, Promise!Spared

\* The commit of a transaction on a user is the change of a member.
LEMMA WriteChangesMember ==
  ASSUME IInv, NEW h \in Handlers, TxWrite(h)
  PROVE  Promise!Next
<1> DEFINE u == harg[h]
<1>1. hop[h] \in UserOps /\ u \in Users /\ proc = "up" /\ Allowed(h)
  BY DEF TxWrite, IInv, Shape, Managed
<1>2. u \in Promise!Members
  BY <1>1, SameMembers DEF Allowed
<1>3. /\ UNCHANGED <<name, request, applicant, granted>>
      /\ proc' = proc
      /\ ChangeUser(hop[h], u)
  BY DEF TxWrite, ChangeUser, procVars
<1>4. role \in [Users -> {"user", "admin"}] /\ state \in [Users -> States]
  BY DEF IInv, RowTypes
<1>5. decidedBy \in [Requests -> Users \cup {0}]
  BY DEF IInv, RowTypes
<1>6. ASSUME hop[h] # "delete" PROVE decidedBy' = decidedBy
  BY <1>3, <1>5, <1>6 DEF ChangeUser
<1>7. ASSUME hop[h] \in {"enable", "disable"}
      PROVE  \E s \in {"approved", "disabled"} : Promise!SetStanding(u, s)
  <2>1. Promise!SetStanding(u, NewState[hop[h]])
    <3>1. NewState[hop[h]] = "disabled" => Promise!Spared(u)
      BY <1>1, <1>7, AllowedSpares DEF NewState, Removes
    <3>2. /\ state' = [state EXCEPT ![u] = NewState[hop[h]]]
          /\ role' = role
      BY <1>3, <1>7 DEF ChangeUser, NewState, NewRole
    <3> QED
      BY <1>1, <1>2, <1>3, <1>6, <1>7, <3>1, <3>2
         DEF Promise!SetStanding, Promise!applications
  <2>2. NewState[hop[h]] \in {"approved", "disabled"}
    BY <1>7 DEF NewState
  <2> QED BY <2>1, <2>2
<1>8. ASSUME hop[h] \in {"promote", "demote"}
      PROVE  \E r \in {"admin", "user"} : Promise!SetRank(u, r)
  <2>1. Promise!SetRank(u, NewRole[hop[h]])
    <3>1. NewRole[hop[h]] = "user" => Promise!Spared(u)
      BY <1>1, <1>8, AllowedSpares DEF NewRole, Removes
    <3>2. /\ role' = [role EXCEPT ![u] = NewRole[hop[h]]]
          /\ state' = state
      BY <1>3, <1>8 DEF ChangeUser, NewState, NewRole
    <3> QED
      BY <1>1, <1>2, <1>3, <1>6, <1>8, <3>1, <3>2
         DEF Promise!SetRank, Promise!applications
  <2>2. NewRole[hop[h]] \in {"admin", "user"}
    BY <1>8 DEF NewRole
  <2> QED BY <2>1, <2>2
<1>9. ASSUME hop[h] = "delete" PROVE Promise!Remove(u)
  <2>1. Promise!Spared(u)
    BY <1>1, <1>9, AllowedSpares DEF Removes
  <2>2. /\ state' = [state EXCEPT ![u] = "deleted"]
        /\ role' = role
        /\ decidedBy' = [q \in Requests |-> IF decidedBy[q] = u THEN 0 ELSE decidedBy[q]]
    BY <1>3, <1>9 DEF ChangeUser, NewState, NewRole
  <2> QED BY <1>1, <1>2, <1>3, <2>1, <2>2 DEF Promise!Remove
<1> QED
  BY <1>1, <1>7, <1>8, <1>9 DEF UserOps, Promise!Next

\* The two steps of a start are a reinstatement and an opening, or invisible.
LEMMA MigrateReinstates ==
  ASSUME IInv, Migrate
  PROVE  Promise!Next \/ UNCHANGED Promise!membershipVars
<1> DEFINE lowest(u) == Present(u) /\ \A v \in Users : Present(v) => u <= v
<1>1. /\ proc = "down" /\ proc' = "migrated"
      /\ role' = [u \in Users |-> IF lowest(u) THEN "admin" ELSE role[u]]
      /\ state' = [u \in Users |-> IF lowest(u) THEN "approved" ELSE state[u]]
      /\ UNCHANGED <<name, request, applicant, decidedBy, granted>>
  BY DEF Migrate, requestVars
<1>2. role \in [Users -> {"user", "admin"}] /\ state \in [Users -> States]
  BY DEF IInv, RowTypes
<1>3. CASE \E u \in Users : lowest(u)
  <2>1. PICK u \in Users : lowest(u)
    BY <1>3
  <2>2. \A v \in Users : lowest(v) <=> v = u
    BY <2>1, AccountsAssumption DEF Users, Present
  <2>3. /\ role' = [role EXCEPT ![u] = "admin"]
        /\ state' = [state EXCEPT ![u] = "approved"]
    <3>1. /\ role' = [v \in Users |-> IF v = u THEN "admin" ELSE role[v]]
          /\ state' = [v \in Users |-> IF v = u THEN "approved" ELSE state[v]]
      BY <1>1, <2>2, Zenon
    <3> QED BY <1>2, <3>1
  <2>4. Promise!Reinstate(u)
    BY <1>1, <2>1, <2>3, SameMembers DEF Promise!Reinstate, Promise!applications
  <2> QED BY <2>4 DEF Promise!Next
<1>4. CASE ~\E u \in Users : lowest(u)
  <2>1. role' = role /\ state' = state
    BY <1>1, <1>2, <1>4
  <2> QED
    BY <1>1, <2>1
       DEF Promise!membershipVars, Promise!members, Promise!applications
<1> QED BY <1>3, <1>4

LEMMA BootstrapOpens ==
  ASSUME IInv, Bootstrap
  PROVE  Promise!Open
<1>1. /\ proc = "migrated" /\ proc' = "up"
      /\ UNCHANGED <<request, applicant, decidedBy, granted>>
  BY DEF Bootstrap, requestVars
<1>2. CASE Configured /\ \A u \in Users : ~Present(u)
  <2>1. PICK u \in Users : InsertUser(u, Root, "admin", "approved")
    BY <1>2 DEF Bootstrap
  <2>2. Promise!Enter(u, Root, "admin", "approved") /\ Promise!Members = {}
    BY <1>2, <2>1, InsertEnters, SameMembers
  <2> QED BY <1>1, <1>2, <2>2 DEF Promise!Open, Promise!applications
<1>3. CASE ~(Configured /\ \A u \in Users : ~Present(u))
  <2>1. UNCHANGED <<role, state, name>>
    BY <1>3 DEF Bootstrap, userVars
  <2>2. (\E u \in Users : Present(u)) => ApprovedAdmins # {}
    BY <1>1 DEF IInv, Managed
  <2>3. ApprovedAdmins # {} \/ (Promise!Members = {} /\ ~Configured)
    BY <1>3, <2>2, SameMembers
  <2> QED
    BY <1>1, <2>1, <2>3, SameMembers
       DEF Promise!Open, Promise!members, Promise!applications
<1> QED BY <1>2, <1>3

\* Every step of the accounts is a step of Membership, or invisible to it.
LEMMA MembershipStep ==
  ASSUME IInv, [Next]_vars
  PROVE  [Promise!Next]_(Promise!membershipVars)
<1> USE DEF Invisible, userVars, requestVars, procVars
<1>0. proc # "up" => \A h \in Handlers : hpc[h] = "idle"
  BY DEF IInv, Shape
<1>t. proc \in {"down", "migrated", "up"}
  BY DEF IInv, ControlTypes
<1>1. ASSUME NEW h \in Handlers, Visitor(h)
      PROVE  [Promise!Next]_(Promise!membershipVars)
  <2>1. ASSUME NEW u \in Users, LoginLookup(h, u) PROVE Invisible
    BY <2>1 DEF LoginLookup
  <2>2. ASSUME NEW n \in Names, ApplyCheckName(h, n) PROVE Invisible
    BY <2>2 DEF ApplyCheckName
  <2>3. ASSUME NEW q \in Requests, ApplyInsert(h, q)
        PROVE  \E n \in Names : Promise!Apply(q, n)
    <3>1. proc = "up" /\ harg[h] \in Names
      BY <1>0, <2>3 DEF ApplyInsert, IInv, Shape
    <3>2. Promise!Unused(request, q, Requests)
      <4>1. \A p \in Requests : p < q => p \in 1..(q - 1)
        BY AccountsAssumption DEF Requests
      <4> QED BY <2>3, <4>1 DEF ApplyInsert, Promise!Unused
    <3>3. Promise!Apply(q, harg[h])
      BY <2>3, <3>1, <3>2 DEF ApplyInsert, Promise!Apply, Promise!members
    <3> QED BY <3>1, <3>3
  <2>4. CASE LoginSave(h) BY <2>4, InvisibleStutters DEF LoginSave
  <2>5. CASE ApplyCheckPending(h)
    BY <2>5, InvisibleStutters DEF ApplyCheckPending
  <2>6. CASE VisitorFails(h) BY <2>6, InvisibleStutters DEF VisitorFails
  <2> QED
    BY <1>1, <2>1, <2>2, <2>3, <2>4, <2>5, <2>6, InvisibleStutters
       DEF Visitor, Promise!Next
<1>2. ASSUME NEW h \in Handlers, Gates(h) PROVE Invisible
  BY <1>2 DEF Gates, Begin, GateOpens, GateCloses, AdminOnly
<1>3. ASSUME NEW h \in Handlers, Administers(h)
      PROVE  [Promise!Next]_(Promise!membershipVars)
  <2>1. CASE TxRead(h) BY <2>1, InvisibleStutters DEF TxRead
  <2>2. CASE TxRefused(h) BY <2>2, InvisibleStutters DEF TxRefused
  <2>3. CASE TxWrite(h) BY <2>3, WriteChangesMember
  <2>4. CASE TxBusy(h) BY <2>4, InvisibleStutters DEF TxBusy
  <2>5. CASE Unlink(h) BY <2>5, InvisibleStutters DEF Unlink
  <2>6. CASE Logout(h) BY <2>6, InvisibleStutters DEF Logout
  <2>7. ASSUME hpc[h] = "act"
        PROVE  proc = "up" /\ hwho[h] \in Users
    BY <1>0, <2>7 DEF IInv, Shape, Signed
  <2>8. ASSUME NEW q \in Requests, NEW to, Claim(q, to, hwho[h]), hpc[h] = "act",
               UNCHANGED <<applicant, proc>>
        PROVE  Promise!Decide(q, to, hwho[h])
    BY <2>7, <2>8, SameMembers DEF Claim, Promise!Decide
  <2>9. ASSUME NEW u \in Users, Approve(h, u)
        PROVE  Promise!Accept(harg[h], u, hwho[h]) /\ harg[h] \in Requests
    <3>1. harg[h] \in Requests
      BY <2>9 DEF Approve, IInv, Shape, RequestOps
    <3>2. Promise!Decide(harg[h], "approved", hwho[h])
      BY <2>8, <2>9, <3>1 DEF Approve
    <3>3. Promise!Enter(u, applicant[harg[h]], "user", "approved")
      BY <2>9, InsertEnters DEF Approve
    <3>4. granted[harg[h]] = {}
      BY <2>9, <3>1 DEF Approve, Claim, IInv, Applications
    <3>5. granted' = [granted EXCEPT ![harg[h]] = {u}]
      BY <2>9, <3>4 DEF Approve
    <3> QED BY <3>1, <3>2, <3>3, <3>5 DEF Promise!Accept
  <2>10. CASE Deny(h)
    <3>1. harg[h] \in Requests
      BY <2>10 DEF Deny, IInv, Shape, RequestOps
    <3>2. Promise!Decide(harg[h], "denied", hwho[h])
      BY <2>8, <2>10, <3>1 DEF Deny
    <3>3. Promise!Refuse(harg[h], hwho[h])
      BY <2>10, <3>2 DEF Deny, Promise!Refuse, Promise!members
    <3> QED BY <2>7, <2>10, <3>1, <3>3 DEF Deny, Promise!Next
  <2>11. CASE DeleteRequest(h)
    <3>1. harg[h] \in Requests
      BY <2>11 DEF DeleteRequest, IInv, Shape, RequestOps
    <3>2. Promise!Forget(harg[h])
      BY <2>7, <2>11
         DEF DeleteRequest, Promise!Forget, Promise!Gone, Promise!members
    <3> QED BY <3>1, <3>2 DEF Promise!Next
  <2>12. CASE DecisionFails(h) BY <2>12, InvisibleStutters DEF DecisionFails
  <2>13. ASSUME NEW u \in Users, Approve(h, u) PROVE Promise!Next
    BY <2>7, <2>9, <2>13 DEF Approve, Promise!Next
  <2> QED
    BY <1>3, <2>1, <2>2, <2>3, <2>4, <2>5, <2>6, <2>10, <2>11, <2>12, <2>13
       DEF Administers
<1>4. ASSUME NEW h \in Handlers, CreatesJob(h) PROVE Invisible
  BY <1>4 DEF CreatesJob, SaveInput, Enqueue, EnqueueRefused
<1>5. ASSUME NEW u \in Users, NEW n \in Names, Register(u, n)
      PROVE  Promise!Join(u, n)
  BY <1>5, InsertEnters DEF Register, Promise!Join, Promise!applications
<1>6. ASSUME NEW u \in Users, SessionEnds(u) PROVE Invisible
  BY <1>6 DEF SessionEnds
<1>7. CASE Migrate BY <1>7, MigrateReinstates
<1>8. CASE Bootstrap BY <1>8, BootstrapOpens DEF Promise!Next
<1>9. CASE Down
  <2>1. /\ UNCHANGED <<role, state, name, request, applicant, decidedBy, granted>>
        /\ proc # "down" /\ proc' = "down"
    BY <1>9 DEF Down
  <2>2. CASE proc = "up"
    <3>1. Promise!Close
      BY <2>1, <2>2 DEF Promise!Close, Promise!members, Promise!applications
    <3> QED BY <3>1 DEF Promise!Next
  <2>3. CASE proc # "up"
    BY <2>1, <2>3
       DEF Promise!membershipVars, Promise!members, Promise!applications
  <2> QED BY <2>2, <2>3
<1>10. CASE UNCHANGED vars
  <2>1. Invisible BY <1>10 DEF vars
  <2> QED BY <2>1, InvisibleStutters
<1>11. CASE Next
  BY <1>1, <1>2, <1>3, <1>4, <1>5, <1>6, <1>7, <1>8, <1>9, <1>11, InvisibleStutters
     DEF Next, Steps, Process, Promise!Next
<1> QED BY <1>10, <1>11

\* The accounts implement the membership: each operation is atomic, an id is
\* never handed out again, a name never to two members, and nothing that takes
\* an administrator away takes the last one, through every interleaving of
\* requests and every restart.
THEOREM AccountsImplementMembership == Spec => ImplementsMembership
<1>1. Init => IInv BY InitIInv
<1>2. IInv /\ [Next]_vars => IInv' BY StepIInv
<1>3. Init => Promise!Init
  BY DEF Init, Promise!Init
<1>4. IInv /\ [Next]_vars => [Promise!Next]_(Promise!membershipVars)
  BY MembershipStep
<1> QED
  BY <1>1, <1>2, <1>3, <1>4, PTL DEF Spec, ImplementsMembership, Promise!Spec

\* So does every step of a process started with any database that satisfies the
\* invariant, not only with the empty one.
THEOREM StepsFollowMembership == IInv /\ [][Next]_vars => FollowsMembership
<1>1. IInv /\ [Next]_vars => IInv' BY StepIInv
<1>2. IInv /\ [Next]_vars => [Promise!Next]_(Promise!membershipVars)
  BY MembershipStep
<1> QED BY <1>1, <1>2, PTL DEF FollowsMembership
-----------------------------------------------------------------------------
(* The promise is worth keeping: Membership alone, of which nothing is      *)
(* known but its own actions, has the properties the runs check of the      *)
(* tables.                                                                  *)

\* What its steps keep.
Kept ==
  /\ role \in [Users -> {"user", "admin"}]
  /\ state \in [Users -> States]
  /\ request \in [Requests -> {"absent", "pending", "approved", "denied", "deleted"}]
  /\ decidedBy \in [Requests -> Users \cup {0}]
  /\ granted \in [Requests -> SUBSET Users]
  /\ AdministratorLeft
  /\ Applications

\* What happens to u leaves an administrator, if it is spared.
LEMMA SparedLeavesOne ==
  ASSUME NEW u, Promise!Spared(u), ApprovedAdmins # {},
         \A v \in ApprovedAdmins : v # u => v \in ApprovedAdmins'
  PROVE  ApprovedAdmins' # {}
BY SameMembers DEF Promise!Spared

\* An entry changes one row, which was nobody's, and adds an administrator at
\* most.
LEMMA EnterKeeps ==
  ASSUME Kept, NEW u \in Users, NEW n, NEW r \in {"user", "admin"},
         NEW s \in States, Promise!Enter(u, n, r, s)
  PROVE  /\ role' \in [Users -> {"user", "admin"}] /\ state' \in [Users -> States]
         /\ ApprovedAdmins # {} => ApprovedAdmins' # {}
         /\ r = "admin" /\ s = "approved" => ApprovedAdmins' # {}
<1>1. /\ state[u] = "absent"
      /\ state' = [state EXCEPT ![u] = s] /\ role' = [role EXCEPT ![u] = r]
  BY DEF Promise!Enter, Promise!Unused
<1> QED BY <1>1 DEF Kept, ApprovedAdmins

LEMMA KeptStep ==
  ASSUME Kept, [Promise!Next]_(Promise!membershipVars)
  PROVE  Kept' /\ DecisionStands
<1> USE DEF Promise!members, Promise!applications, Promise!Gone
<1> DEFINE Done == Kept' /\ DecisionStands
<1>1. ASSUME UNCHANGED <<role, state>>, proc' = "up" => proc = "up"
      PROVE  /\ role' \in [Users -> {"user", "admin"}] /\ state' \in [Users -> States]
             /\ AdministratorLeft'
  BY <1>1 DEF Kept, AdministratorLeft, ApprovedAdmins
<1>2. ASSUME UNCHANGED <<request, decidedBy, granted>>
      PROVE  /\ request' \in [Requests -> {"absent", "pending", "approved", "denied", "deleted"}]
             /\ decidedBy' \in [Requests -> Users \cup {0}]
             /\ granted' \in [Requests -> SUBSET Users]
             /\ Applications' /\ DecisionStands
  BY <1>2 DEF Kept, Applications, DecisionStands
<1>3. ASSUME NEW u \in Users, NEW n \in Names, Promise!Join(u, n) PROVE Done
  BY <1>2, <1>3, EnterKeeps DEF Promise!Join, States, Kept, AdministratorLeft
<1>4. ASSUME NEW u \in Users, NEW s \in {"approved", "disabled"},
             Promise!SetStanding(u, s)
      PROVE  Done
  <2>1. /\ state' = [state EXCEPT ![u] = s] /\ role' = role
        /\ UNCHANGED <<request, decidedBy, granted>> /\ (proc' = "up" => proc = "up")
    BY <1>4 DEF Promise!SetStanding
  <2>2. state' \in [Users -> States] /\ role' \in [Users -> {"user", "admin"}]
    BY <2>1 DEF Kept, States
  <2>3. \A v \in ApprovedAdmins : v # u => v \in ApprovedAdmins'
    BY <2>1 DEF ApprovedAdmins, Kept
  <2>4. CASE s = "disabled"
    <3>1. Promise!Spared(u) BY <1>4, <2>4 DEF Promise!SetStanding
    <3>2. AdministratorLeft'
      BY <2>1, <2>3, <3>1, SparedLeavesOne DEF Kept, AdministratorLeft
    <3> QED BY <1>2, <2>1, <2>2, <3>2 DEF Kept
  <2>5. CASE s = "approved"
    <3>1. \A v \in ApprovedAdmins : v \in ApprovedAdmins'
      BY <2>1, <2>5 DEF ApprovedAdmins, Kept
    <3>2. AdministratorLeft'
      BY <2>1, <3>1 DEF Kept, AdministratorLeft
    <3> QED BY <1>2, <2>1, <2>2, <3>2 DEF Kept
  <2> QED BY <2>4, <2>5
<1>5. ASSUME NEW u \in Users, NEW r \in {"admin", "user"}, Promise!SetRank(u, r)
      PROVE  Done
  <2>1. /\ role' = [role EXCEPT ![u] = r] /\ state' = state
        /\ UNCHANGED <<request, decidedBy, granted>> /\ (proc' = "up" => proc = "up")
    BY <1>5 DEF Promise!SetRank
  <2>2. state' \in [Users -> States] /\ role' \in [Users -> {"user", "admin"}]
    BY <2>1 DEF Kept
  <2>3. \A v \in ApprovedAdmins : v # u => v \in ApprovedAdmins'
    BY <2>1 DEF ApprovedAdmins, Kept
  <2>4. CASE r = "user"
    <3>1. Promise!Spared(u) BY <1>5, <2>4 DEF Promise!SetRank
    <3>2. AdministratorLeft'
      BY <2>1, <2>3, <3>1, SparedLeavesOne DEF Kept, AdministratorLeft
    <3> QED BY <1>2, <2>1, <2>2, <3>2 DEF Kept
  <2>5. CASE r = "admin"
    <3>1. \A v \in ApprovedAdmins : v \in ApprovedAdmins'
      BY <2>1, <2>5 DEF ApprovedAdmins, Kept
    <3>2. AdministratorLeft'
      BY <2>1, <3>1 DEF Kept, AdministratorLeft
    <3> QED BY <1>2, <2>1, <2>2, <3>2 DEF Kept
  <2> QED BY <2>4, <2>5
<1>6. ASSUME NEW u \in Users, Promise!Remove(u) PROVE Done
  <2>1. /\ state' = [state EXCEPT ![u] = "deleted"] /\ role' = role
        /\ decidedBy' = [q \in Requests |-> IF decidedBy[q] = u THEN 0 ELSE decidedBy[q]]
        /\ UNCHANGED <<request, granted>> /\ (proc' = "up" => proc = "up")
        /\ Promise!Spared(u)
    BY <1>6 DEF Promise!Remove
  <2>2. state' \in [Users -> States] /\ role' \in [Users -> {"user", "admin"}]
    BY <2>1 DEF Kept, States
  <2>3. \A v \in ApprovedAdmins : v # u => v \in ApprovedAdmins'
    BY <2>1 DEF ApprovedAdmins, Kept
  <2>4. AdministratorLeft'
    BY <2>1, <2>3, SparedLeavesOne DEF Kept, AdministratorLeft
  <2>5. /\ decidedBy' \in [Requests -> Users \cup {0}]
        /\ Applications' /\ DecisionStands
    BY <2>1 DEF Kept, Applications, DecisionStands
  <2> QED BY <2>1, <2>2, <2>4, <2>5 DEF Kept
<1>7. ASSUME NEW u \in Users, Promise!Reinstate(u) PROVE Done
  BY <1>2, <1>7 DEF Promise!Reinstate, Kept, States, AdministratorLeft
<1>8. ASSUME NEW q \in Requests, NEW n \in Names, Promise!Apply(q, n) PROVE Done
  <2>1. /\ request[q] = "absent" /\ request' = [request EXCEPT ![q] = "pending"]
        /\ UNCHANGED <<role, state, decidedBy, granted>> /\ (proc' = "up" => proc = "up")
    BY <1>8 DEF Promise!Apply, Promise!Unused
  <2> QED BY <1>1, <2>1 DEF Kept, Applications, DecisionStands
<1>9. ASSUME NEW q \in Requests, NEW a \in Users, NEW to \in {"approved", "denied"},
             Promise!Decide(q, to, a)
      PROVE  /\ request' \in [Requests -> {"absent", "pending", "approved", "denied", "deleted"}]
             /\ decidedBy' \in [Requests -> Users \cup {0}]
             /\ DecisionStands
             /\ request[q] = "pending" /\ request' = [request EXCEPT ![q] = to]
             /\ proc = "up"
  BY <1>9 DEF Promise!Decide, Kept, DecisionStands
<1>10. ASSUME NEW q \in Requests, NEW u \in Users, NEW a \in Users,
              Promise!Accept(q, u, a)
       PROVE  Done
  <2>1. granted' = [granted EXCEPT ![q] = {u}] /\ Promise!Decide(q, "approved", a)
    BY <1>10 DEF Promise!Accept
  <2>d. request[q] = "pending" /\ request' = [request EXCEPT ![q] = "approved"]
    BY <1>9, <2>1
  <2>t. granted' \in [Requests -> SUBSET Users]
    BY <2>1 DEF Kept
  <2>2. Applications'
    <3> SUFFICES ASSUME NEW p \in Requests
                 PROVE  /\ request'[p] = "approved" => \E w : granted'[p] = {w}
                        /\ request'[p] \in {"absent", "pending", "denied"} => granted'[p] = {}
      BY DEF Applications
    <3>1. CASE p = q BY <2>1, <2>d, <3>1 DEF Kept
    <3>2. CASE p # q BY <2>1, <2>d, <3>2 DEF Kept, Applications
    <3> QED BY <3>1, <3>2
  <2>3. /\ role' \in [Users -> {"user", "admin"}] /\ state' \in [Users -> States]
        /\ AdministratorLeft'
    BY <1>9, <1>10, <2>1, EnterKeeps
       DEF Promise!Accept, States, Kept, AdministratorLeft
  <2> QED BY <1>9, <2>1, <2>t, <2>2, <2>3 DEF Kept
<1>11. ASSUME NEW q \in Requests, NEW a \in Users, Promise!Refuse(q, a) PROVE Done
  <2>1. /\ Promise!Decide(q, "denied", a)
        /\ UNCHANGED <<role, state, granted>>
    BY <1>11 DEF Promise!Refuse
  <2>2. granted' \in [Requests -> SUBSET Users] /\ Applications'
    BY <1>9, <2>1 DEF Kept, Applications
  <2> QED BY <1>1, <1>9, <2>1, <2>2 DEF Kept
<1>12. ASSUME NEW q \in Requests, Promise!Forget(q) PROVE Done
  <2>1. /\ request' = [request EXCEPT ![q] = "deleted"]
        /\ UNCHANGED <<role, state, decidedBy, granted>> /\ (proc' = "up" => proc = "up")
    BY <1>12 DEF Promise!Forget
  <2> QED BY <1>1, <2>1 DEF Kept, Applications, DecisionStands
<1>13. CASE Promise!Open
  <2>1. UNCHANGED <<request, decidedBy, granted>>
    BY <1>13 DEF Promise!Open
  <2>2. CASE UNCHANGED <<role, state>> /\ (ApprovedAdmins # {} \/ ~Configured)
    BY <1>2, <2>1, <2>2 DEF Kept, AdministratorLeft, ApprovedAdmins
  <2>3. CASE \E u \in Users : Promise!Enter(u, Root, "admin", "approved")
    BY <1>2, <2>1, <2>3, EnterKeeps DEF Kept, AdministratorLeft, States
  <2> QED BY <1>13, <2>2, <2>3, SameMembers DEF Promise!Open
<1>14. CASE Promise!Close
  BY <1>1, <1>2, <1>14 DEF Promise!Close, Kept
<1>15. CASE UNCHANGED Promise!membershipVars
  BY <1>1, <1>2, <1>15 DEF Promise!membershipVars, Kept
<1> QED
  BY <1>3, <1>4, <1>5, <1>6, <1>7, <1>8, <1>10, <1>11, <1>12, <1>13, <1>14, <1>15
     DEF Promise!Next

\* Whatever keeps the promise of Membership always has an administrator while
\* it serves, one account for each accepted application, and final decisions.
THEOREM MembershipSuffices ==
  Promise!Spec => []AdministratorLeft /\ []OneAccountPerApplication /\ DecisionIsFinal
<1>1. Promise!Init => Kept
  BY DEF Promise!Init, Kept, States, AdministratorLeft, Applications
<1>2. Kept /\ [Promise!Next]_(Promise!membershipVars) => Kept' /\ [DecisionStands]_vars
  BY KeptStep
<1>3. Kept => AdministratorLeft /\ OneAccountPerApplication
  <2>1. \A u : Cardinality({u}) = 1 BY FS_Singleton
  <2> QED BY <2>1 DEF Kept, Applications, OneAccountPerApplication
<1>4. [][DecisionStands]_vars => DecisionIsFinal
  BY DEF DecisionStands, DecisionIsFinal
<1> QED BY <1>1, <1>2, <1>3, <1>4, PTL DEF Promise!Spec
=============================================================================
