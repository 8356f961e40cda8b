------------------------------ MODULE Membership ------------------------------
(***************************************************************************)
(* What Timbre promises about its members, with no HTTP request, session,  *)
(* snapshot or crash in sight.  Every change is one step on the members as *)
(* they are at that moment: an id belongs to one account for good, a name  *)
(* to one member at a time; an application is decided once, by a member,   *)
(* and becomes an account exactly when it is accepted; whatever takes an   *)
(* approved administrator away leaves another one.  While Timbre is closed *)
(* its first member may be made an administrator again, and it does not    *)
(* open without one unless it has no members at all.                       *)
(***************************************************************************)
EXTENDS Naturals

CONSTANTS Users,        \* ids of accounts, numbers handed out in order
          Requests,     \* ids of applications, likewise
          Names,        \* what members are called
          Root,         \* the administrator of the configuration
          Configured    \* whether there is one

VARIABLES standing, rank, login,         \* the account of each id
          application, applicant,        \* the application of each id
          decider, account,              \* who decided it, the accounts it became
          open

members == <<standing, rank, login>>
applications == <<application, applicant, decider, account>>
membershipVars == <<members, applications, open>>

Gone == {"absent", "deleted"}
Members == {u \in Users : standing[u] \notin Gone}
Administrators == {u \in Users : rank[u] = "admin" /\ standing[u] = "approved"}

\* Whatever happens to u, an administrator is left if there was one.
Spared(u) == u \in Administrators => \E v \in Administrators : v # u

Unused(table, i, ids) ==
  table[i] = "absent" /\ \A k \in ids : k < i => table[k] # "absent"

Init ==
  /\ standing = [u \in Users |-> "absent"]
  /\ rank = [u \in Users |-> "user"]
  /\ login = [u \in Users |-> Root]
  /\ application = [q \in Requests |-> "absent"]
  /\ applicant = [q \in Requests |-> Root]
  /\ decider = [q \in Requests |-> 0]
  /\ account = [q \in Requests |-> {}]
  /\ open = FALSE

Enter(u, n, r, s) ==
  /\ Unused(standing, u, Users)
  /\ \A v \in Members : login[v] # n
  /\ standing' = [standing EXCEPT ![u] = s]
  /\ rank' = [rank EXCEPT ![u] = r]
  /\ login' = [login EXCEPT ![u] = n]

Join(u, n) ==
  open /\ Enter(u, n, "user", "pending") /\ UNCHANGED <<applications, open>>

Apply(q, n) ==
  /\ open /\ Unused(application, q, Requests)
  /\ application' = [application EXCEPT ![q] = "pending"]
  /\ applicant' = [applicant EXCEPT ![q] = n]
  /\ UNCHANGED <<members, decider, account, open>>

Decide(q, verdict, a) ==
  /\ open /\ application[q] = "pending" /\ a \in Members
  /\ application' = [application EXCEPT ![q] = verdict]
  /\ decider' = [decider EXCEPT ![q] = a]
  /\ UNCHANGED <<applicant, open>>

Accept(q, u, a) ==
  /\ Decide(q, "approved", a)
  /\ Enter(u, applicant[q], "user", "approved")
  /\ account' = [account EXCEPT ![q] = {u}]

Refuse(q, a) == Decide(q, "denied", a) /\ UNCHANGED <<members, account>>

Forget(q) ==
  /\ open /\ application[q] \notin Gone
  /\ application' = [application EXCEPT ![q] = "deleted"]
  /\ UNCHANGED <<members, applicant, decider, account, open>>

SetStanding(u, s) ==
  /\ open /\ u \in Members /\ (s = "disabled" => Spared(u))
  /\ standing' = [standing EXCEPT ![u] = s]
  /\ UNCHANGED <<rank, login, applications, open>>

SetRank(u, r) ==
  /\ open /\ u \in Members /\ (r = "user" => Spared(u))
  /\ rank' = [rank EXCEPT ![u] = r]
  /\ UNCHANGED <<standing, login, applications, open>>

\* A decision outlives the member who took it, without the name.
Remove(u) ==
  /\ open /\ u \in Members /\ Spared(u)
  /\ standing' = [standing EXCEPT ![u] = "deleted"]
  /\ decider' = [q \in Requests |-> IF decider[q] = u THEN 0 ELSE decider[q]]
  /\ UNCHANGED <<rank, login, application, applicant, account, open>>

Reinstate(u) ==
  /\ ~open /\ u \in Members /\ \A v \in Members : u <= v
  /\ standing' = [standing EXCEPT ![u] = "approved"]
  /\ rank' = [rank EXCEPT ![u] = "admin"]
  /\ UNCHANGED <<login, applications, open>>

Open ==
  /\ ~open /\ open' = TRUE
  /\ \/ Administrators # {} /\ UNCHANGED members
     \/ Members = {} /\ ~Configured /\ UNCHANGED members
     \/ Members = {} /\ Configured
          /\ \E u \in Users : Enter(u, Root, "admin", "approved")
  /\ UNCHANGED applications

Close == open /\ open' = FALSE /\ UNCHANGED <<members, applications>>

Next ==
  \/ \E u \in Users :
       \/ \E n \in Names : Join(u, n)
       \/ \E s \in {"approved", "disabled"} : SetStanding(u, s)
       \/ \E r \in {"admin", "user"} : SetRank(u, r)
       \/ Remove(u) \/ Reinstate(u)
  \/ \E q \in Requests :
       \/ \E n \in Names : Apply(q, n)
       \/ \E u, a \in Users : Accept(q, u, a)
       \/ \E a \in Users : Refuse(q, a)
       \/ Forget(q)
  \/ Open \/ Close

Spec == Init /\ [][Next]_membershipVars
=============================================================================
