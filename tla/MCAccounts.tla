----------------------------- MODULE MCAccounts -----------------------------
(* Instances of Accounts for TLC.  Requests being served, paths and the     *)
(* names nobody is configured with are interchangeable; ids are ordered.    *)
EXTENDS Accounts, TLC

Symmetric ==
  Permutations(Handlers) \cup Permutations(Paths) \cup Permutations(Names \ {Root})

\* A process that serves, with two approved administrators who are signed in.
\* The second one registered after applying, so the name of the application
\* that waits is taken until that account is deleted.
Staff == Users \cap 1..2

ManagedInit ==
  /\ role = [u \in Users |-> IF u \in Staff THEN "admin" ELSE "user"]
  /\ state = [u \in Users |-> IF u \in Staff THEN "approved" ELSE "absent"]
  /\ \E other \in Names \ {Root} :
       /\ name = [u \in Users |-> IF u = 2 THEN other ELSE Root]
       /\ applicant = [q \in Requests |-> other]
  /\ request = [q \in Requests |-> "pending"]
  /\ decidedBy = [q \in Requests |-> 0]
  /\ granted = [q \in Requests |-> {}]
  /\ sessions = Staff
  /\ jobOwner = [p \in Paths |-> 0] /\ disk = {}
  /\ NoRequests
  /\ proc = "up" /\ restarts = 0 /\ cut = FALSE

ManagedSpec == ManagedInit /\ [][Next]_vars
=============================================================================
