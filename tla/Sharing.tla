------------------------------- MODULE Sharing -------------------------------
(***************************************************************************)
(* What Timbre promises about its voices, with no HTTP request, file,      *)
(* snapshot, crash or migration in sight.  A clone has an author for good, *)
(* who hears it from the start; others hear it once it is granted to them  *)
(* or shared with everyone, until that is taken back.  A job for a clone   *)
(* that is there is rendered with it.  A library of an older release is    *)
(* taken over once, before it opens, and from then on nothing but an       *)
(* upload or a grant gives anybody access.                                 *)
(***************************************************************************)
EXTENDS Naturals

CONSTANTS Voices,   \* ids of voices, numbers handed out in order
          Jobs,     \* ids of jobs, likewise
          Users,
          Nobody

VARIABLES kind, author,       \* of each voice
          everyone, grants,   \* voices shared with all; <<voice, user>>
          members,            \* the users there are
          job, asker, wish,   \* of each job; 0 once its voice is gone
          taken,              \* the older library was taken over
          open

library == <<kind, author, everyone, grants>>
orders == <<job, asker, wish>>
sharingVars == <<library, members, orders, taken, open>>

Held == {v \in Voices : kind[v] \in {"stock", "stale", "cloned"}}
Of(k) == {v \in Voices : kind[v] = k}
Unused(table, i) == table[i] = "absent" /\ \A k \in 1..(i - 1) : table[k] # "absent"

Init ==
  /\ kind \in [Voices -> {"absent", "stock", "stale", "cloned"}]
  /\ everyone \subseteq Held
  /\ taken \in BOOLEAN /\ (taken => Held = {})
  /\ author = [v \in Voices |-> Nobody] /\ grants = {}
  /\ members = Users
  /\ job = [j \in Jobs |-> "absent"]
  /\ asker = [j \in Jobs |-> Nobody] /\ wish = [j \in Jobs |-> 0]
  /\ open = FALSE

-----------------------------------------------------------------------------
(* While it is open.                                                        *)

Enter(v, k, u) ==
  /\ Unused(kind, v)
  /\ kind' = [kind EXCEPT ![v] = k]
  /\ author' = [author EXCEPT ![v] = u]

\* Whoever heard these voices does no more, and jobs lose them.
Without(gone) ==
  /\ kind' = [v \in Voices |-> IF v \in gone THEN "deleted" ELSE kind[v]]
  /\ author' = [v \in Voices |-> IF v \in gone THEN Nobody ELSE author[v]]
  /\ everyone' = everyone \ gone
  /\ grants' = grants \ (gone \X Users)
  /\ wish' = [j \in Jobs |-> IF wish[j] \in gone THEN 0 ELSE wish[j]]

Publish(v, u) ==
  /\ open /\ u \in members
  /\ Enter(v, "cloned", u)
  /\ grants' = grants \cup {<<v, u>>}
  /\ UNCHANGED <<everyone, members, orders, taken, open>>

Grant(v, u) ==
  /\ open /\ v \in Held /\ u \in members
  /\ grants' = grants \cup {<<v, u>>}
  /\ UNCHANGED <<kind, author, everyone, members, orders, taken, open>>

Revoke(v, who) ==
  /\ open /\ v \in Held
  /\ grants' = grants \ ({v} \X who)
  /\ UNCHANGED <<kind, author, everyone, members, orders, taken, open>>

Share(v) ==
  /\ open /\ v \in Held
  /\ everyone' \in {everyone \cup {v}, everyone \ {v}}
  /\ UNCHANGED <<kind, author, grants, members, orders, taken, open>>

Withdraw(v) ==
  /\ open /\ kind[v] = "cloned"
  /\ Without({v})
  /\ UNCHANGED <<members, job, asker, taken, open>>

\* The voices of a member who leaves stay, without an author.
Leave(u) ==
  /\ open /\ u \in members
  /\ members' = members \ {u}
  /\ author' = [v \in Voices |-> IF author[v] = u THEN Nobody ELSE author[v]]
  /\ grants' = grants \ (Voices \X {u})
  /\ job' = [j \in Jobs |-> IF asker[j] = u THEN "deleted" ELSE job[j]]
  /\ wish' = [j \in Jobs |-> IF asker[j] = u THEN 0 ELSE wish[j]]
  /\ asker' = [j \in Jobs |-> IF asker[j] = u THEN Nobody ELSE asker[j]]
  /\ UNCHANGED <<kind, everyone, taken, open>>

Ask(j, u, v) ==
  /\ open /\ v \in Held /\ u \in members
  /\ Unused(job, j)
  /\ job' = [job EXCEPT ![j] = "queued"]
  /\ asker' = [asker EXCEPT ![j] = u]
  /\ wish' = [wish EXCEPT ![j] = v]
  /\ UNCHANGED <<library, members, taken, open>>

\* With the clone that is there; a stock voice needs no reference; and a job
\* whose voice is gone may end in any way.
Render(j, outcome) ==
  /\ open /\ job[j] = "queued"
  /\ wish[j] # 0 => outcome = IF kind[wish[j]] = "cloned" THEN "voiced" ELSE "plain"
  /\ job' = [job EXCEPT ![j] = outcome]
  /\ UNCHANGED <<library, members, asker, wish, taken, open>>

Close == open /\ open' = FALSE /\ UNCHANGED <<library, members, orders, taken>>

-----------------------------------------------------------------------------
(* While it is closed.                                                      *)

\* The older library: its clones get their authors, its stock voices are shared
\* and, last, its owners are granted what is theirs.
Attribute ==
  /\ ~open /\ ~taken
  /\ author' \in [Voices -> Users \cup {Nobody}]
  /\ \A v \in Voices : author'[v] # author[v] => kind[v] = "cloned" /\ author[v] = Nobody
  /\ UNCHANGED <<kind, everyone, grants, members, orders, taken, open>>

ShareStock ==
  /\ ~open /\ ~taken
  /\ everyone' = everyone \cup Of("stock") \cup Of("stale")
  /\ UNCHANGED <<kind, author, grants, members, orders, taken, open>>

TakeOver ==
  /\ ~open /\ ~taken /\ taken' = TRUE
  /\ \E owner \in [Voices -> Users \cup {Nobody}] :
       /\ \A v \in Voices : owner[v] # Nobody => kind[v] = "cloned"
       /\ grants' = grants \cup {<<v, owner[v]>> : v \in {w \in Voices : owner[w] # Nobody}}
  /\ UNCHANGED <<kind, author, everyone, members, orders, open>>

Stock(v) ==
  /\ ~open /\ taken /\ Of("stock") = {}
  /\ Enter(v, "stock", Nobody)
  /\ everyone' = everyone \cup {v}
  /\ UNCHANGED <<grants, members, orders, taken, open>>

\* It opens with stock, of the present list only.
Open ==
  /\ ~open /\ taken /\ open' = TRUE
  /\ Of("stock") # {} /\ Without(Of("stale"))
  /\ UNCHANGED <<members, job, asker, taken>>

Next ==
  \/ \E v \in Voices :
       \/ \E u \in Users : Publish(v, u) \/ Grant(v, u) \/ Revoke(v, {u})
       \/ Revoke(v, Users) \/ Share(v) \/ Withdraw(v) \/ Stock(v)
  \/ \E u \in Users : Leave(u)
  \/ \E j \in Jobs :
       \/ \E u \in Users, v \in Voices : Ask(j, u, v)
       \/ \E outcome \in {"voiced", "plain", "failed"} : Render(j, outcome)
  \/ Attribute \/ ShareStock \/ TakeOver \/ Open \/ Close

Spec == Init /\ [][Next]_sharingVars
=============================================================================
