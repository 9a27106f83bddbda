---------------------------- MODULE ActivePolicies ----------------------------
(***************************************************************************)
(* What internal/store promises its callers while no two calls work on the *)
(* same id at once: one map from ids to policies.  A call takes effect     *)
(* between its invocation and its return, in one step, except that an      *)
(* upsert that changes the access mode first withdraws the old entry: for  *)
(* a moment the id is absent and requests fall through to default deny.    *)
(* There are no tables, pointers or retries at this level.                 *)
(***************************************************************************)
CONSTANTS
  Ids, Writers, NoPolicy, Idle,
  Calls   \* [op, id, policy] records, as in PolicyStore

VARIABLES
  active,   \* the policy in force for each id
  pending   \* per writer: the call in progress, or Idle

vars == <<active, pending>>

\* Do two policies both allow, or both deny?
SameSide(p, q) == p.access = "ALLOW" <=> q.access = "ALLOW"

Init ==
  /\ active  = [id \in Ids |-> NoPolicy]
  /\ pending = [w \in Writers |-> Idle]

\* A call on an id nobody else is working on.
Invoke(w, c) ==
  /\ pending[w] = Idle
  /\ \A v \in Writers : pending[v] # Idle => pending[v].id # c.id
  /\ pending' = [pending EXCEPT ![w] = c]
  /\ UNCHANGED active

\* Mutant: every upsert first takes the old entry out.
WithdrawAlways(w) ==
  LET c == pending[w] IN
  /\ c # Idle
  /\ active[c.id] # NoPolicy
  /\ active' = [active EXCEPT ![c.id] = NoPolicy]
  /\ UNCHANGED pending

\* An entry is withdrawn ahead of its replacement only when it changes sides,
\* and ahead of the return of the call that deletes it.
Withdraw(w) ==
  LET c == pending[w] IN
  /\ c # Idle
  /\ active[c.id] # NoPolicy
  /\ c.op = "upsert" => ~SameSide(active[c.id], c.policy)
  /\ active' = [active EXCEPT ![c.id] = NoPolicy]
  /\ UNCHANGED pending

\* The call returns with its effect in place.
Return(w) ==
  LET c == pending[w] IN
  /\ c # Idle
  /\ \/ /\ c.op = "upsert"
        /\ active[c.id] # NoPolicy => SameSide(active[c.id], c.policy)
        /\ active' = [active EXCEPT ![c.id] = c.policy]
     \/ /\ c.op = "delete"
        /\ active' = [active EXCEPT ![c.id] = NoPolicy]
  /\ pending' = [pending EXCEPT ![w] = Idle]

Next ==
  \E w \in Writers :
    \/ \E c \in Calls : Invoke(w, c)
    \/ Withdraw(w)
    \/ Return(w)

Spec == Init /\ [][Next]_vars
================================================================================
