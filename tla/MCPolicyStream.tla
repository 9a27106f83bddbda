---------------------------- MODULE MCPolicyStream ----------------------------
(* Model-checking instances of PolicyStream. *)
EXTENDS PolicyStream

CONSTANTS x, y, good, bad

policy(i, a, b) == [id |-> i, access |-> a, body |-> b]
upsert(pid, p)  == [action |-> "UPSERT", policy_id |-> pid, policy_json |-> p]
delete(pid)     == [action |-> "DELETE", policy_id |-> pid, policy_json |-> Missing]

\* Accepted updates of two ids, on both sides, a payload whose id is not its
\* entry's policy_id, and every way an entry is rejected.
MCEntries ==
  { upsert(x, policy(x, "ALLOW", good)), upsert(x, policy(x, "DENY", good)),
    upsert(x, policy(y, "ALLOW", good)), delete(x), delete(y),
    upsert(x, policy(x, "AUDIT", good)), upsert(x, policy(x, "ALLOW", bad)),
    upsert(x, Malformed), upsert(x, Missing), upsert(Missing, policy(x, "DENY", good)),
    [upsert(x, policy(x, "DENY", good)) EXCEPT !.action = "PATCH"],
    [upsert(x, policy(x, "DENY", good)) EXCEPT !.action = Missing] }
================================================================================
