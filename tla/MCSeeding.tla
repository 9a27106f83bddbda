------------------------------- MODULE MCSeeding -------------------------------
(* Model-checking instances of Seeding. *)
EXTENDS Seeding

CONSTANTS v1, v2, bad

policy(i, a, b)  == [id |-> i, access |-> a, body |-> b]
file(p)          == [regular |-> TRUE, id |-> p.id, policy_json |-> p]
junk(r, i)       == [regular |-> r, id |-> i, policy_json |-> Malformed]

\* Two good files among everything that is passed over; an edited directory with
\* two files of one id, on opposite sides; one file that the engine rejects.
MCDirs ==
  { {file(policy(1, "ALLOW", v1)), file(policy(2, "DENY", v1)),
     junk(FALSE, 1), junk(TRUE, Missing), junk(TRUE, Malformed)},
    {file(policy(1, "ALLOW", v2)), file(policy(1, "DENY", v2))},
    {file(policy(2, "ALLOW", bad)), junk(TRUE, 1)} }

\* An operator deletes a seeded policy.
MCEntries == {[action |-> "DELETE", policy_id |-> 1, policy_json |-> Missing]}

\* The mock publisher's one policy; its probe also matches the file of id 2.
MCToolList == <<policy(1, "ALLOW", v1)>>
MCProbed   == {p \in Policy : p.id = 1 \/ p.id = 2}

\* The load-test seeder's list: the probe is about the first policy.
NoDirs       == {{}}
SeedToolList == <<policy(1, "ALLOW", v1), policy(2, "DENY", v1), policy(3, "ALLOW", v1)>>
SeedProbed   == {p \in Policy : p.id = 1}
================================================================================
