------------------------------ MODULE Conditions ------------------------------
(***************************************************************************)
(* The evaluation of one condition on one attribute of a request, and what *)
(* each operator means: a reference definition that shares no step with    *)
(* the loops of internal/engine/operators.go.                              *)
(***************************************************************************)
EXTENDS Operators, Functions

CONSTANT Cases  \* the conditions and requests looked at: [operator, value, requestValues]

ASSUME CasesAssumption ==
  \A c \in Cases : c.value \in Seq(Values) /\ c.requestValues \in Seq(Values)

VARIABLES
  operator, value,  \* the condition, as it is decoded from JSON
  requestValues,    \* the values of the attribute it names
  evaluated,        \* has EvaluateCondition returned?
  verdict           \* what it returned

vars == <<operator, value, requestValues, evaluated, verdict>>

Init ==
  /\ \E c \in Cases : operator = c.operator /\ value = c.value /\ requestValues = c.requestValues
  /\ evaluated = FALSE
  /\ verdict = FALSE

\* The condition, compiled as the subscriber does before it reaches the store.
Condition ==
  LET c == [operator |-> operator, value |-> value, CompiledRegex |-> NilRegex]
  IN  IF NeedsRegex(c) THEN [c EXCEPT !.CompiledRegex = Pattern[value[1]]] ELSE c

\* A policy whose pattern does not compile never gets here.
Admitted == operator = "REGEX" /\ Len(value) # 0 => Pattern[value[1]] # Malformed

Evaluate ==
  /\ ~evaluated
  /\ Admitted
  /\ evaluated' = TRUE
  /\ verdict' = Apply(Condition, requestValues)
  /\ UNCHANGED <<operator, value, requestValues>>

Next == Evaluate

Spec == Init /\ [][Next]_vars

--------------------------------------------------------------------------------
(* Properties *)

Evaluated(o) == operator = o /\ evaluated

\* Are the two slices rearrangements of each other?
Rearranged(s, t) ==
  /\ Len(s) = Len(t)
  /\ \E f \in Bijection(DOMAIN s, DOMAIN t) : \A i \in DOMAIN s : s[i] = t[f[i]]

\* evalEquals stops counting at the first surplus request value and never looks
\* at the counts that are left over; that decides exactly whether the request
\* values are the condition values in some order, repetitions included.
EqualsIsRearrangement ==
  Evaluated("EQUALS") => (verdict <=> Rearranged(value, requestValues))

Distinct(s) == \A i, j \in DOMAIN s : i # j => s[i] # s[j]

\* For a condition that names no value twice, the length shortcut of
\* evalContainsAll never changes the answer: it is inclusion.
ContainsAllIsInclusion ==
  Evaluated("CONTAINS_ALL") /\ Distinct(value) =>
    (verdict <=> Elements(value) \subseteq Elements(requestValues))

\* The block of addresses [base .. base + 2^k) a prefix stands for, whether or
\* not its host bits are zero.
Block(p) ==
  LET size == 2^(Width[p.family] - p.bits)
      base == p.host - (p.host % size)
  IN  {h \in 0 .. 2^Width[p.family] - 1 : base <= h /\ h < base + size}

\* evalInCIDR holds exactly for a single, zone-free address inside the block of
\* some well-formed prefix of its own family, /0 and full-length prefixes
\* included; malformed prefixes in between change nothing.
InCIDRIsBlocks ==
  Evaluated("IN_CIDR") =>
    (verdict <=> /\ Len(requestValues) = 1
                 /\ LET ip == Address[requestValues[1]] IN
                    /\ ip # Malformed
                    /\ ~ip.zone
                    /\ \E i \in DOMAIN value :
                         LET p == Prefix[value[i]] IN
                         /\ p # Malformed
                         /\ p.family = ip.family
                         /\ ip.host \in Block(p))

\* evalBetween never holds for a number outside its own bounds, whatever the
\* width of int does to the three conversions, and always for one inside them
\* when all three are representable.
BetweenIsRange ==
  Evaluated("BETWEEN") =>
    (verdict <=> /\ Len(value) = 2 /\ Len(requestValues) = 1
                 /\ \A v \in Elements(value) \cup Elements(requestValues) :
                      Number[v] \in IntMin .. IntMax
                 /\ Number[requestValues[1]] \in Number[value[1]] .. Number[value[2]])

\* README.md: CONTAINS_ANY matches when "request values share at least one
\* condition value".
ContainsAnyAsDocumented ==
  Evaluated("CONTAINS_ANY") =>
    (verdict <=> Elements(value) \cap Elements(requestValues) # {})
================================================================================
