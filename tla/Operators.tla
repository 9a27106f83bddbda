------------------------------- MODULE Operators -------------------------------
(***************************************************************************)
(* Condition evaluation of internal/engine/operators.go and Policy.Compile *)
(* of internal/store/policy.go.                                            *)
(*                                                                         *)
(* Attribute values are strings.  What the standard library makes of a     *)
(* string is given by constant functions on them: the integer it denotes,  *)
(* the address or the prefix it parses to, the set of strings the pattern  *)
(* matches, and Malformed where the parser returns an error.               *)
(***************************************************************************)
EXTENDS Integers, Sequences, FiniteSets

CONSTANTS
  Values,     \* attribute values
  Number,     \* value -> the integer it denotes
  Address,    \* value -> [family, host, zone]   (netip.ParseAddr)
  Prefix,     \* value -> [family, host, bits]   (netip.ParsePrefix)
  Pattern,    \* value -> the values it matches  (regexp.Compile)
  Malformed,  \* a parse error
  NilRegex,   \* CompiledRegex of a condition without a compiled pattern
  Width,      \* address family -> bits of an address
  IntMin, IntMax  \* range of Go's int

ASSUME OperatorConstants ==
  /\ DOMAIN Number = Values /\ DOMAIN Address = Values
  /\ DOMAIN Prefix = Values /\ DOMAIN Pattern = Values
  /\ IntMin \in Int /\ IntMax \in Int /\ IntMin < IntMax
  /\ \A f \in DOMAIN Width : Width[f] \in Nat
  /\ Malformed \notin Int
  /\ \A v \in Values :
       /\ Number[v] # Malformed => Number[v] \in Int
       /\ Address[v] # Malformed =>
            /\ Address[v].family \in DOMAIN Width
            /\ Address[v].host \in 0 .. 2^Width[Address[v].family] - 1
       /\ Prefix[v] # Malformed =>
            /\ Prefix[v].family \in DOMAIN Width
            /\ Prefix[v].host \in 0 .. 2^Width[Prefix[v].family] - 1
            /\ Prefix[v].bits \in 0 .. Width[Prefix[v].family]

\* The elements of a Go slice, without order and repetition.
Elements(s) == {s[i] : i \in DOMAIN s}

\* counts[v] of the frequency map built from s.
Occurrences(s, v) == Cardinality({i \in DOMAIN s : s[i] = v})

--------------------------------------------------------------------------------
(* The operators *)

\* Mutant: no length check, only surplus request values are noticed.
evalEqualsNoLength(condValues, requestValues) ==
  \A k \in DOMAIN requestValues :
    Occurrences(condValues, requestValues[k])
      - Occurrences(SubSeq(requestValues, 1, k), requestValues[k]) >= 0

\* Equal lengths, and no request value drives its count below zero.
evalEquals(condValues, requestValues) ==
  /\ Len(condValues) = Len(requestValues)
  /\ \A k \in DOMAIN requestValues :
       Occurrences(condValues, requestValues[k])
         - Occurrences(SubSeq(requestValues, 1, k), requestValues[k]) >= 0

\* Mutant: the length shortcut also refuses equal lengths.
evalContainsAllStrict(condValues, requestValues) ==
  \/ Len(condValues) = 0
  \/ /\ Len(condValues) < Len(requestValues)
     /\ Elements(condValues) \subseteq Elements(requestValues)

evalContainsAll(condValues, requestValues) ==
  \/ Len(condValues) = 0
  \/ /\ Len(condValues) <= Len(requestValues)
     /\ Elements(condValues) \subseteq Elements(requestValues)

evalContainsAny(condValues, requestValues) ==
  \/ Len(condValues) = 0
  \/ /\ Len(requestValues) # 0
     /\ Elements(condValues) \cap Elements(requestValues) # {}

\* Mutant: the shift is taken from the number of prefix bits.
ContainsShiftBits(prefix, ip) ==
  /\ ip.family = prefix.family
  /\ ~ip.zone
  /\ LET shift == prefix.bits
     IN  ip.host \div 2^shift = prefix.host \div 2^shift

\* netip.Prefix.Contains: same family, no zone, and the same leading bits.
Contains(prefix, ip) ==
  /\ ip.family = prefix.family
  /\ ~ip.zone
  /\ LET shift == Width[ip.family] - prefix.bits
     IN  ip.host \div 2^shift = prefix.host \div 2^shift

\* A malformed prefix of the policy is passed over, a malformed ip matches nothing.
evalInCIDR(condValues, requestValues) ==
  /\ Len(condValues) # 0
  /\ Len(requestValues) = 1
  /\ LET reqIP == Address[requestValues[1]]
     IN  /\ reqIP # Malformed
         /\ \E i \in DOMAIN condValues :
              /\ Prefix[condValues[i]] # Malformed
              /\ Contains(Prefix[condValues[i]], reqIP)

\* Mutant: the value wraps around at the width of int.
AtoiWraps(v) ==
  IF Number[v] = Malformed THEN Malformed
  ELSE IntMin + ((Number[v] - IntMin) % (IntMax - IntMin + 1))

\* strconv.Atoi: a number out of the range of int is an error.
Atoi(v) ==
  IF Number[v] = Malformed THEN Malformed
  ELSE IF Number[v] \in IntMin .. IntMax THEN Number[v] ELSE Malformed

evalBetween(condValue, requestValue) ==
  /\ Len(condValue) = 2
  /\ Len(requestValue) = 1
  /\ LET lowVal  == Atoi(condValue[1])
         highVal == Atoi(condValue[2])
         val     == Atoi(requestValue[1])
     IN  /\ lowVal # Malformed
         /\ highVal # Malformed
         /\ val # Malformed
         /\ lowVal <= val
         /\ highVal >= val

evalRegex(compiledRegex, requestValues) ==
  /\ compiledRegex # NilRegex
  /\ \E i \in DOMAIN requestValues : requestValues[i] \in compiledRegex

--------------------------------------------------------------------------------
(* Conditions: [attribute, operator, value, CompiledRegex] with the attribute  *)
(* cut at its first dot: [found, prefix, key].                                 *)

OperatorNames == {"EQUALS", "CONTAINS_ALL", "CONTAINS_ANY", "IN_CIDR", "BETWEEN", "REGEX"}

Prefixes == {"principal", "resource", "environment"}

\* The outcome of the operator switch; an unknown operator never holds.
Apply(cond, requestValues) ==
  \/ cond.operator = "EQUALS"       /\ evalEquals(cond.value, requestValues)
  \/ cond.operator = "CONTAINS_ALL" /\ evalContainsAll(cond.value, requestValues)
  \/ cond.operator = "CONTAINS_ANY" /\ evalContainsAny(cond.value, requestValues)
  \/ cond.operator = "IN_CIDR"      /\ evalInCIDR(cond.value, requestValues)
  \/ cond.operator = "BETWEEN"      /\ evalBetween(cond.value, requestValues)
  \/ cond.operator = "REGEX"        /\ evalRegex(cond.CompiledRegex, requestValues)

\* req.attributes[prefix] is one of the request's three attribute maps.
EvaluateCondition(cond, req) ==
  /\ cond.attribute.found
  /\ cond.attribute.prefix \in Prefixes
  /\ LET attrs == req.attributes[cond.attribute.prefix]
     IN  /\ cond.attribute.key \in DOMAIN attrs
         /\ Apply(cond, attrs[cond.attribute.key])

--------------------------------------------------------------------------------
(* Policy.Compile *)

\* The pattern of a REGEX condition that has one.
NeedsRegex(cond) == cond.operator = "REGEX" /\ Len(cond.value) # 0

Compiles(p) ==
  \A i \in DOMAIN p.conditions :
    NeedsRegex(p.conditions[i]) => Pattern[p.conditions[i].value[1]] # Malformed

Compile(p) ==
  [p EXCEPT !.conditions =
     [i \in DOMAIN p.conditions |->
        IF NeedsRegex(p.conditions[i])
        THEN [p.conditions[i] EXCEPT !.CompiledRegex = Pattern[p.conditions[i].value[1]]]
        ELSE p.conditions[i]]]
================================================================================
