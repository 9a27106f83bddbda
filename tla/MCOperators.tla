------------------------------ MODULE MCOperators ------------------------------
(***************************************************************************)
(* Instances of Conditions: every operator on every small input.           *)
(***************************************************************************)
EXTENDS Conditions

CONSTANT Asked  \* the operators this run evaluates

Words     == {[kind |-> "word", n |-> i] : i \in 1 .. 3}
Ints      == {[kind |-> "int", n |-> i] : i \in IntMin - 1 .. IntMax + 1}
Addresses == {[kind |-> "addr", family |-> f, host |-> h, zone |-> z] :
                f \in {4, 6}, h \in 0 .. 7, z \in {FALSE, TRUE}}
Prefixed  == {[kind |-> "cidr", family |-> f, host |-> h, bits |-> b] :
                f \in {4, 6}, h \in 0 .. 7, b \in 0 .. 3}

\* An IPv4 address has no zone.
Parsable == {a \in Addresses : a.family = 4 => ~a.zone}

MCValues  == Words \cup Ints \cup Parsable \cup Prefixed
MCNumber  == [v \in MCValues |-> IF v \in Ints THEN v.n ELSE Malformed]
MCAddress == [v \in MCValues |-> IF v \in Parsable THEN v ELSE Malformed]
MCPrefix  == [v \in MCValues |-> IF v \in Prefixed THEN v ELSE Malformed]
\* Two patterns, one of which matches nothing; other strings do not compile.
MCPattern == [v \in MCValues |->
                CASE v = [kind |-> "word", n |-> 1] -> {v, [kind |-> "word", n |-> 2]}
                  [] v = [kind |-> "word", n |-> 2] -> {}
                  [] OTHER -> Malformed]
MCIntMin  == -2
MCWidth   == [f \in {4, 6} |-> 3]

UpTo(S, n) == UNION {[1 .. k -> S] : k \in 0 .. n}
aWord == CHOOSE w \in Words : TRUE

\* The operands worth telling apart, per operator.
CondValues(o) ==
  CASE o = "IN_CIDR" -> UpTo(Prefixed \cup {aWord}, 1)
                          \cup {<<aWord, p>> : p \in Prefixed}
    [] o = "BETWEEN" -> UpTo(Ints \cup {aWord}, 2) \cup {<<i, i, i>> : i \in Ints}
    [] o = "REGEX"   -> UpTo(Words, 1)
    [] OTHER         -> UpTo(Words, 3)
RequestValues(o) ==
  CASE o = "IN_CIDR" -> UpTo(Parsable \cup {aWord}, 1) \cup {<<a, a>> : a \in Parsable}
    [] o = "BETWEEN" -> UpTo(Ints \cup {aWord}, 1) \cup {<<i, i>> : i \in Ints}
    [] OTHER         -> UpTo(Words, 3)

MCCases ==
  UNION {{[operator |-> o, value |-> v, requestValues |-> r] :
            v \in CondValues(o), r \in RequestValues(o)} : o \in Asked}
================================================================================
