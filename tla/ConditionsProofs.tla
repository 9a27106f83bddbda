--------------------------- MODULE ConditionsProofs ---------------------------
(***************************************************************************)
(* Proofs that the loops of the operators compute what Conditions says     *)
(* they mean, for slices of any length, addresses of any width and every   *)
(* range of int.                                                           *)
(***************************************************************************)
EXTENDS Conditions, FiniteSetTheorems, FunctionTheorems, TLAPS

--------------------------------------------------------------------------------
(* EQUALS *)

\* The places of v in the slice s.
Places(s, v) == {i \in DOMAIN s : s[i] = v}

LEMMA PlacesCounted ==
  ASSUME NEW s \in Seq(Values), NEW v
  PROVE  /\ IsFiniteSet(Places(s, v))
         /\ Occurrences(s, v) = Cardinality(Places(s, v))
         /\ Occurrences(s, v) \in Nat
<1>1. Len(s) \in Nat /\ DOMAIN s = 1 .. Len(s)
  OBVIOUS
<1>2. IsFiniteSet(DOMAIN s)
  BY <1>1, FS_Interval
<1>3. Places(s, v) \in SUBSET DOMAIN s
  BY DEF Places
<1>4. IsFiniteSet(Places(s, v))
  BY <1>2, <1>3, FS_Subset
<1>5. Occurrences(s, v) = Cardinality(Places(s, v))
  BY DEF Occurrences, Places
<1> QED
  BY <1>4, <1>5, FS_CardinalityType

\* The first k values of a slice, as the loop has seen them after k rounds.
LEMMA PlacesOfPrefix ==
  ASSUME NEW t \in Seq(Values), NEW k \in DOMAIN t, NEW v
  PROVE  /\ SubSeq(t, 1, k) \in Seq(Values)
         /\ Places(SubSeq(t, 1, k), v) = {i \in Places(t, v) : i <= k}
<1>1. Len(t) \in Nat /\ DOMAIN t = 1 .. Len(t) /\ k \in 1 .. Len(t)
  OBVIOUS
<1>2. /\ SubSeq(t, 1, k) \in Seq(Values)
      /\ DOMAIN SubSeq(t, 1, k) = 1 .. k
      /\ \A i \in 1 .. k : SubSeq(t, 1, k)[i] = t[i]
  BY <1>1
<1>3. \A i : i \in 1 .. k <=> i \in DOMAIN t /\ i <= k
  BY <1>1
<1> QED
  BY <1>2, <1>3 DEF Places

\* A rearrangement maps the places of a value onto the places of that value.
LEMMA RearrangedCounts ==
  ASSUME NEW s \in Seq(Values), NEW t \in Seq(Values),
         NEW f \in Bijection(DOMAIN s, DOMAIN t), \A i \in DOMAIN s : s[i] = t[f[i]],
         NEW v
  PROVE  Occurrences(s, v) = Occurrences(t, v)
<1> DEFINE g == [i \in Places(s, v) |-> f[i]]
<1>1. /\ f \in [DOMAIN s -> DOMAIN t]
      /\ \A i, j \in DOMAIN s : f[i] = f[j] => i = j
      /\ \A j \in DOMAIN t : \E i \in DOMAIN s : f[i] = j
  BY Fun_BijectionProperties
<1>2. g \in [Places(s, v) -> Places(t, v)]
  BY <1>1 DEF Places
<1>3. \A i, j \in Places(s, v) : g[i] = g[j] => i = j
  BY <1>1 DEF Places
<1>4. \A j \in Places(t, v) : \E i \in Places(s, v) : g[i] = j
  <2> SUFFICES ASSUME NEW j \in Places(t, v)
               PROVE  \E i \in Places(s, v) : g[i] = j
    OBVIOUS
  <2>1. PICK i \in DOMAIN s : f[i] = j
    BY <1>1 DEF Places
  <2>2. i \in Places(s, v)
    BY <2>1 DEF Places
  <2> QED
    BY <2>1, <2>2
<1>5. g \in Bijection(Places(s, v), Places(t, v))
  BY <1>2, <1>3, <1>4, Fun_IsBij
<1>6. ExistsBijection(Places(s, v), Places(t, v))
  BY <1>5 DEF ExistsBijection
<1> QED
  BY <1>6, PlacesCounted, FS_Bijection

LEMMA RearrangedIsEqual ==
  ASSUME NEW s \in Seq(Values), NEW t \in Seq(Values), Rearranged(s, t)
  PROVE  evalEquals(s, t)
<1>1. PICK f \in Bijection(DOMAIN s, DOMAIN t) : \A i \in DOMAIN s : s[i] = t[f[i]]
  BY DEF Rearranged
<1>2. ASSUME NEW k \in DOMAIN t
      PROVE  Occurrences(s, t[k]) - Occurrences(SubSeq(t, 1, k), t[k]) >= 0
  <2>1. PICK v : v = t[k]
    OBVIOUS
  <2>2. Occurrences(s, v) = Occurrences(t, v)
    BY <1>1, RearrangedCounts
  <2>3. SubSeq(t, 1, k) \in Seq(Values) /\ Places(SubSeq(t, 1, k), v) \in SUBSET Places(t, v)
    BY PlacesOfPrefix
  <2>4. Cardinality(Places(SubSeq(t, 1, k), v)) <= Cardinality(Places(t, v))
    BY <2>3, PlacesCounted, FS_Subset
  <2>5. /\ Occurrences(SubSeq(t, 1, k), v) \in Nat /\ Occurrences(t, v) \in Nat
        /\ Occurrences(SubSeq(t, 1, k), v) <= Occurrences(t, v)
    BY <2>3, <2>4, PlacesCounted
  <2> QED
    BY <2>1, <2>2, <2>5
<1> QED
  BY <1>2 DEF evalEquals, Rearranged

\* A value that occurs in a slice has a last place.
LEMMA LastPlace ==
  ASSUME NEW t \in Seq(Values), NEW v, Places(t, v) # {}
  PROVE  \E k \in Places(t, v) : \A j \in Places(t, v) : j <= k
<1> DEFINE T == {n \in 0 .. Len(t) : Len(t) - n \in Places(t, v)}
<1>1. /\ Len(t) \in Nat
      /\ \A j \in Places(t, v) : j \in 1 .. Len(t)
  BY DEF Places
<1>2. \A j \in Places(t, v) : Len(t) - j \in T
  <2> SUFFICES ASSUME NEW j \in Places(t, v) PROVE Len(t) - j \in T
    OBVIOUS
  <2>1. Len(t) - j \in 0 .. Len(t) /\ Len(t) - (Len(t) - j) = j
    BY <1>1
  <2> QED
    BY <2>1
<1>3. T \subseteq Nat /\ T # {}
  BY <1>1, <1>2
<1>4. PICK n \in T : \A m \in T : ~(<<m, n>> \in OpToRel(<, Nat))
  BY <1>3, NatLessThanWellFounded, WFMin
<1>5. \A m \in T : ~(m < n)
  BY <1>3, <1>4 DEF OpToRel
<1>6. Len(t) - n \in Places(t, v) /\ n \in Nat
  <2>1. n \in T
    BY <1>4
  <2>2. n \in Nat
    BY <1>3, <2>1
  <2> QED
    BY <2>1, <2>2
<1>7. \A j \in Places(t, v) : j <= Len(t) - n
  <2> SUFFICES ASSUME NEW j \in Places(t, v) PROVE j <= Len(t) - n
    OBVIOUS
  <2>1. ~(Len(t) - j < n)
    BY <1>2, <1>5
  <2> QED
    BY <1>1, <1>6, <2>1
<1> QED
  BY <1>6, <1>7

\* If no request value drives its count below zero, no value occurs in the
\* request more often than in the condition: the count was looked at at the
\* value's last place.
LEMMA NoSurplus ==
  ASSUME NEW s \in Seq(Values), NEW t \in Seq(Values), evalEquals(s, t), NEW v
  PROVE  Occurrences(t, v) <= Occurrences(s, v)
<1>1. CASE Places(t, v) = {}
  <2>1. Occurrences(t, v) = 0
    BY <1>1, PlacesCounted, FS_EmptySet
  <2> QED
    BY <2>1, PlacesCounted
<1>2. CASE Places(t, v) # {}
  <2>1. PICK k \in Places(t, v) : \A j \in Places(t, v) : j <= k
    BY <1>2, LastPlace
  <2>2. k \in DOMAIN t /\ t[k] = v
    BY DEF Places
  <2>3. Occurrences(s, v) - Occurrences(SubSeq(t, 1, k), v) >= 0
    BY <2>2 DEF evalEquals
  <2>4. SubSeq(t, 1, k) \in Seq(Values) /\ Places(SubSeq(t, 1, k), v) = Places(t, v)
    <3>1. /\ SubSeq(t, 1, k) \in Seq(Values)
          /\ Places(SubSeq(t, 1, k), v) = {i \in Places(t, v) : i <= k}
      BY <2>2, PlacesOfPrefix
    <3>2. {i \in Places(t, v) : i <= k} = Places(t, v)
      BY <2>1
    <3> QED
      BY <3>1, <3>2
  <2>5. Occurrences(SubSeq(t, 1, k), v) = Occurrences(t, v)
    BY <2>4, PlacesCounted
  <2>6. Occurrences(s, v) \in Nat /\ Occurrences(t, v) \in Nat
    BY PlacesCounted
  <2> QED
    BY <2>3, <2>5, <2>6
<1> QED
  BY <1>1, <1>2

\* A finite set goes one to one into a finite set that is no smaller.
LEMMA FitsInto ==
  ASSUME NEW S, NEW T, IsFiniteSet(S), IsFiniteSet(T), Cardinality(S) <= Cardinality(T)
  PROVE  Injection(S, T) # {}
<1> DEFINE m == Cardinality(S)
           n == Cardinality(T)
<1>1. m \in Nat /\ n \in Nat /\ m <= n
  BY FS_CardinalityType
<1>2. PICK f \in Bijection(1 .. m, S) : TRUE
  BY FS_CardinalityType DEF ExistsBijection
<1>3. PICK g \in Bijection(1 .. n, T) : TRUE
  BY FS_CardinalityType DEF ExistsBijection
<1>4. PICK h \in Bijection(S, 1 .. m) : TRUE
  BY <1>2, Fun_BijInverse
<1>5. h \in [S -> 1 .. m] /\ \A a, b \in S : h[a] = h[b] => a = b
  <2> HIDE DEF m
  <2> QED
    BY <1>4, Fun_BijectionProperties
<1>6. g \in [1 .. n -> T] /\ \A a, b \in 1 .. n : g[a] = g[b] => a = b
  <2> HIDE DEF n
  <2> QED
    BY <1>3, Fun_BijectionProperties
<1>7. \A i \in 1 .. m : i \in 1 .. n
  BY <1>1
<1> HIDE DEF m, n
<1> DEFINE F == [x \in S |-> g[h[x]]]
<1>8. F \in [S -> T] /\ \A a, b \in S : F[a] = F[b] => a = b
  BY <1>5, <1>6, <1>7
<1>9. F \in Injection(S, T)
  BY <1>8, Fun_IsInj
<1> QED
  BY <1>9

\* Equal lengths and no surplus: matching up the places of every value matches
\* up all places.
LEMMA EqualIsRearranged ==
  ASSUME NEW s \in Seq(Values), NEW t \in Seq(Values), evalEquals(s, t)
  PROVE  Rearranged(s, t)
<1>1. Len(s) = Len(t) /\ Len(s) \in Nat
  BY DEF evalEquals
<1>2. \A v : Injection(Places(t, v), Places(s, v)) # {}
  BY NoSurplus, PlacesCounted, FitsInto
<1> DEFINE into(v) == CHOOSE h : h \in Injection(Places(t, v), Places(s, v))
           g       == [k \in DOMAIN t |-> into(t[k])[k]]
<1>3. \A v : into(v) \in Injection(Places(t, v), Places(s, v))
  BY <1>2
<1>4. \A v : /\ into(v) \in [Places(t, v) -> Places(s, v)]
             /\ \A a, b \in Places(t, v) : into(v)[a] = into(v)[b] => a = b
  BY <1>3, Fun_InjectionProperties
<1> HIDE DEF into
<1>5. \A k \in DOMAIN t : k \in Places(t, t[k]) /\ g[k] \in Places(s, t[k])
  BY <1>4 DEF Places
<1>6. \A k \in DOMAIN t : g[k] \in DOMAIN s /\ s[g[k]] = t[k]
  BY <1>5 DEF Places
<1>7. \A a, b \in DOMAIN t : g[a] = g[b] => a = b
  <2> SUFFICES ASSUME NEW a \in DOMAIN t, NEW b \in DOMAIN t, g[a] = g[b] PROVE a = b
    OBVIOUS
  <2>1. t[a] = t[b]
    BY <1>6
  <2>2. a \in Places(t, t[a]) /\ b \in Places(t, t[a])
    BY <1>5, <2>1
  <2>3. into(t[a])[a] = into(t[a])[b]
    BY <2>1
  <2> QED
    BY <1>4, <2>2, <2>3
<1>8. g \in [DOMAIN t -> DOMAIN s]
  BY <1>6
<1> HIDE DEF g
<1>9. g \in Injection(DOMAIN t, DOMAIN s)
  BY <1>7, <1>8, Fun_IsInj
<1>10. IsFiniteSet(DOMAIN s) /\ DOMAIN s = DOMAIN t
  BY <1>1, FS_Interval
<1>11. g \in Bijection(DOMAIN t, DOMAIN s)
  BY <1>9, <1>10, FS_Injection DEF Bijection
<1>12. PICK f \in Bijection(DOMAIN s, DOMAIN t) : \A k \in DOMAIN t : f[g[k]] = k
  <2>1. /\ Inverse(g, DOMAIN t, DOMAIN s) \in Bijection(DOMAIN s, DOMAIN t)
        /\ \A k \in DOMAIN t : Inverse(g, DOMAIN t, DOMAIN s)[g[k]] = k
    BY <1>11, Fun_BijInverse
  <2> QED
    BY <2>1
<1>13. \A i \in DOMAIN s : s[i] = t[f[i]]
  <2> SUFFICES ASSUME NEW i \in DOMAIN s PROVE s[i] = t[f[i]]
    OBVIOUS
  <2>1. PICK k \in DOMAIN t : g[k] = i
    BY <1>11, Fun_BijectionProperties
  <2> QED
    BY <1>6, <1>12, <2>1
<1> QED
  BY <1>1, <1>12, <1>13 DEF Rearranged

--------------------------------------------------------------------------------
(* CONTAINS_ALL *)

\* A slice without repetitions whose values all occur in another is no longer
\* than that one, so the length shortcut refuses nothing that is included.
LEMMA IncludedIsNoLonger ==
  ASSUME NEW s \in Seq(Values), NEW t \in Seq(Values),
         Distinct(s), Elements(s) \subseteq Elements(t)
  PROVE  Len(s) <= Len(t)
<1> DEFINE g == [i \in DOMAIN s |-> CHOOSE j \in DOMAIN t : t[j] = s[i]]
<1>1. \A i \in DOMAIN s : \E j \in DOMAIN t : t[j] = s[i]
  BY DEF Elements
<1>2. \A i \in DOMAIN s : g[i] \in DOMAIN t /\ t[g[i]] = s[i]
  BY <1>1
<1>3. g \in [DOMAIN s -> DOMAIN t]
  BY <1>2
<1>4. \A a, b \in DOMAIN s : g[a] = g[b] => a = b
  BY <1>2 DEF Distinct
<1> HIDE DEF g
<1>5. g \in Injection(DOMAIN s, DOMAIN t)
  BY <1>3, <1>4, Fun_IsInj
<1>6. /\ IsFiniteSet(DOMAIN t)
      /\ Cardinality(DOMAIN s) = Len(s) /\ Cardinality(DOMAIN t) = Len(t)
  <2>1. ASSUME NEW u \in Seq(Values)
        PROVE  IsFiniteSet(DOMAIN u) /\ Cardinality(DOMAIN u) = Len(u)
    <3>1. PICK n \in Nat : n = Len(u) /\ DOMAIN u = 1 .. n
      OBVIOUS
    <3>2. /\ IsFiniteSet(1 .. n)
          /\ Cardinality(1 .. n) = IF 1 > n THEN 0 ELSE n - 1 + 1
      BY FS_Interval
    <3> QED
      BY <3>1, <3>2
  <2> QED
    BY <2>1
<1> QED
  BY <1>5, <1>6, FS_Injection

LEMMA ContainsAllMeans ==
  ASSUME NEW s \in Seq(Values), NEW t \in Seq(Values), Distinct(s)
  PROVE  evalContainsAll(s, t) <=> Elements(s) \subseteq Elements(t)
<1>1. Len(s) = 0 => Elements(s) \subseteq Elements(t)
  BY DEF Elements
<1> QED
  BY <1>1, IncludedIsNoLonger DEF evalContainsAll

--------------------------------------------------------------------------------
(* IN_CIDR *)

LEMMA PowerPositive ==
  ASSUME NEW k \in Nat
  PROVE  2^k \in Nat /\ 2^k > 0
<1>1. IsFiniteSet(1 .. k) /\ Cardinality(1 .. k) = k
  <2>1. /\ IsFiniteSet(1 .. k)
        /\ Cardinality(1 .. k) = IF 1 > k THEN 0 ELSE k - 1 + 1
    BY FS_Interval
  <2> QED
    BY <2>1
<1>2. IsFiniteSet(SUBSET (1 .. k)) /\ Cardinality(SUBSET (1 .. k)) = 2^k
  BY <1>1, FS_SUBSET
<1>3. SUBSET (1 .. k) # {}
  OBVIOUS
<1>4. Cardinality(SUBSET (1 .. k)) \in Nat /\ Cardinality(SUBSET (1 .. k)) # 0
  BY <1>2, <1>3, FS_CardinalityType, FS_EmptySet
<1> QED
  BY <1>2, <1>4

\* Two addresses share their leading bits exactly when one lies in the block of
\* the other.
LEMMA SameLeadingBits ==
  ASSUME NEW a \in Nat, NEW b \in Nat, NEW n \in Nat, n > 0
  PROVE  a \div n = b \div n <=> b - (b % n) <= a /\ a < b - (b % n) + n
<1> DEFINE qa == a \div n
           qb == b \div n
<1>1. /\ qa \in Nat /\ a % n \in Nat /\ a % n < n /\ a = n * qa + (a % n)
      /\ qb \in Nat /\ b % n \in Nat /\ b % n < n /\ b = n * qb + (b % n)
  OBVIOUS
<1>2. \A p, q \in Nat : p < q => n * p + n <= n * q
  OBVIOUS
<1> QED
  BY <1>1, <1>2

LEMMA ContainsMeans ==
  ASSUME NEW v \in Values, Prefix[v] # Malformed, NEW w \in Values, Address[w] # Malformed
  PROVE  Contains(Prefix[v], Address[w]) <=>
           /\ ~Address[w].zone
           /\ Prefix[v].family = Address[w].family
           /\ Address[w].host \in Block(Prefix[v])
<1>1. PICK p : p = Prefix[v]
  OBVIOUS
<1>2. PICK ip : ip = Address[w]
  OBVIOUS
<1>3. CASE p.family # ip.family
  BY <1>1, <1>2, <1>3 DEF Contains
<1>4. CASE p.family = ip.family
  <2>1. /\ p.family \in DOMAIN Width
        /\ Width[p.family] \in Nat
        /\ p.bits \in 0 .. Width[p.family]
        /\ p.host \in 0 .. 2^Width[p.family] - 1
        /\ ip.host \in 0 .. 2^Width[p.family] - 1
    BY <1>1, <1>2, <1>4, OperatorConstants
  <2>2. PICK shift \in Nat : shift = Width[p.family] - p.bits
    BY <2>1
  <2>3. PICK n \in Nat : n = 2^shift /\ n > 0
    BY PowerPositive
  <2>4. PICK size \in Nat : size = 2^Width[p.family]
    BY <2>1, PowerPositive
  <2>5. p.host \in Nat /\ ip.host \in Nat /\ ip.host \in 0 .. size - 1
    BY <2>1, <2>4
  <2>6. ip.host \in Block(p) <=>
          p.host - (p.host % n) <= ip.host /\ ip.host < p.host - (p.host % n) + n
    BY <2>2, <2>3, <2>4, <2>5 DEF Block
  <2>7. Contains(p, ip) <=> ~ip.zone /\ ip.host \div n = p.host \div n
    BY <1>4, <2>2, <2>3 DEF Contains
  <2>8. ip.host \div n = p.host \div n <=>
          p.host - (p.host % n) <= ip.host /\ ip.host < p.host - (p.host % n) + n
    BY <2>3, <2>5, SameLeadingBits
  <2> QED
    BY <1>1, <1>2, <1>4, <2>6, <2>7, <2>8
<1> QED
  BY <1>3, <1>4

LEMMA InCIDRMeans ==
  ASSUME NEW s \in Seq(Values), NEW t \in Seq(Values)
  PROVE  evalInCIDR(s, t) <=>
           /\ Len(t) = 1
           /\ Address[t[1]] # Malformed
           /\ ~Address[t[1]].zone
           /\ \E i \in DOMAIN s :
                /\ Prefix[s[i]] # Malformed
                /\ Prefix[s[i]].family = Address[t[1]].family
                /\ Address[t[1]].host \in Block(Prefix[s[i]])
<1>1. CASE Len(t) = 1 /\ Address[t[1]] # Malformed
  <2>1. t[1] \in Values
    <3>1. 1 \in DOMAIN t
      BY <1>1
    <3> QED
      BY <3>1
  <2>2. \A i \in DOMAIN s : s[i] \in Values /\ Len(s) # 0
    OBVIOUS
  <2>3. \A i \in DOMAIN s :
          Prefix[s[i]] # Malformed =>
            (Contains(Prefix[s[i]], Address[t[1]]) <=>
               /\ ~Address[t[1]].zone
               /\ Prefix[s[i]].family = Address[t[1]].family
               /\ Address[t[1]].host \in Block(Prefix[s[i]]))
    BY <1>1, <2>1, <2>2, ContainsMeans
  <2>4. evalInCIDR(s, t) <=>
          \E i \in DOMAIN s : Prefix[s[i]] # Malformed /\ Contains(Prefix[s[i]], Address[t[1]])
    BY <1>1, <2>2 DEF evalInCIDR
  <2> QED
    BY <1>1, <2>3, <2>4
<1>2. CASE ~(Len(t) = 1 /\ Address[t[1]] # Malformed)
  BY <1>2 DEF evalInCIDR
<1> QED
  BY <1>1, <1>2

--------------------------------------------------------------------------------
(* BETWEEN *)

\* What Atoi returns for a number is that number, or an error.
LEMMA AtoiMeans ==
  ASSUME NEW v \in Values
  PROVE  /\ Atoi(v) # Malformed <=> Number[v] \in IntMin .. IntMax
         /\ Atoi(v) # Malformed => Atoi(v) = Number[v] /\ Number[v] \in Int
<1>1. /\ Malformed \notin Int /\ IntMin \in Int /\ IntMax \in Int
      /\ Number[v] # Malformed => Number[v] \in Int
  BY OperatorConstants
<1>2. \A n \in IntMin .. IntMax : n \in Int
  BY <1>1
<1> QED
  BY <1>1, <1>2 DEF Atoi

LEMMA BetweenMeans ==
  ASSUME NEW s \in Seq(Values), NEW t \in Seq(Values)
  PROVE  evalBetween(s, t) <=>
           /\ Len(s) = 2 /\ Len(t) = 1
           /\ \A v \in Elements(s) \cup Elements(t) : Number[v] \in IntMin .. IntMax
           /\ Number[t[1]] \in Number[s[1]] .. Number[s[2]]
<1>1. CASE Len(s) = 2 /\ Len(t) = 1
  <2>1. s[1] \in Values /\ s[2] \in Values /\ t[1] \in Values
    <3>1. 1 \in DOMAIN s /\ 2 \in DOMAIN s /\ 1 \in DOMAIN t
      BY <1>1
    <3> QED
      BY <3>1
  <2>2. Elements(s) \cup Elements(t) = {s[1], s[2], t[1]}
    <3>1. DOMAIN s = {1, 2} /\ DOMAIN t = {1}
      BY <1>1
    <3> QED
      BY <3>1 DEF Elements
  <2>3. evalBetween(s, t) <=>
          /\ Atoi(s[1]) # Malformed /\ Atoi(s[2]) # Malformed /\ Atoi(t[1]) # Malformed
          /\ Atoi(s[1]) <= Atoi(t[1]) /\ Atoi(s[2]) >= Atoi(t[1])
    BY <1>1 DEF evalBetween
  <2>4. CASE Atoi(s[1]) # Malformed /\ Atoi(s[2]) # Malformed /\ Atoi(t[1]) # Malformed
    <3>1. /\ Atoi(s[1]) = Number[s[1]] /\ Number[s[1]] \in Int
          /\ Atoi(s[2]) = Number[s[2]] /\ Number[s[2]] \in Int
          /\ Atoi(t[1]) = Number[t[1]] /\ Number[t[1]] \in Int
      BY <2>1, <2>4, AtoiMeans
    <3>2. Number[t[1]] \in Number[s[1]] .. Number[s[2]] <=>
            Number[s[1]] <= Number[t[1]] /\ Number[s[2]] >= Number[t[1]]
      BY <3>1
    <3>3. \A v \in {s[1], s[2], t[1]} : Number[v] \in IntMin .. IntMax
      BY <2>1, <2>4, AtoiMeans
    <3> QED
      BY <1>1, <2>2, <2>3, <2>4, <3>1, <3>2, <3>3
  <2>5. CASE ~(Atoi(s[1]) # Malformed /\ Atoi(s[2]) # Malformed /\ Atoi(t[1]) # Malformed)
    <3>1. ~ \A v \in {s[1], s[2], t[1]} : Number[v] \in IntMin .. IntMax
      BY <2>1, <2>5, AtoiMeans
    <3> QED
      BY <2>2, <2>3, <2>5, <3>1
  <2> QED
    BY <2>4, <2>5
<1>2. CASE ~(Len(s) = 2 /\ Len(t) = 1)
  BY <1>2 DEF evalBetween
<1> QED
  BY <1>1, <1>2

--------------------------------------------------------------------------------
(* What EvaluateCondition returned *)

VerdictInv ==
  /\ value \in Seq(Values)
  /\ requestValues \in Seq(Values)
  /\ evaluated => (verdict <=> Apply(Condition, requestValues))

LEMMA VerdictInvariant == Spec => []VerdictInv
<1>1. Init => VerdictInv
  BY CasesAssumption DEF Init, VerdictInv
<1>2. VerdictInv /\ [Next]_vars => VerdictInv'
  <2> SUFFICES ASSUME VerdictInv, [Next]_vars PROVE VerdictInv'
    OBVIOUS
  <2>1. UNCHANGED <<operator, value, requestValues>>
    BY DEF Next, Evaluate, vars
  <2>2. Condition' = Condition
    BY <2>1 DEF Condition
  <2>3. evaluated' => (verdict' <=> Apply(Condition, requestValues))
    <3>1. CASE Evaluate
      BY <3>1 DEF Evaluate
    <3>2. CASE UNCHANGED vars
      BY <3>2 DEF vars, VerdictInv
    <3> QED
      BY <3>1, <3>2 DEF Next
  <2>4. Apply(Condition, requestValues)' <=> Apply(Condition, requestValues)
    BY <2>1, <2>2 DEF Apply
  <2> QED
    BY <2>1, <2>3, <2>4 DEF VerdictInv
<1> QED
  BY <1>1, <1>2, PTL DEF Spec

\* Each operator name leads to its own function.
LEMMA Routed ==
  /\ Condition.operator = operator /\ Condition.value = value
  /\ operator = "EQUALS" => (Apply(Condition, requestValues) <=> evalEquals(value, requestValues))
  /\ operator = "CONTAINS_ALL" =>
       (Apply(Condition, requestValues) <=> evalContainsAll(value, requestValues))
  /\ operator = "IN_CIDR" => (Apply(Condition, requestValues) <=> evalInCIDR(value, requestValues))
  /\ operator = "BETWEEN" => (Apply(Condition, requestValues) <=> evalBetween(value, requestValues))
<1>1. Condition.operator = operator /\ Condition.value = value
  BY DEF Condition
<1> QED
  BY <1>1 DEF Apply

\* EQUALS holds exactly for the condition's values in some order, for slices of
\* any length: the early exit of evalEquals, and the counts nobody looks at after
\* the loop, never change the answer.
THEOREM EqualsRearranges == Spec => []EqualsIsRearrangement
<1>1. VerdictInv => EqualsIsRearrangement
  BY Routed, RearrangedIsEqual, EqualIsRearranged
     DEF VerdictInv, EqualsIsRearrangement, Evaluated
<1> QED
  BY <1>1, VerdictInvariant, PTL

\* CONTAINS_ALL is inclusion for every condition without repeated values: the
\* length shortcut of evalContainsAll is sound.
THEOREM ContainsAllIncludes == Spec => []ContainsAllIsInclusion
<1>1. VerdictInv => ContainsAllIsInclusion
  BY Routed, ContainsAllMeans DEF VerdictInv, ContainsAllIsInclusion, Evaluated
<1> QED
  BY <1>1, VerdictInvariant, PTL

\* IN_CIDR is membership in the block of one of the well-formed prefixes, for
\* addresses of any width, so for the 32 and 128 bits of the real families.
THEOREM InCIDRBlocks == Spec => []InCIDRIsBlocks
<1>1. VerdictInv => InCIDRIsBlocks
  BY Routed, InCIDRMeans DEF VerdictInv, InCIDRIsBlocks, Evaluated
<1> QED
  BY <1>1, VerdictInvariant, PTL

\* BETWEEN is the closed interval of its two bounds, for every range of int: a
\* bound or a value that does not fit makes it false, never wrong.
THEOREM BetweenRange == Spec => []BetweenIsRange
<1>1. VerdictInv => BetweenIsRange
  BY Routed, BetweenMeans DEF VerdictInv, BetweenIsRange, Evaluated
<1> QED
  BY <1>1, VerdictInvariant, PTL

--------------------------------------------------------------------------------
(* The order of a request's values *)

\* Rearranging back, and rearranging twice, is rearranging.
LEMMA RearrangedBack ==
  ASSUME NEW s \in Seq(Values), NEW t \in Seq(Values), Rearranged(s, t)
  PROVE  Rearranged(t, s)
<1>1. PICK f \in Bijection(DOMAIN s, DOMAIN t) : \A i \in DOMAIN s : s[i] = t[f[i]]
  BY DEF Rearranged
<1>2. /\ f \in [DOMAIN s -> DOMAIN t]
      /\ \A i, j \in DOMAIN s : f[i] = f[j] => i = j
      /\ \A j \in DOMAIN t : \E i \in DOMAIN s : f[i] = j
  BY <1>1, Fun_BijectionProperties
<1> DEFINE g == [j \in DOMAIN t |-> CHOOSE i \in DOMAIN s : f[i] = j]
<1>3. \A j \in DOMAIN t : g[j] \in DOMAIN s /\ f[g[j]] = j
  BY <1>2
<1>4. \A i \in DOMAIN s : f[i] \in DOMAIN t /\ g[f[i]] = i
  <2> SUFFICES ASSUME NEW i \in DOMAIN s PROVE f[i] \in DOMAIN t /\ g[f[i]] = i
    OBVIOUS
  <2>1. f[i] \in DOMAIN t
    BY <1>2
  <2>2. g[f[i]] \in DOMAIN s /\ f[g[f[i]]] = f[i]
    BY <1>3, <2>1
  <2> HIDE DEF g
  <2> QED
    BY <1>2, <2>1, <2>2
<1>5. g \in [DOMAIN t -> DOMAIN s]
  BY <1>3
<1> HIDE DEF g
<1>6. g \in Bijection(DOMAIN t, DOMAIN s)
  <2>1. \A j, k \in DOMAIN t : g[j] = g[k] => j = k
    BY <1>3
  <2>2. \A i \in DOMAIN s : \E j \in DOMAIN t : g[j] = i
    BY <1>4
  <2> QED
    BY <1>5, <2>1, <2>2, Fun_IsBij
<1>7. \A j \in DOMAIN t : t[j] = s[g[j]]
  BY <1>1, <1>3
<1> QED
  BY <1>6, <1>7 DEF Rearranged

LEMMA RearrangedTwice ==
  ASSUME NEW s \in Seq(Values), NEW t \in Seq(Values), NEW u \in Seq(Values),
         Rearranged(s, t), Rearranged(t, u)
  PROVE  Rearranged(s, u)
<1>1. PICK f \in Bijection(DOMAIN s, DOMAIN t) : \A i \in DOMAIN s : s[i] = t[f[i]]
  BY DEF Rearranged
<1>2. PICK g \in Bijection(DOMAIN t, DOMAIN u) : \A i \in DOMAIN t : t[i] = u[g[i]]
  BY DEF Rearranged
<1>3. /\ f \in [DOMAIN s -> DOMAIN t]
      /\ \A i, j \in DOMAIN s : f[i] = f[j] => i = j
      /\ \A j \in DOMAIN t : \E i \in DOMAIN s : f[i] = j
  BY <1>1, Fun_BijectionProperties
<1>4. /\ g \in [DOMAIN t -> DOMAIN u]
      /\ \A i, j \in DOMAIN t : g[i] = g[j] => i = j
      /\ \A j \in DOMAIN u : \E i \in DOMAIN t : g[i] = j
  BY <1>2, Fun_BijectionProperties
<1> DEFINE h == [i \in DOMAIN s |-> g[f[i]]]
<1>5. h \in [DOMAIN s -> DOMAIN u]
  BY <1>3, <1>4
<1>6. \A i, j \in DOMAIN s : h[i] = h[j] => i = j
  BY <1>3, <1>4
<1>7. \A k \in DOMAIN u : \E i \in DOMAIN s : h[i] = k
  BY <1>3, <1>4
<1>8. \A i \in DOMAIN s : s[i] = u[h[i]]
  BY <1>1, <1>2, <1>3
<1> HIDE DEF h
<1>9. h \in Bijection(DOMAIN s, DOMAIN u)
  BY <1>5, <1>6, <1>7, Fun_IsBij
<1> QED
  BY <1>8, <1>9 DEF Rearranged

\* Rearranged slices hold the same values; of length one they are the same.
LEMMA RearrangedValues ==
  ASSUME NEW s \in Seq(Values), NEW t \in Seq(Values), Rearranged(s, t)
  PROVE  /\ Len(s) = Len(t)
         /\ Elements(s) = Elements(t)
         /\ Len(s) = 1 => s[1] = t[1]
<1>1. PICK f \in Bijection(DOMAIN s, DOMAIN t) : \A i \in DOMAIN s : s[i] = t[f[i]]
  BY DEF Rearranged
<1>2. /\ f \in [DOMAIN s -> DOMAIN t]
      /\ \A j \in DOMAIN t : \E i \in DOMAIN s : f[i] = j
  BY <1>1, Fun_BijectionProperties
<1>3. Len(s) = Len(t)
  BY DEF Rearranged
<1>4. Elements(s) = Elements(t)
  BY <1>1, <1>2 DEF Elements
<1>5. ASSUME Len(s) = 1 PROVE s[1] = t[1]
  <2>1. DOMAIN s = 1 .. Len(s) /\ DOMAIN t = 1 .. Len(t)
    OBVIOUS
  <2>2. \A i : i \in 1 .. 1 <=> i = 1
    OBVIOUS
  <2>3. f[1] \in DOMAIN t /\ 1 \in DOMAIN s
    BY <1>2, <1>3, <1>5, <2>1, <2>2
  <2> QED
    BY <1>1, <1>3, <1>5, <2>1, <2>2, <2>3
<1> QED
  BY <1>3, <1>4, <1>5

\* EvaluateCondition's operators do not depend on the order in which a request
\* lists the values of an attribute, so neither on the order of the groups in a
\* token: not the counting loop of evalEquals, which stops at the first surplus
\* value, nor the length shortcuts, nor the operators that look at the first
\* value only, because they refuse a second one.
THEOREM OrderOfValuesIrrelevant ==
  ASSUME NEW cond, cond.value \in Seq(Values),
         NEW t \in Seq(Values), NEW u \in Seq(Values), Rearranged(t, u)
  PROVE  Apply(cond, t) <=> Apply(cond, u)
<1>1. /\ Len(t) = Len(u)
      /\ Elements(t) = Elements(u)
      /\ Len(t) = 1 => t[1] = u[1]
  BY RearrangedValues
<1>2. evalEquals(cond.value, t) <=> evalEquals(cond.value, u)
  <2>1. Rearranged(u, t)
    BY RearrangedBack
  <2>2. Rearranged(cond.value, t) <=> Rearranged(cond.value, u)
    BY <2>1, RearrangedTwice
  <2> QED
    BY <2>2, RearrangedIsEqual, EqualIsRearranged
<1>3. evalContainsAll(cond.value, t) <=> evalContainsAll(cond.value, u)
  BY <1>1 DEF evalContainsAll
<1>4. evalContainsAny(cond.value, t) <=> evalContainsAny(cond.value, u)
  BY <1>1 DEF evalContainsAny
<1>5. evalInCIDR(cond.value, t) <=> evalInCIDR(cond.value, u)
  BY <1>1 DEF evalInCIDR
<1>6. evalBetween(cond.value, t) <=> evalBetween(cond.value, u)
  BY <1>1 DEF evalBetween
<1>7. evalRegex(cond.CompiledRegex, t) <=> evalRegex(cond.CompiledRegex, u)
  BY <1>1 DEF evalRegex, Elements
<1> QED
  BY <1>2, <1>3, <1>4, <1>5, <1>6, <1>7 DEF Apply
================================================================================
