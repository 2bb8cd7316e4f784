------------------------ MODULE AlexDataNodeProofs ------------------------
(***************************************************************************)
(* A data node of ALEX keeps its structure, its searches find what is      *)
(* there, the cost of a node not yet built is that of its layout, and the  *)
(* node is a multimap.                                                     *)
(***************************************************************************)
EXTENDS AlexDataNode, FiniteSetTheorems, WellFoundedInduction, TLAPS

-----------------------------------------------------------------------------
(* Numbers, recursive functions and sets of numbers. *)

LEMMA LeastOfNaturals ==
    ASSUME NEW S \in SUBSET Nat, S # {}
    PROVE  \E x \in S : \A y \in S : x <= y
<1>1. IsWellFoundedOn(OpToRel(<, Nat), Nat)
    BY NatLessThanWellFounded
<1>2. PICK x \in S : \A y \in S : ~(<<y, x>> \in OpToRel(<, Nat))
    BY <1>1, WFMin
<1>3. \A y \in S : y < x => <<y, x>> \in OpToRel(<, Nat)
    BY DEF OpToRel
<1>4. \A y \in S : ~(y < x)
    BY <1>2, <1>3
<1> QED BY <1>4

\* Induction, for a set instead of a predicate.
LEMMA UpTo ==
    ASSUME NEW S, NEW n \in Nat, 0 \in S, \A i \in 0..n - 1 : i \in S => i + 1 \in S
    PROVE  \A i \in 0..n : i \in S
<1> DEFINE Bad == {i \in 0..n : i \notin S}
<1> SUFFICES ASSUME Bad # {} PROVE FALSE
    OBVIOUS
<1>1. Bad \in SUBSET Nat /\ \A i : i \in Bad <=> i \in 0..n /\ i \notin S
    OBVIOUS
<1> HIDE DEF Bad
<1>2. PICK x \in Bad : \A y \in Bad : x <= y
    BY <1>1, LeastOfNaturals
<1>3. x # 0 /\ x - 1 \in 0..n - 1 /\ x - 1 \in 0..n /\ ~(x <= x - 1) /\ (x - 1) + 1 = x
    BY <1>1, <1>2
<1>4. x - 1 \in S
    BY <1>1, <1>2, <1>3
<1> QED BY <1>1, <1>2, <1>3, <1>4

\* A loop over values in V whose body is the function g; f has the value after
\* each round.
Body(g, V, n) == \A i \in 1..n, v \in V : g[<<i, v>>] \in V
Loop(f, g, V, v0, n) ==
    f \in [0..n -> V] /\ f[0] = v0 /\ \A i \in 1..n : f[i] = g[<<i, f[i - 1]>>]

LEMMA LoopExists ==
    ASSUME NEW V, NEW v0 \in V, NEW n \in Nat, NEW g, Body(g, V, n)
    PROVE  \E f : Loop(f, g, V, v0, n)
<1> DEFINE S == {m \in 0..n : \E f : Loop(f, g, V, v0, m)}
<1>1. 0 \in S
    <2> DEFINE f == [i \in 0..0 |-> v0]
    <2>1. Loop(f, g, V, v0, 0)
        BY DEF Loop
    <2> HIDE DEF f
    <2> QED BY <2>1
<1>2. ASSUME NEW m \in 0..n - 1, m \in S PROVE m + 1 \in S
    <2>1. PICK f : Loop(f, g, V, v0, m)
        BY <1>2
    <2> DEFINE h == [i \in 0..m + 1 |-> IF i = m + 1 THEN g[<<m + 1, f[m]>>] ELSE f[i]]
    <2>2. m + 1 \in 0..n /\ m + 1 \in 1..n /\ m \in 0..m /\ (m + 1) - 1 = m /\ m # m + 1
        OBVIOUS
    <2>3. g[<<m + 1, f[m]>>] \in V
        BY <2>1, <2>2 DEF Loop, Body
    <2>4. \A i \in 0..m + 1 : i # m + 1 => i \in 0..m
        OBVIOUS
    <2>5. h \in [0..m + 1 -> V]
        BY <2>1, <2>3, <2>4 DEF Loop
    <2>6. \A i \in 0..m : h[i] = f[i]
        OBVIOUS
    <2>7. h[m + 1] = g[<<m + 1, f[m]>>]
        OBVIOUS
    <2> HIDE DEF h
    <2>8. h[0] = v0
        BY <2>1, <2>6 DEF Loop
    <2>9. ASSUME NEW i \in 1..m + 1 PROVE h[i] = g[<<i, h[i - 1]>>]
        <3>1. CASE i = m + 1
            BY <2>2, <2>6, <2>7, <3>1
        <3>2. CASE i # m + 1
            <4>1. i \in 0..m /\ i \in 1..m /\ i - 1 \in 0..m
                BY <3>2
            <4> QED BY <2>1, <2>6, <4>1 DEF Loop
        <3> QED BY <3>1, <3>2
    <2>10. Loop(h, g, V, v0, m + 1)
        BY <2>5, <2>8, <2>9 DEF Loop
    <2> QED BY <2>2, <2>10
<1> HIDE DEF S
<1>3. n \in S
    BY <1>1, <1>2, UpTo
<1> QED BY <1>3 DEF S

\* MinOf and MaxOf denote for sets with a bound.
LEMMA MinOfIs ==
    ASSUME NEW S \in SUBSET Int, S # {}, NEW a \in Int, \A x \in S : a <= x
    PROVE  MinOf(S) \in S /\ MinOf(S) \in Int /\ \A y \in S : MinOf(S) <= y
<1> DEFINE T == {x - a : x \in S}
<1>1. \A x \in S : x - a \in Nat /\ x - a \in T
    OBVIOUS
<1>2. T \in SUBSET Nat /\ T # {}
    BY <1>1
<1>3. \A t \in T : \E x \in S : t = x - a
    OBVIOUS
<1> HIDE DEF T
<1>4. PICK t \in T : \A u \in T : t <= u
    BY <1>2, LeastOfNaturals
<1>5. PICK x \in S : t = x - a
    BY <1>3
<1>6. \A y \in S : x <= y
    BY <1>1, <1>4, <1>5
<1> QED BY <1>6 DEF MinOf

LEMMA MaxOfIs ==
    ASSUME NEW S \in SUBSET Int, S # {}, NEW a \in Int, \A x \in S : x <= a
    PROVE  MaxOf(S) \in S /\ MaxOf(S) \in Int /\ \A y \in S : MaxOf(S) >= y
<1> DEFINE T == {a - x : x \in S}
<1>1. \A x \in S : a - x \in Nat /\ a - x \in T
    OBVIOUS
<1>2. T \in SUBSET Nat /\ T # {}
    BY <1>1
<1>3. \A t \in T : \E x \in S : t = a - x
    OBVIOUS
<1> HIDE DEF T
<1>4. PICK t \in T : \A u \in T : t <= u
    BY <1>2, LeastOfNaturals
<1>5. PICK x \in S : t = a - x
    BY <1>3
<1>6. \A y \in S : x >= y
    BY <1>1, <1>4, <1>5
<1> QED BY <1>6 DEF MaxOf

\* The place of p in S.
Below(S, p) == {q \in S : q < p}

LEMMA BelowGrows ==
    ASSUME NEW S \in SUBSET Int, IsFiniteSet(S), NEW p \in S
    PROVE  /\ IsFiniteSet(Below(S, p)) /\ Cardinality(Below(S, p)) \in 0..Cardinality(S) - 1
           /\ \A q \in S : q < p => Cardinality(Below(S, q)) < Cardinality(Below(S, p))
<1>1. Cardinality(S) \in Nat /\ IsFiniteSet(S \ {p}) /\ Cardinality(S \ {p}) = Cardinality(S) - 1
    BY FS_CardinalityType, FS_RemoveElement
<1>2. Below(S, p) \in SUBSET (S \ {p})
    BY DEF Below
<1>3. IsFiniteSet(Below(S, p)) /\ Cardinality(Below(S, p)) <= Cardinality(S) - 1
    BY <1>1, <1>2, FS_Subset
<1>4. Cardinality(Below(S, p)) \in Nat
    BY <1>3, FS_CardinalityType
<1>5. ASSUME NEW q \in S, q < p PROVE Cardinality(Below(S, q)) < Cardinality(Below(S, p))
    <2>1. q \notin Below(S, q) /\ q \in Below(S, p) /\ \A x \in Below(S, q) : x \in Below(S, p)
        BY <1>5 DEF Below
    <2>2. Below(S, q) \in SUBSET S
        BY DEF Below
    <2>3. IsFiniteSet(Below(S, q)) /\ Cardinality(Below(S, q)) \in Nat
        BY <2>2, FS_Subset, FS_CardinalityType
    <2>4. Cardinality(Below(S, q) \cup {q}) = Cardinality(Below(S, q)) + 1
        BY <2>1, <2>3, FS_AddElement
    <2>5. Cardinality(Below(S, q) \cup {q}) <= Cardinality(Below(S, p))
        <3>1. Below(S, q) \cup {q} \in SUBSET Below(S, p)
            BY <2>1
        <3> QED BY <1>3, <3>1, FS_Subset
    <2> QED BY <1>4, <2>3, <2>4, <2>5
<1> QED BY <1>1, <1>3, <1>4, <1>5

\* InOrder lists a set of numbers in ascending order.
Ascends(s, S) ==
    /\ s \in [1..Cardinality(S) -> S] /\ Cardinality(S) \in Nat
    /\ \A i, j \in 1..Cardinality(S) : i < j => s[i] < s[j]
    /\ \A p \in S : \E i \in 1..Cardinality(S) : s[i] = p

LEMMA InOrderIs ==
    ASSUME NEW S \in SUBSET Int, IsFiniteSet(S)
    PROVE  Ascends(InOrder(S), S)
<1> DEFINE n == Cardinality(S)
           rank == [p \in S |-> Cardinality(Below(S, p)) + 1]
<1>1. n \in Nat
    BY FS_CardinalityType
<1>2. \A p \in S : Cardinality(Below(S, p)) \in Nat /\ Cardinality(Below(S, p)) + 1 \in 1..n
    BY <1>1, BelowGrows
<1>3. \A p, q \in S : Cardinality(Below(S, p)) = Cardinality(Below(S, q)) => p = q
    BY <1>2, BelowGrows
<1>4. rank \in Injection(S, 1..n)
    <2>1. rank \in [S -> 1..n]
        BY <1>2
    <2>2. \A p, q \in S : rank[p] = rank[q] => p = q
        BY <1>2, <1>3
    <2> QED BY <2>1, <2>2 DEF Injection, IsInjective
<1>5. IsFiniteSet(1..n) /\ Cardinality(1..n) = n
    BY <1>1, FS_Interval
<1>6. rank \in Surjection(S, 1..n)
    BY <1>4, <1>5, FS_Injection
<1>7. \A i \in 1..n : \E p \in S : Cardinality(Below(S, p)) = i - 1
    <2>1. \A i \in 1..n : \E p \in S : rank[p] = i
        BY <1>6 DEF Surjection
    <2>2. \A p \in S : rank[p] = Cardinality(Below(S, p)) + 1
        OBVIOUS
    <2> QED BY <1>1, <1>2, <2>1, <2>2
<1> DEFINE s == InOrder(S)
<1>8. \A i \in 1..n : s[i] \in S /\ Cardinality(Below(S, s[i])) = i - 1
    <2>1. \A i \in 1..n : s[i] = CHOOSE p \in S : Cardinality(Below(S, p)) = i - 1
        BY DEF InOrder, Below
    <2> HIDE DEF s
    <2> QED BY <1>7, <2>1
<1>9. s = [i \in 1..n |-> s[i]]
    BY SMTT(20) DEF InOrder
<1> HIDE DEF s
<1>10. s \in [1..n -> S]
    BY <1>8, <1>9
<1>11. ASSUME NEW i \in 1..n, NEW j \in 1..n, i < j PROVE s[i] < s[j]
    <2>1. s[i] \in S /\ s[j] \in S
        BY <1>8
    <2>2. s[j] < s[i] => Cardinality(Below(S, s[j])) < Cardinality(Below(S, s[i]))
        BY <2>1, BelowGrows
    <2>3. Cardinality(Below(S, s[i])) = i - 1 /\ Cardinality(Below(S, s[j])) = j - 1
        BY <1>8
    <2>4. s[i] # s[j] /\ ~(s[j] < s[i])
        BY <1>11, <2>2, <2>3
    <2>5. s[i] \in Int /\ s[j] \in Int
        BY <2>1
    <2> QED BY <2>4, <2>5
<1>12. ASSUME NEW p \in S PROVE \E i \in 1..n : s[i] = p
    <2>1. s[Cardinality(Below(S, p)) + 1] = p
        <3>1. PICK i \in 1..n : i = Cardinality(Below(S, p)) + 1 /\ i - 1 = Cardinality(Below(S, p))
            BY <1>2
        <3>2. s[i] \in S /\ Cardinality(Below(S, s[i])) = Cardinality(Below(S, p))
            BY <1>8, <3>1
        <3> QED BY <1>3, <3>1, <3>2
    <2> QED BY <1>2, <2>1
<1> QED BY <1>1, <1>10, <1>11, <1>12 DEF Ascends, s

-----------------------------------------------------------------------------
(* Exponential and binary search. *)

\* One round of a binary search.
Halve(s, low) ==
    LET l == s[1]
        r == s[2]
        mid == l + (r - l) \div 2
    IN  IF l >= r THEN <<l, r>>
        ELSE IF mid \in low THEN <<mid + 1, r>> ELSE <<l, mid>>

\* f is BinarySearch's loop from l0 and r0.
Halves(f, l0, r0, low) ==
    f = [n \in 0..r0 - l0 |-> IF n = 0 THEN <<l0, r0>> ELSE Halve(f[n - 1], low)]

LEMMA HalveIs ==
    ASSUME NEW l \in Int, NEW r \in Int, NEW low
    PROVE  LET mid == l + (r - l) \div 2
           IN  /\ mid \in Int /\ (l < r => l <= mid /\ mid < r)
               /\ l >= r => Halve(<<l, r>>, low) = <<l, r>>
               /\ l < r /\ mid \in low => Halve(<<l, r>>, low) = <<mid + 1, r>>
               /\ l < r /\ mid \notin low => Halve(<<l, r>>, low) = <<l, mid>>
    BY DEF Halve

LEMMA HalvesExist ==
    ASSUME NEW l0 \in Int, NEW r0 \in Int, l0 <= r0, NEW low
    PROVE  \E f : Halves(f, l0, r0, low)
<1> DEFINE V == Int \X Int
           n == r0 - l0
           g == [x \in (1..n) \X V |-> Halve(x[2], low)]
<1>1. n \in Nat /\ <<l0, r0>> \in V
    OBVIOUS
<1>2. ASSUME NEW v \in V PROVE Halve(v, low) \in V
    <2>1. PICK l \in Int, r \in Int : v = <<l, r>>
        OBVIOUS
    <2> QED BY <2>1, HalveIs
<1>3. \A i \in 1..n, v \in V : g[<<i, v>>] = Halve(v, low)
    OBVIOUS
<1>4. Body(g, V, n)
    BY <1>2, <1>3 DEF Body
<1> DEFINE v0 == <<l0, r0>>
<1> HIDE DEF g, V, n, v0
<1>5. PICK f : Loop(f, g, V, v0, n)
    <2>1. v0 \in V /\ n \in Nat
        BY <1>1 DEF v0
    <2> QED BY <1>4, <2>1, LoopExists
<1>6. ASSUME NEW i \in 0..n
      PROVE  f[i] = IF i = 0 THEN <<l0, r0>> ELSE Halve(f[i - 1], low)
    <2>1. CASE i = 0
        BY <1>5, <2>1 DEF Loop, v0
    <2>2. CASE i # 0
        <3>1. i \in 1..n /\ i - 1 \in 0..n
            BY <1>1, <2>2
        <3> QED BY <1>3, <1>5, <2>2, <3>1 DEF Loop
    <2> QED BY <2>1, <2>2
<1>7. f = [i \in 0..n |-> f[i]]
    BY <1>5 DEF Loop
<1>8. Halves(f, l0, r0, low)
    BY <1>6, <1>7 DEF Halves, n
<1> QED BY <1>8

\* A binary search finds the end of the lower side, if it lies in l0..r0.
LEMMA BinarySearchIs ==
    ASSUME NEW l0 \in Int, NEW r0 \in Int, NEW u \in l0..r0, NEW low,
           \A p \in l0..r0 - 1 : p \in low <=> p < u
    PROVE  BinarySearch(l0, r0, low) = u
<1> DEFINE n == r0 - l0
           f == CHOOSE g : Halves(g, l0, r0, low)
<1>1. n \in Nat /\ l0 <= r0
    OBVIOUS
<1>2. Halves(f, l0, r0, low)
    BY <1>1, HalvesExist
<1>3. BinarySearch(l0, r0, low) = f[n][1]
    BY DEF BinarySearch, Halves, Halve
<1> HIDE DEF f
<1>4. \A i \in 0..n : f[i] = IF i = 0 THEN <<l0, r0>> ELSE Halve(f[i - 1], low)
    BY <1>2 DEF Halves
<1> DEFINE S == {i \in 0..n : \E l, r \in Int : /\ f[i] = <<l, r>>
                                                /\ l0 <= l /\ l <= u /\ u <= r /\ r <= r0
                                                /\ r - l <= n - i}
<1>5. 0 \in S
    BY <1>1, <1>4
<1>6. ASSUME NEW i \in 0..n - 1, i \in S PROVE i + 1 \in S
    <2>1. PICK l \in Int, r \in Int : /\ f[i] = <<l, r>>
                                       /\ l0 <= l /\ l <= u /\ u <= r /\ r <= r0
                                       /\ r - l <= n - i
        BY <1>6
    <2>2. i + 1 \in 0..n /\ i + 1 # 0 /\ (i + 1) - 1 = i /\ i \in Int /\ u \in Int /\ n \in Int
        BY <1>1
    <2>3. f[i + 1] = Halve(<<l, r>>, low)
        BY <1>4, <2>1, <2>2
    <2> DEFINE mid == l + (r - l) \div 2
    <2>4. /\ mid \in Int /\ (l < r => l <= mid /\ mid < r)
          /\ l >= r => f[i + 1] = <<l, r>>
          /\ l < r /\ mid \in low => f[i + 1] = <<mid + 1, r>>
          /\ l < r /\ mid \notin low => f[i + 1] = <<l, mid>>
        BY <2>3, HalveIs
    <2>5. l < r => mid \in l0..r0 - 1
        BY <2>1, <2>4
    <2> HIDE DEF mid
    <2>6. l < r => (mid \in low <=> mid < u)
        BY <2>5
    <2>7. \E l1, r1 \in Int : /\ f[i + 1] = <<l1, r1>>
                             /\ l0 <= l1 /\ l1 <= u /\ u <= r1 /\ r1 <= r0
                             /\ r1 - l1 <= n - (i + 1)
        <3> HIDE DEF n
        <3>1. CASE l >= r
            BY <2>1, <2>2, <2>4, <3>1
        <3>2. CASE l < r /\ mid \in low
            <4>1. /\ mid + 1 \in Int /\ l0 <= mid + 1 /\ mid + 1 <= u
                  /\ r - (mid + 1) <= n - (i + 1)
                BY <2>1, <2>2, <2>4, <2>6, <3>2
            <4> QED BY <2>1, <2>4, <3>2, <4>1
        <3>3. CASE l < r /\ mid \notin low
            <4>1. mid <= r0 /\ u <= mid /\ mid - l <= n - (i + 1)
                BY <2>1, <2>2, <2>4, <2>6, <3>3
            <4> QED BY <2>1, <2>4, <3>3, <4>1
        <3> QED BY <2>1, <3>1, <3>2, <3>3
    <2> QED BY <2>2, <2>7
<1> HIDE DEF S
<1>7. n \in 0..n /\ n \in S
    BY <1>1, <1>5, <1>6, UpTo
<1>8. PICK l \in Int, r \in Int : f[n] = <<l, r>> /\ l <= u /\ u <= r /\ r - l <= n - n
    BY <1>7 DEF S
<1>9. l = u
    BY <1>1, <1>8
<1> QED BY <1>3, <1>8, <1>9

\* One round of the loop that doubles the bound.
Double(b, size, beyond) == IF b < size /\ b \in beyond THEN 2 * b ELSE b

\* f is ExpBound's loop.
Doubles(f, size, beyond) ==
    f = [n \in 0..size |-> IF n = 0 THEN 1 ELSE Double(f[n - 1], size, beyond)]

LEMMA DoublesExist ==
    ASSUME NEW size \in Nat, NEW beyond
    PROVE  \E f : Doubles(f, size, beyond)
<1> DEFINE g == [x \in (1..size) \X Nat |-> Double(x[2], size, beyond)]
<1>1. \A b \in Nat : Double(b, size, beyond) \in Nat
    BY DEF Double
<1>2. \A i \in 1..size, b \in Nat : g[<<i, b>>] = Double(b, size, beyond)
    OBVIOUS
<1>3. Body(g, Nat, size)
    BY <1>1, <1>2 DEF Body
<1> HIDE DEF g
<1>4. PICK f : Loop(f, g, Nat, 1, size)
    BY <1>3, LoopExists
<1>5. ASSUME NEW i \in 0..size
      PROVE  f[i] = IF i = 0 THEN 1 ELSE Double(f[i - 1], size, beyond)
    <2>1. CASE i = 0
        BY <1>4, <2>1 DEF Loop
    <2>2. CASE i # 0
        <3>1. i \in 1..size /\ i - 1 \in 0..size
            BY <2>2
        <3> QED BY <1>2, <1>4, <2>2, <3>1 DEF Loop
    <2> QED BY <2>1, <2>2
<1>6. f = [i \in 0..size |-> f[i]]
    BY <1>4 DEF Loop
<1>7. Doubles(f, size, beyond)
    BY <1>5, <1>6 DEF Doubles
<1> QED BY <1>7

\* The bound is the first one that reaches the size or is not beyond the key;
\* half of it still was.
LEMMA ExpBoundIs ==
    ASSUME NEW size \in Nat, NEW beyond
    PROVE  LET b == ExpBound(size, beyond)
           IN  /\ b \in Nat /\ b >= 1 /\ b \div 2 \in Nat
               /\ b < size => b \notin beyond
               /\ b \div 2 = 0 \/ (b \div 2 < size /\ b \div 2 \in beyond)
<1> DEFINE f == CHOOSE g : Doubles(g, size, beyond)
<1>1. Doubles(f, size, beyond)
    BY DoublesExist
<1>2. ExpBound(size, beyond) = f[size]
    BY DEF ExpBound, Doubles, Double
<1> HIDE DEF f
<1>3. \A i \in 0..size : f[i] = IF i = 0 THEN 1 ELSE Double(f[i - 1], size, beyond)
    BY <1>1 DEF Doubles
<1> DEFINE Half(b) == b = 1 \/ \E h \in Nat : b = 2 * h /\ h < size /\ h \in beyond
           S == {i \in 0..size : /\ f[i] \in Nat /\ f[i] >= 1 /\ Half(f[i])
                                 /\ i < f[i] \/ ~(f[i] < size /\ f[i] \in beyond)}
<1>4. 0 \in S
    <2>1. f[0] = 1 /\ 0 \in 0..size
        BY <1>3
    <2> QED BY <2>1
<1>5. ASSUME NEW i \in 0..size - 1, i \in S PROVE i + 1 \in S
    <2> DEFINE b == f[i]
    <2>1. b \in Nat /\ b >= 1 /\ Half(b) /\ (i < b \/ ~(b < size /\ b \in beyond))
        BY <1>5
    <2>2. i + 1 \in 0..size /\ i + 1 # 0 /\ (i + 1) - 1 = i /\ i \in Nat
        OBVIOUS
    <2>3. f[i + 1] = Double(b, size, beyond)
        BY <1>3, <2>2
    <2> HIDE DEF b, Half
    <2>4. CASE b < size /\ b \in beyond
        <3>1. f[i + 1] = 2 * b
            BY <2>3, <2>4 DEF Double
        <3>2. Half(2 * b)
            BY <2>1, <2>4 DEF Half
        <3>3. 2 * b \in Nat /\ 2 * b >= 1 /\ i + 1 < 2 * b
            BY <2>1, <2>2, <2>4
        <3> QED BY <2>2, <3>1, <3>2, <3>3
    <2>5. CASE ~(b < size /\ b \in beyond)
        <3>1. f[i + 1] = b
            BY <2>3, <2>5 DEF Double
        <3> QED BY <2>1, <2>2, <2>5, <3>1
    <2> QED BY <2>4, <2>5
<1> HIDE DEF S
<1>6. size \in 0..size /\ size \in S
    BY <1>4, <1>5, UpTo
<1> DEFINE b == f[size]
<1>7. b \in Nat /\ b >= 1 /\ Half(b) /\ (size < b \/ ~(b < size /\ b \in beyond))
    BY <1>6 DEF S
<1> HIDE DEF b
<1>8. b < size => b \notin beyond
    BY <1>7
<1>9. CASE b = 1
    <2>1. b \div 2 = 0
        BY <1>9
    <2> QED BY <1>2, <1>7, <1>8, <2>1 DEF b
<1>10. ASSUME NEW h \in Nat, b = 2 * h /\ h < size /\ h \in beyond
       PROVE  b \div 2 = h
    BY <1>10
<1> QED BY <1>2, <1>7, <1>8, <1>9, <1>10 DEF b

\* An exponential search finds the end of the lower side from every slot.
LEMMA ExponentialSearchIs ==
    ASSUME NEW cap \in Nat, NEW m \in 0..cap - 1, NEW u \in 0..cap, NEW low,
           \A p \in 0..cap - 1 : p \in low <=> p < u
    PROVE  ExponentialSearch(cap, m, low) = u
<1>1. CASE m \notin low
    <2> DEFINE beyond == {d \in 1..m : m - d \notin low}
               b == ExpBound(m, beyond)
               l == m - Minimum(b, m)
               r == m - b \div 2
    <2>1. ExponentialSearch(cap, m, low) = BinarySearch(l, r, low)
        BY <1>1 DEF ExponentialSearch
    <2>2. m \in Nat /\ u <= m
        BY <1>1
    <2>3. \A d \in 1..m : d \in beyond <=> m - d >= u
        OBVIOUS
    <2>4. /\ b \in Nat /\ b >= 1 /\ b \div 2 \in Nat
          /\ b < m => b \notin beyond
          /\ b \div 2 = 0 \/ (b \div 2 < m /\ b \div 2 \in beyond)
        BY <2>2, ExpBoundIs
    <2> HIDE DEF beyond, b
    <2>5. l \in Nat /\ l <= u
        <3>1. CASE b < m
            <4>1. b \in 1..m /\ ~(m - b >= u)
                BY <2>2, <2>3, <2>4, <3>1
            <4> QED BY <2>2, <2>4, <3>1, <4>1 DEF Minimum
        <3>2. CASE ~(b < m)
            BY <2>2, <2>4, <3>2 DEF Minimum
        <3> QED BY <3>1, <3>2
    <2>6. r \in Nat /\ u <= r /\ r <= m
        <3>1. CASE b \div 2 = 0
            BY <2>2, <2>4, <3>1
        <3>2. CASE b \div 2 # 0
            <4>1. b \div 2 \in 1..m /\ b \div 2 \in beyond
                BY <2>2, <2>4, <3>2
            <4>2. m - b \div 2 >= u
                BY <2>3, <4>1
            <4> QED BY <2>2, <2>4, <4>1, <4>2
        <3> QED BY <3>1, <3>2
    <2> HIDE DEF l, r
    <2>7. u \in l..r /\ \A p \in l..r - 1 : p \in low <=> p < u
        BY <2>2, <2>5, <2>6
    <2> QED BY <2>1, <2>5, <2>6, <2>7, BinarySearchIs
<1>2. CASE m \in low
    <2> DEFINE size == cap - m
               beyond == {d \in 1..size : m + d \in low}
               b == ExpBound(size, beyond)
               l == m + b \div 2
               r == m + Minimum(b, size)
    <2>1. ExponentialSearch(cap, m, low) = BinarySearch(l, r, low)
        BY <1>2 DEF ExponentialSearch
    <2>2. m \in Nat /\ m < u /\ size \in Nat /\ m + size = cap
        BY <1>2
    <2>3. \A d \in 1..size - 1 : d \in beyond <=> m + d < u
        OBVIOUS
    <2>4. /\ b \in Nat /\ b >= 1 /\ b \div 2 \in Nat
          /\ b < size => b \notin beyond
          /\ b \div 2 = 0 \/ (b \div 2 < size /\ b \div 2 \in beyond)
        BY <2>2, ExpBoundIs
    <2> HIDE DEF beyond, b, size
    <2>5. l \in Nat /\ l <= u
        <3>1. CASE b \div 2 = 0
            BY <2>2, <2>4, <3>1
        <3>2. CASE b \div 2 # 0
            <4>1. b \div 2 \in 1..size - 1 /\ b \div 2 \in beyond
                BY <2>2, <2>4, <3>2
            <4>2. m + b \div 2 < u
                BY <2>3, <4>1
            <4> QED BY <2>2, <2>4, <4>1, <4>2
        <3> QED BY <3>1, <3>2
    <2>6. r \in Nat /\ u <= r /\ r <= cap
        <3>1. CASE b < size
            <4>1. b \in 1..size - 1 /\ ~(m + b < u)
                BY <2>2, <2>3, <2>4, <3>1
            <4> QED BY <2>2, <2>4, <3>1, <4>1 DEF Minimum
        <3>2. CASE ~(b < size)
            BY <2>2, <2>4, <3>2 DEF Minimum
        <3> QED BY <3>1, <3>2
    <2> HIDE DEF l, r
    <2>7. u \in l..r /\ \A p \in l..r - 1 : p \in low <=> p < u
        BY <2>2, <2>5, <2>6
    <2> QED BY <2>1, <2>5, <2>6, <2>7, BinarySearchIs
<1> QED BY <1>1, <1>2

-----------------------------------------------------------------------------
(* The bitmap and its words. *)

\* What the bitmap is about.
BitsOK(nd) == nd.cap \in Nat \ {0} /\ nd.bit \in SUBSET Slots(nd)

LEMMA WIsPositive == W \in Nat /\ W >= 1 /\ W \in Int
    BY AlexDataNodeAssumption

\* Every position is in one word, and words follow each other.
LEMMA Words ==
    /\ \A q \in Int : /\ q \div W \in Int /\ q % W \in 0..W - 1
                      /\ q = (q \div W) * W + (q % W)
                      /\ q >= 0 => q \div W >= 0
    /\ \A v \in Int : v * W \in Int /\ (v + 1) * W = v * W + W /\ (v - 1) * W = v * W - W
    /\ \A v, w \in Int : v < w => v * W + W <= w * W
    /\ \A v, w \in Int : (v + w) * W = v * W + w * W /\ (v - w) * W = v * W - w * W
    /\ 0 * W = 0
<1>1. \A q \in Int : /\ q \div W \in Int /\ q % W \in 0..W - 1
                     /\ q = (q \div W) * W + (q % W)
                     /\ q >= 0 => q \div W >= 0
    BY WIsPositive
<1>2. \A v \in Int : v * W \in Int /\ (v + 1) * W = v * W + W /\ (v - 1) * W = v * W - W
    BY WIsPositive
<1>3. \A v, w \in Int : v < w => v * W + W <= w * W
    BY WIsPositive
<1>4. \A v, w \in Int : (v + w) * W = v * W + w * W /\ (v - w) * W = v * W - w * W
    BY WIsPositive
<1> QED BY <1>1, <1>2, <1>3, <1>4, WIsPositive

\* Position q lies in word v.
In(q, v) == v * W <= q /\ q < v * W + W

LEMMA InOneWord ==
    ASSUME NEW q \in Int, NEW v \in Int
    PROVE  /\ q \div W \in Int /\ In(q, q \div W)
           /\ In(q, v) => v = q \div W
           /\ In(q, v) => q - v * W \in 0..W - 1
           /\ q < v * W => q \div W < v
           /\ q >= v * W => q \div W >= v
<1> DEFINE w == q \div W
<1>1. w \in Int /\ v * W \in Int /\ w * W \in Int /\ w * W <= q /\ q < w * W + W /\ W \in Nat
    BY Words, WIsPositive
<1>2. v < w => v * W + W <= w * W
    BY <1>1, Words
<1>3. w < v => w * W + W <= v * W
    BY <1>1, Words
<1> HIDE DEF w
<1>4. In(q, w)
    BY <1>1 DEF In
<1>5. In(q, v) => v = w
    BY <1>1, <1>2, <1>3 DEF In
<1>6. In(q, v) => q - v * W \in 0..W - 1
    BY <1>1 DEF In
<1>7. (q < v * W => w < v) /\ (q >= v * W => w >= v)
    BY <1>1, <1>2, <1>3
<1> QED BY <1>1, <1>4, <1>5, <1>6, <1>7 DEF w

\* The number of words.
LEMMA BitmapSize ==
    ASSUME NEW nd, BitsOK(nd)
    PROVE  LET bs == bitmap_size(nd)
           IN  /\ bs \in Nat /\ bs >= 1 /\ nd.cap <= bs * W /\ (bs - 1) * W < nd.cap
               /\ (nd.cap - 1) \div W = bs - 1
<1> DEFINE bs == bitmap_size(nd)
           t == nd.cap + W - 1
<1>1. t \in Nat /\ t >= W /\ nd.cap \in Nat /\ nd.cap >= 1 /\ W \in Nat /\ W >= 1
    BY WIsPositive DEF BitsOK
<1>2. bs = t \div W /\ bs \in Int /\ bs * W \in Int /\ bs * W <= t /\ t < bs * W + W
    <2>1. bs = t \div W /\ t \in Int
        BY <1>1 DEF bitmap_size
    <2>2. bs \in Int /\ In(t, bs)
        BY <2>1, InOneWord
    <2> QED BY <2>1, <2>2, Words DEF In
<1>3. (bs - 1) * W = bs * W - W
    BY <1>2, Words
<1>4. nd.cap <= bs * W /\ (bs - 1) * W < nd.cap
    BY <1>1, <1>2, <1>3
<1>5. bs >= 1
    <2>1. W >= 1 * W /\ 1 \in Int /\ 1 * W = W
        BY WIsPositive
    <2>2. t >= 1 * W
        BY <1>1, <2>1
    <2> QED BY <1>1, <1>2, <2>2, InOneWord
<1>6. (nd.cap - 1) \div W = bs - 1
    <2>1. In(nd.cap - 1, bs - 1)
        BY <1>1, <1>2, <1>3, <1>4 DEF In
    <2>2. nd.cap - 1 \in Int /\ bs - 1 \in Int
        BY <1>1, <1>2
    <2> QED BY <2>1, <2>2, InOneWord
<1> QED BY <1>2, <1>4, <1>5, <1>6

\* The bits of a word, of one outside the bitmap too.
LEMMA WordBits ==
    ASSUME NEW nd, BitsOK(nd), NEW w \in Int, NEW b \in 0..W - 1
    PROVE  b \in Word(nd, w, {}) <=> w * W + b \in nd.bit
<1> DEFINE bs == bitmap_size(nd)
<1>1. bs \in Nat /\ nd.cap <= bs * W /\ nd.cap \in Nat
    BY BitmapSize DEF BitsOK
<1>2. CASE w < bs
    BY <1>2 DEF Word
<1>3. CASE ~(w < bs)
    <2>1. bs <= w /\ w * W \in Int /\ bs * W \in Int /\ b \in Nat /\ W \in Nat
        BY <1>1, <1>3, Words, WIsPositive
    <2>2. bs * W <= w * W
        <3>1. CASE bs = w
            BY <2>1, <3>1
        <3>2. CASE bs < w
            BY <1>1, <2>1, <3>2, Words
        <3> QED BY <1>1, <2>1, <3>1, <3>2
    <2>3. w * W + b >= nd.cap
        BY <1>1, <2>1, <2>2
    <2>4. w * W + b \notin Slots(nd)
        BY <1>1, <2>1, <2>3 DEF Slots
    <2>5. Word(nd, w, {}) = {}
        BY <1>3 DEF Word
    <2> QED BY <2>4, <2>5 DEF BitsOK
<1> QED BY <1>1, <1>2, <1>3

LEMMA WordSet ==
    ASSUME NEW nd, NEW w
    PROVE  \A b \in Word(nd, w, {}) : b \in 0..W - 1
    BY DEF Word

\* A full word.
LEMMA FullIs ==
    ASSUME NEW nd, BitsOK(nd), NEW w \in Int
    PROVE  IsFull(nd, w) <=> \A q \in Int : In(q, w) => q \in nd.bit
<1>1. ASSUME IsFull(nd, w), NEW q \in Int, In(q, w) PROVE q \in nd.bit
    <2>1. q - w * W \in 0..W - 1 /\ w * W + (q - w * W) = q
        <3>1. w * W \in Int
            BY Words
        <3> QED BY <1>1, <3>1, InOneWord
    <2>2. q - w * W \in Word(nd, w, {})
        BY <1>1, <2>1 DEF IsFull
    <2> QED BY <2>1, <2>2, WordBits
<1>2. ASSUME \A q \in Int : In(q, w) => q \in nd.bit, NEW b \in 0..W - 1
      PROVE  b \in Word(nd, w, {})
    <2>1. w * W + b \in Int /\ In(w * W + b, w)
        BY Words, WIsPositive DEF In
    <2> QED BY <1>2, <2>1, WordBits
<1>3. (\A q \in Int : In(q, w) => q \in nd.bit) => Word(nd, w, {}) = 0..W - 1
    BY <1>2, WordSet
<1> QED BY <1>1, <1>3 DEF IsFull

\* The first position of a word that is not filled, or the one behind it.
LEMMA FirstGapIs ==
    ASSUME NEW nd, BitsOK(nd), NEW w \in Int
    PROVE  LET g == FirstGap(nd, w)
           IN  /\ g \in Int /\ w * W <= g /\ g <= w * W + W
               /\ \A q \in Int : w * W <= q /\ q < g => q \in nd.bit
               /\ g < w * W + W => g \notin nd.bit
               /\ ~IsFull(nd, w) => g < w * W + W
<1> DEFINE S == {b \in 0..W : b \notin Word(nd, w, {})}
           g == FirstGap(nd, w)
<1>1. S \in SUBSET Int /\ W \in S /\ W \in Nat /\ w * W \in Int
    BY WordSet, WIsPositive, Words
<1>2. \A x \in S : 0 <= x
    OBVIOUS
<1>3. MinOf(S) \in S /\ MinOf(S) \in Int /\ \A y \in S : MinOf(S) <= y
    BY <1>1, <1>2, MinOfIs
<1>4. g = w * W + MinOf(S) /\ \A x : x \in S <=> x \in 0..W /\ x \notin Word(nd, w, {})
    BY DEF FirstGap
<1> DEFINE m == MinOf(S)
<1> HIDE DEF S, g, m
<1>5. g = w * W + m /\ m \in 0..W /\ m \notin Word(nd, w, {}) /\ \A y \in S : m <= y
    BY <1>3, <1>4 DEF m
<1>6. g \in Int /\ w * W <= g /\ g <= w * W + W
    BY <1>1, <1>5
<1>7. ASSUME NEW q \in Int, w * W <= q, q < g PROVE q \in nd.bit
    <2>1. q - w * W \in 0..W - 1 /\ q - w * W \in 0..W /\ ~(m <= q - w * W) /\ w * W + (q - w * W) = q
        BY <1>1, <1>5, <1>6, <1>7
    <2>2. q - w * W \in Word(nd, w, {})
        BY <1>4, <1>5, <2>1
    <2> QED BY <2>1, <2>2, WordBits
<1>8. g < w * W + W => g \notin nd.bit
    <2>1. g < w * W + W => m \in 0..W - 1
        BY <1>1, <1>5
    <2> QED BY <1>5, <2>1, WordBits
<1>9. ~IsFull(nd, w) => g < w * W + W
    <2>1. g = w * W + W => \A q \in Int : In(q, w) => q \in nd.bit
        BY <1>7 DEF In
    <2> QED BY <1>1, <1>6, <2>1, FullIs
<1> QED BY <1>6, <1>7, <1>8, <1>9 DEF g

\* The last one, or the one before the word.
LEMMA LastGapIs ==
    ASSUME NEW nd, BitsOK(nd), NEW w \in Int
    PROVE  LET g == LastGap(nd, w)
           IN  /\ g \in Int /\ w * W - 1 <= g /\ g < w * W + W
               /\ \A q \in Int : g < q /\ q < w * W + W => q \in nd.bit
               /\ g >= w * W => g \notin nd.bit
               /\ ~IsFull(nd, w) => g >= w * W
<1> DEFINE S == {b \in -1..W - 1 : b \notin Word(nd, w, {})}
           g == LastGap(nd, w)
<1>1. S \in SUBSET Int /\ -1 \in S /\ W \in Nat /\ w * W \in Int
    BY WordSet, WIsPositive, Words
<1>2. S # {} /\ W \in Int /\ \A x \in S : x <= W
    BY <1>1
<1>3. MaxOf(S) \in S /\ MaxOf(S) \in Int /\ \A y \in S : MaxOf(S) >= y
    BY <1>1, <1>2, MaxOfIs
<1>4. g = w * W + MaxOf(S) /\ \A x : x \in S <=> x \in -1..W - 1 /\ x \notin Word(nd, w, {})
    BY DEF LastGap
<1> DEFINE m == MaxOf(S)
<1> HIDE DEF S, g, m
<1>5. g = w * W + m /\ m \in -1..W - 1 /\ m \notin Word(nd, w, {}) /\ \A y \in S : m >= y
    BY <1>3, <1>4 DEF m
<1>6. g \in Int /\ w * W - 1 <= g /\ g < w * W + W
    BY <1>1, <1>5
<1>7. ASSUME NEW q \in Int, g < q, q < w * W + W PROVE q \in nd.bit
    <2>1. /\ q - w * W \in 0..W - 1 /\ q - w * W \in -1..W - 1
          /\ ~(m >= q - w * W) /\ w * W + (q - w * W) = q
        BY <1>1, <1>5, <1>6, <1>7
    <2>2. q - w * W \in Word(nd, w, {})
        BY <1>4, <1>5, <2>1
    <2> QED BY <2>1, <2>2, WordBits
<1>8. g >= w * W => g \notin nd.bit
    <2>1. g >= w * W => m \in 0..W - 1
        BY <1>1, <1>5
    <2> QED BY <1>5, <2>1, WordBits
<1>9. ~IsFull(nd, w) => g >= w * W
    <2>1. g = w * W - 1 => \A q \in Int : In(q, w) => q \in nd.bit
        BY <1>1, <1>7 DEF In
    <2> QED BY <1>1, <1>6, <2>1, FullIs
<1> QED BY <1>6, <1>7, <1>8, <1>9 DEF g

-----------------------------------------------------------------------------
(* The closest gap. *)

Distance(p, q) == IF p > q THEN p - q ELSE q - p

\* g is a gap, and none is closer to p; or there is no gap.
Nearest(nd, p, g) ==
    IF Gaps(nd) = {} THEN g = -1
    ELSE g \in Gaps(nd) /\ \A q \in Gaps(nd) : Distance(p, g) <= Distance(p, q)

LEMMA GapIs ==
    ASSUME NEW nd, BitsOK(nd), NEW q
    PROVE  /\ q \in Gaps(nd) <=> q \in Int /\ 0 <= q /\ q < nd.cap /\ q \notin nd.bit
           /\ nd.cap \in Nat /\ nd.cap >= 1
    BY DEF BitsOK, Gaps, Slots

\* All slots of word w are filled.
Filled(nd, w) == \A q \in Int : In(q, w) /\ q < nd.cap => q \in nd.bit

\* closest_gap recognises such a word.
LEMMA FilledIs ==
    ASSUME NEW nd, BitsOK(nd), NEW w \in Nat, w < bitmap_size(nd)
    PROVE  Filled(nd, w) <=> \/ IsFull(nd, w)
                             \/ /\ w = bitmap_size(nd) - 1
                                /\ Cardinality(Word(nd, w, {})) = nd.cap - w * W
<1> DEFINE bs == bitmap_size(nd)
           I == 0..nd.cap - w * W - 1
           B == Word(nd, w, {})
<1>1. /\ bs \in Nat /\ nd.cap <= bs * W /\ (bs - 1) * W < nd.cap /\ nd.cap \in Nat
      /\ w * W \in Int /\ bs * W \in Int /\ W \in Nat /\ bs * W = (bs - 1) * W + W
      /\ (bs - 1) * W \in Int
    BY BitmapSize, Words, WIsPositive DEF BitsOK
<1>2. w < bs - 1 => w * W + W < nd.cap
    <2>1. w < bs - 1 => w * W + W <= (bs - 1) * W
        BY <1>1, Words
    <2> QED BY <1>1, <2>1
<1>3. ASSUME NEW b \in B PROVE b \in I
    <2>1. b \in 0..W - 1
        BY WordSet
    <2>2. w * W + b \in nd.bit
        BY <2>1, WordBits
    <2>3. w * W + b < nd.cap
        BY <2>2 DEF BitsOK, Slots
    <2> QED BY <1>1, <2>1, <2>3
<1>4. IsFiniteSet(I) /\ (w = bs - 1 => Cardinality(I) = nd.cap - w * W)
    <2>1. 0 \in Int /\ nd.cap - w * W - 1 \in Int
        BY <1>1
    <2>2. IsFiniteSet(I) /\ Cardinality(I) = IF 0 > nd.cap - w * W - 1 THEN 0 ELSE nd.cap - w * W - 1 - 0 + 1
        BY <2>1, FS_Interval
    <2>3. w = bs - 1 => ~(0 > nd.cap - w * W - 1)
        BY <1>1
    <2> QED BY <1>1, <2>2, <2>3
<1>5. ASSUME w = bs - 1, Cardinality(B) = nd.cap - w * W PROVE Filled(nd, w)
    <2>1. B \in SUBSET I
        BY <1>3
    <2>2. B = I
        BY <1>4, <1>5, <2>1, FS_Subset
    <2>3. ASSUME NEW q \in Int, In(q, w), q < nd.cap PROVE q \in nd.bit
        <3>1. q - w * W \in 0..W - 1 /\ w * W + (q - w * W) = q
            BY <1>1, <2>3, InOneWord
        <3>2. q - w * W \in I
            BY <1>1, <2>3, <3>1
        <3> HIDE DEF B, I
        <3>3. q - w * W \in B /\ w \in Int
            BY <2>2, <3>2
        <3> QED BY <3>1, <3>3, WordBits DEF B
    <2> QED BY <2>3 DEF Filled
<1>6. ASSUME Filled(nd, w), w = bs - 1 PROVE Cardinality(B) = nd.cap - w * W
    <2>1. ASSUME NEW b \in I PROVE b \in B
        <3>1. b \in 0..W - 1 /\ w * W + b \in Int /\ w * W + b < nd.cap /\ In(w * W + b, w)
            BY <1>1, <1>6 DEF In
        <3> QED BY <1>6, <3>1, WordBits DEF Filled
    <2>2. B = I
        BY <1>3, <2>1
    <2> QED BY <1>4, <1>6, <2>2
<1>7. ASSUME Filled(nd, w), w # bs - 1 PROVE IsFull(nd, w)
    <2>1. w * W + W < nd.cap
        BY <1>1, <1>2, <1>7
    <2>2. \A q \in Int : In(q, w) => q < nd.cap
        BY <1>1, <2>1 DEF In
    <2> QED BY <1>7, <2>2, FullIs DEF Filled
<1>8. IsFull(nd, w) => Filled(nd, w)
    BY FullIs DEF Filled
<1> QED BY <1>5, <1>6, <1>7, <1>8

\* closest_gap in a word that has one.
LEMMA GapNearWordIs ==
    ASSUME NEW nd, BitsOK(nd), NEW p \in Slots(nd), ~Filled(nd, p \div W)
    PROVE  Nearest(nd, p, GapNearWord(nd, p))
<1> DEFINE w == p \div W
           b == p % W
           bs == bitmap_size(nd)
           a == w * W
           rights == {c \in b..W - 1 : c \notin Word(nd, w, {})}
           lefts == {c \in 0..b - 1 : c \notin Word(nd, w, {})}
           rd == IF rights # {} THEN MinOf(rights) - b
                 ELSE IF w + 1 < bs THEN FirstGap(nd, w + 1) - p ELSE W
           ld == IF lefts # {} THEN b - MaxOf(lefts)
                 ELSE IF w > 0 THEN p - LastGap(nd, w - 1) ELSE W
<1>1. GapNearWord(nd, p) = IF rd < ld /\ p + rd < nd.cap THEN p + rd ELSE p - ld
    BY DEF GapNearWord
<1>2. /\ p \in Nat /\ p < nd.cap /\ w \in Nat /\ b \in 0..W - 1 /\ p = a + b /\ a \in Int
      /\ W \in Nat /\ W >= 1 /\ nd.cap \in Nat
    <2>1. p \in Nat /\ p < nd.cap /\ nd.cap \in Nat
        BY DEF BitsOK, Slots
    <2> QED BY <2>1, Words, WIsPositive
<1>3. (w + 1) * W = a + W /\ (w - 1) * W = a - W /\ a >= 0 /\ (w > 0 => a >= W) /\ (w = 0 => a = 0)
    <2>1. (w + 1) * W = a + W /\ (w - 1) * W = a - W
        BY <1>2, Words
    <2>2. 0 < w => 0 * W + W <= a
        BY <1>2, Words
    <2> QED BY <1>2, <2>1, <2>2, Words
<1>4. bs \in Nat /\ nd.cap <= bs * W /\ bs * W \in Int
    BY BitmapSize, Words
<1>5. \A c \in 0..W - 1 : c \in Word(nd, w, {}) <=> a + c \in nd.bit
    <2>1. w \in Int
        BY <1>2
    <2> HIDE DEF w
    <2> QED BY <2>1, WordBits
<1>6. w + 1 >= bs => nd.cap <= a + W
    <2>1. bs <= w + 1 => bs * W <= (w + 1) * W
        <3>1. CASE bs = w + 1
            BY <1>4, <3>1
        <3>2. CASE bs < w + 1
            <4>1. bs * W + W <= (w + 1) * W
                BY <1>2, <1>4, <3>2, Words
            <4> QED BY <1>2, <1>3, <1>4, <4>1
        <3> QED BY <1>2, <1>4, <3>1, <3>2
    <2> QED BY <1>2, <1>3, <1>4, <2>1
<1> HIDE DEF w, b, bs, a
<1>7. /\ rd \in Nat
      /\ \A q \in Int : p <= q /\ q < p + rd /\ q < nd.cap => q \in nd.bit
      /\ p + rd < a + W + W => p + rd \notin nd.bit
      /\ \/ p + rd \notin nd.bit
         \/ \A q \in Int : p <= q /\ q < a + W => q \in nd.bit
    <2>1. CASE rights # {}
        <3>1. rights \in SUBSET Int /\ \A x \in rights : 0 <= x
            BY <1>2
        <3>2. MinOf(rights) \in rights /\ MinOf(rights) \in Int /\ \A y \in rights : MinOf(rights) <= y
            BY <2>1, <3>1, MinOfIs
        <3> DEFINE m == MinOf(rights)
        <3>3. \A c : c \in rights <=> c \in b..W - 1 /\ c \notin Word(nd, w, {})
            OBVIOUS
        <3>4. rd = m - b
            BY <2>1
        <3> HIDE DEF rights, m, rd
        <3>5. m \in b..W - 1 /\ m \in 0..W - 1 /\ m \notin Word(nd, w, {}) /\ \A y \in rights : m <= y
            BY <1>2, <3>2, <3>3 DEF m
        <3>6. rd \in Nat /\ p + rd = a + m
            BY <1>2, <3>4, <3>5
        <3>7. a + m \notin nd.bit
            BY <1>5, <3>5
        <3>8. ASSUME NEW q \in Int, p <= q, q < p + rd PROVE q \in nd.bit
            <4>1. q - a \in b..W - 1 /\ q - a \in 0..W - 1 /\ ~(m <= q - a) /\ a + (q - a) = q
                BY <1>2, <3>5, <3>6, <3>8
            <4>2. q - a \in Word(nd, w, {})
                BY <3>3, <3>5, <4>1
            <4> QED BY <1>5, <4>1, <4>2
        <3> QED BY <3>6, <3>7, <3>8
    <2>2. CASE rights = {}
        <3>1. ASSUME NEW q \in Int, p <= q, q < a + W PROVE q \in nd.bit
            <4>1. q - a \in b..W - 1 /\ q - a \in 0..W - 1 /\ a + (q - a) = q
                BY <1>2, <3>1
            <4>2. q - a \in Word(nd, w, {})
                BY <2>2, <4>1
            <4> QED BY <1>5, <4>1, <4>2
        <3>2. CASE w + 1 < bs
            <4> DEFINE g == FirstGap(nd, w + 1)
            <4>1. rd = g - p
                BY <2>2, <3>2
            <4>2. /\ g \in Int /\ a + W <= g /\ g <= a + W + W
                  /\ \A q \in Int : a + W <= q /\ q < g => q \in nd.bit
                  /\ g < a + W + W => g \notin nd.bit
                <5>1. w + 1 \in Int
                    BY <1>2
                <5> QED BY <1>3, <5>1, FirstGapIs
            <4> HIDE DEF rd, g
            <4>3. rd \in Nat /\ p + rd = g
                BY <1>2, <4>1, <4>2
            <4>4. \A q \in Int : p <= q /\ q < p + rd => q \in nd.bit
                BY <1>2, <3>1, <4>2, <4>3
            <4> QED BY <3>1, <4>2, <4>3, <4>4
        <3>3. CASE ~(w + 1 < bs)
            <4>1. rd = W
                BY <2>2, <3>3
            <4>2. nd.cap <= a + W
                BY <1>2, <1>4, <1>6, <3>3
            <4>3. p + W >= nd.cap
                BY <1>2, <4>2
            <4>4. p + W \notin nd.bit
                BY <1>2, <4>3 DEF BitsOK, Slots
            <4>5. \A q \in Int : p <= q /\ q < nd.cap => q \in nd.bit
                BY <1>2, <3>1, <4>2
            <4> HIDE DEF rd
            <4> QED BY <1>2, <3>1, <4>1, <4>4, <4>5
        <3> QED BY <3>2, <3>3
    <2> QED BY <2>1, <2>2
<1>8. /\ ld \in Nat /\ ld >= 1
      /\ \A q \in Int : 0 <= q /\ p - ld < q /\ q < p => q \in nd.bit
      /\ p - ld >= a => p - ld \notin nd.bit
      /\ w > 0 /\ p - ld >= a - W => p - ld \notin nd.bit
      /\ w = 0 /\ p - ld < a => ld = W
      /\ \/ p - ld >= a
         \/ \A q \in Int : a <= q /\ q < p => q \in nd.bit
    <2>1. CASE lefts # {}
        <3>1. lefts \in SUBSET Int /\ W \in Int /\ \A x \in lefts : x <= W
            BY <1>2
        <3>2. MaxOf(lefts) \in lefts /\ MaxOf(lefts) \in Int /\ \A y \in lefts : MaxOf(lefts) >= y
            BY <2>1, <3>1, MaxOfIs
        <3> DEFINE m == MaxOf(lefts)
        <3>3. \A c : c \in lefts <=> c \in 0..b - 1 /\ c \notin Word(nd, w, {})
            OBVIOUS
        <3>4. ld = b - m
            BY <2>1
        <3> HIDE DEF lefts, m, ld
        <3>5. m \in 0..b - 1 /\ m \in 0..W - 1 /\ m \notin Word(nd, w, {}) /\ \A y \in lefts : m >= y
            BY <1>2, <3>2, <3>3 DEF m
        <3>6. ld \in Nat /\ ld >= 1 /\ p - ld = a + m /\ p - ld >= a
            BY <1>2, <3>4, <3>5
        <3>7. a + m \notin nd.bit
            BY <1>5, <3>5
        <3>8. ASSUME NEW q \in Int, p - ld < q, q < p PROVE q \in nd.bit
            <4>1. q - a \in 0..b - 1 /\ q - a \in 0..W - 1 /\ ~(m >= q - a) /\ a + (q - a) = q
                BY <1>2, <3>5, <3>6, <3>8
            <4>2. q - a \in Word(nd, w, {})
                BY <3>3, <3>5, <4>1
            <4> QED BY <1>5, <4>1, <4>2
        <3> QED BY <1>2, <3>6, <3>7, <3>8
    <2>2. CASE lefts = {}
        <3>1. ASSUME NEW q \in Int, a <= q, q < p PROVE q \in nd.bit
            <4>1. q - a \in 0..b - 1 /\ q - a \in 0..W - 1 /\ a + (q - a) = q
                BY <1>2, <3>1
            <4>2. q - a \in Word(nd, w, {})
                BY <2>2, <4>1
            <4> QED BY <1>5, <4>1, <4>2
        <3>2. CASE w > 0
            <4> DEFINE g == LastGap(nd, w - 1)
            <4>1. ld = p - g
                BY <2>2, <3>2
            <4>2. /\ g \in Int /\ g < a
                  /\ \A q \in Int : g < q /\ q < a => q \in nd.bit
                  /\ g >= a - W => g \notin nd.bit
                <5>1. w - 1 \in Int
                    BY <1>2
                <5>2. (w - 1) * W + W = a
                    BY <1>2, <1>3
                <5> QED BY <1>3, <5>1, <5>2, LastGapIs
            <4> HIDE DEF ld, g
            <4>3. ld \in Nat /\ ld >= 1 /\ p - ld = g
                BY <1>2, <4>1, <4>2
            <4>4. \A q \in Int : p - ld < q /\ q < p => q \in nd.bit
                BY <1>2, <3>1, <4>2, <4>3
            <4> QED BY <1>2, <3>1, <3>2, <4>2, <4>3, <4>4
        <3>3. CASE ~(w > 0)
            <4>1. ld = W
                BY <2>2, <3>3
            <4>2. w = 0 /\ a = 0
                BY <1>2, <1>3, <3>3
            <4> HIDE DEF ld
            <4>3. p - ld < a
                BY <1>2, <4>1, <4>2
            <4> QED BY <1>2, <3>1, <4>1, <4>2, <4>3
        <3> QED BY <3>2, <3>3
    <2> QED BY <2>1, <2>2
<1> HIDE DEF rd, ld
<1>9. PICK h \in Int : a <= h /\ h < a + W /\ h < nd.cap /\ h \notin nd.bit
    BY DEF Filled, In, w, a
<1>10. ASSUME NEW q \in Gaps(nd)
       PROVE  /\ q \in Int /\ q >= p => q >= p + rd
              /\ q < p => q <= p - ld
    <2>1. q \in Int /\ 0 <= q /\ q < nd.cap /\ q \notin nd.bit
        BY <1>10, GapIs
    <2> QED BY <1>2, <1>7, <1>8, <2>1
<1>11. \A q : q \in Gaps(nd) => q \in Int /\ q < nd.cap
    BY GapIs
<1>12. h \in Gaps(nd)
    BY <1>3, <1>2, <1>9, GapIs
<1>13. CASE rd < ld /\ p + rd < nd.cap
    <2>1. p + rd \notin nd.bit
        <3>1. CASE \A q \in Int : p <= q /\ q < a + W => q \in nd.bit
            <4>1. h < p
                BY <1>2, <1>9, <3>1
            <4>2. h <= p - ld
                BY <1>10, <1>12, <4>1
            <4>3. p + rd < a + W + W
                BY <1>2, <1>7, <1>8, <1>9, <1>13, <4>2
            <4> QED BY <1>7, <4>3
        <3> QED BY <1>7, <3>1
    <2>2. p + rd \in Gaps(nd)
        BY <1>2, <1>7, <1>13, <2>1, GapIs
    <2>3. ASSUME NEW q \in Gaps(nd) PROVE Distance(p, p + rd) <= Distance(p, q)
        BY <1>2, <1>7, <1>8, <1>10, <1>11, <1>13 DEF Distance
    <2> QED BY <1>1, <1>13, <2>2, <2>3 DEF Nearest
<1>14. CASE ~(rd < ld /\ p + rd < nd.cap)
    <2>1. p - ld >= 0 /\ p - ld \notin nd.bit
        <3>1. CASE p - ld >= a
            BY <1>2, <1>3, <1>8, <3>1
        <3>2. CASE ~(p - ld >= a)
            <4>1. h >= p
                BY <1>2, <1>8, <1>9, <3>2
            <4>2. h >= p + rd
                BY <1>10, <1>12, <4>1
            <4>3. ld <= rd /\ rd < W - b
                BY <1>2, <1>7, <1>8, <1>9, <1>14, <4>2
            <4>4. w # 0
                <5>1. p - ld < a /\ ld # W
                    BY <1>2, <1>7, <1>8, <3>2, <4>3
                <5> QED BY <1>8, <5>1
            <4>5. w > 0 /\ p - ld >= a - W /\ a >= W
                BY <1>2, <1>3, <1>7, <1>8, <4>3, <4>4
            <4> QED BY <1>2, <1>8, <4>5
        <3> QED BY <3>1, <3>2
    <2>2. p - ld \in Gaps(nd)
        BY <1>2, <1>8, <2>1, GapIs
    <2>3. ASSUME NEW q \in Gaps(nd) PROVE Distance(p, p - ld) <= Distance(p, q)
        BY <1>2, <1>7, <1>8, <1>10, <1>11, <1>14 DEF Distance
    <2> QED BY <1>1, <1>14, <2>2, <2>3 DEF Nearest
<1> QED BY <1>13, <1>14

\* The word of a gap, and where the gap lies in it.
LEMMA GapWord ==
    ASSUME NEW nd, BitsOK(nd), NEW q \in Gaps(nd)
    PROVE  LET v == q \div W
           IN  /\ q \in Int /\ v \in Nat /\ v < bitmap_size(nd) /\ v * W <= q /\ q < v * W + W
               /\ ~IsFull(nd, v) /\ ~Filled(nd, v)
               /\ FirstGap(nd, v) <= q /\ q <= LastGap(nd, v)
<1> DEFINE v == q \div W
           bs == bitmap_size(nd)
<1>1. q \in Int /\ 0 <= q /\ q < nd.cap /\ q \notin nd.bit /\ nd.cap \in Nat
    BY GapIs
<1>2. v \in Int /\ In(q, v) /\ v * W \in Int /\ v >= 0
    BY <1>1, InOneWord, Words
<1>3. bs \in Nat /\ nd.cap <= bs * W /\ bs * W \in Int
    BY BitmapSize, Words
<1>4. v < bs
    <2>1. q < bs * W
        BY <1>1, <1>3
    <2> QED BY <1>1, <1>3, <2>1, InOneWord
<1> HIDE DEF v
<1>5. v * W <= q /\ q < v * W + W
    BY <1>2 DEF In
<1>6. ~IsFull(nd, v) /\ ~Filled(nd, v)
    BY <1>1, <1>2, FullIs DEF Filled
<1>7. FirstGap(nd, v) <= q
    <2>1. FirstGap(nd, v) \in Int /\ \A r \in Int : v * W <= r /\ r < FirstGap(nd, v) => r \in nd.bit
        BY <1>2, FirstGapIs
    <2> QED BY <1>1, <1>5, <2>1
<1>8. q <= LastGap(nd, v)
    <2>1. LastGap(nd, v) \in Int /\ \A r \in Int : LastGap(nd, v) < r /\ r < v * W + W => r \in nd.bit
        BY <1>2, LastGapIs
    <2> QED BY <1>1, <1>5, <2>1
<1> QED BY <1>1, <1>2, <1>4, <1>5, <1>6, <1>7, <1>8 DEF v

\* Gaps in and before a word, in and behind it.
LEMMA GapsBeside ==
    ASSUME NEW nd, BitsOK(nd), NEW q \in Gaps(nd), NEW u \in Int
    PROVE  /\ q \div W <= u => q <= LastGap(nd, u) /\ q < u * W + W
           /\ q \div W >= u => q >= FirstGap(nd, u) /\ q >= u * W
<1> DEFINE v == q \div W
<1>1. /\ q \in Int /\ v \in Int /\ v * W <= q /\ q < v * W + W /\ v * W \in Int /\ u * W \in Int
      /\ FirstGap(nd, v) <= q /\ q <= LastGap(nd, v) /\ W \in Nat
    BY GapWord, Words, WIsPositive
<1>2. FirstGap(nd, u) \in Int /\ FirstGap(nd, u) <= u * W + W
    BY FirstGapIs
<1>3. LastGap(nd, u) \in Int /\ u * W - 1 <= LastGap(nd, u)
    BY LastGapIs
<1>4. (v < u => v * W + W <= u * W) /\ (u < v => u * W + W <= v * W)
    BY <1>1, Words
<1> HIDE DEF v
<1>5. CASE v = u
    BY <1>1, <1>5 DEF v
<1>6. CASE v < u
    BY <1>1, <1>3, <1>4, <1>6 DEF v
<1>7. CASE u < v
    BY <1>1, <1>2, <1>4, <1>7 DEF v
<1> QED BY <1>1, <1>5, <1>6, <1>7

\* The nearer of two gaps with no gap between them.
LEMMA NearerIs ==
    ASSUME NEW nd, BitsOK(nd), NEW p \in Int, NEW lg \in Gaps(nd), NEW rg \in Int,
           lg <= p, p <= rg, rg < nd.cap => rg \in Gaps(nd),
           \A q \in Gaps(nd) : q <= lg \/ q >= rg
    PROVE  Nearest(nd, p, IF p - lg <= rg - p \/ rg >= nd.cap THEN lg ELSE rg)
<1>1. lg \in Int /\ nd.cap \in Nat /\ \A q \in Gaps(nd) : q \in Int /\ q < nd.cap
    BY GapIs
<1>2. CASE p - lg <= rg - p \/ rg >= nd.cap
    <2>1. ASSUME NEW q \in Gaps(nd) PROVE Distance(p, lg) <= Distance(p, q)
        <3>1. q \in Int /\ q < nd.cap /\ (q <= lg \/ q >= rg)
            BY <1>1
        <3> QED BY <1>1, <1>2, <3>1 DEF Distance
    <2> QED BY <1>2, <2>1 DEF Nearest
<1>3. CASE ~(p - lg <= rg - p \/ rg >= nd.cap)
    <2>1. rg \in Gaps(nd)
        BY <1>1, <1>3
    <2>2. ASSUME NEW q \in Gaps(nd) PROVE Distance(p, rg) <= Distance(p, q)
        <3>1. q \in Int /\ q < nd.cap /\ (q <= lg \/ q >= rg)
            BY <1>1
        <3> QED BY <1>1, <1>3, <3>1 DEF Distance
    <2> QED BY <1>3, <2>1, <2>2 DEF Nearest
<1> QED BY <1>2, <1>3

\* The gaps at the edges of two words that are not full.
LEMMA EdgeGaps ==
    ASSUME NEW nd, BitsOK(nd), NEW u \in Int, ~IsFull(nd, u)
    PROVE  LET l == LastGap(nd, u)
               r == FirstGap(nd, u)
           IN  /\ l \in Int /\ u * W <= l /\ l < u * W + W
               /\ r \in Int /\ u * W <= r /\ r < u * W + W
               /\ u >= 0 /\ l < nd.cap => l \in Gaps(nd)
               /\ u >= 0 /\ r < nd.cap => r \in Gaps(nd)
<1> DEFINE l == LastGap(nd, u)
           r == FirstGap(nd, u)
<1>1. l \in Int /\ u * W <= l /\ l < u * W + W /\ l \notin nd.bit
    BY LastGapIs
<1>2. r \in Int /\ u * W <= r /\ r < u * W + W /\ r \notin nd.bit
    BY FirstGapIs
<1>3. u * W \in Int /\ (u >= 0 => u * W >= 0)
    BY WIsPositive
<1> HIDE DEF l, r
<1>4. u >= 0 /\ l < nd.cap => l \in Gaps(nd)
    BY <1>1, <1>3, GapIs
<1>5. u >= 0 /\ r < nd.cap => r \in Gaps(nd)
    BY <1>2, <1>3, GapIs
<1> QED BY <1>1, <1>2, <1>4, <1>5 DEF l, r

\* The parts of GapOutsideWord: its loop over both sides stops at distance d,
\* and what it returns there.
Stop(nd, w, d) ==
    ~IsFull(nd, w - d) \/ (~IsFull(nd, w + d) /\ FirstGap(nd, w + d) < nd.cap)

Nearer(nd, p, lg, rg) == IF p - lg <= rg - p \/ rg >= nd.cap THEN lg ELSE rg

NearGap(nd, p, d) ==
    LET w == p \div W
        b == p % W
        lg == LastGap(nd, w - d)
        rg == FirstGap(nd, w + d)
    IN  CASE ~IsFull(nd, w - d) /\ ~IsFull(nd, w + d) -> Nearer(nd, p, lg, rg)
          [] ~IsFull(nd, w - d) /\ ~(~IsFull(nd, w + d)) ->
                IF b > W \div 2 /\ w + d + 1 < bitmap_size(nd) /\ ~IsFull(nd, w + d + 1)
                THEN Nearer(nd, p, lg, FirstGap(nd, w + d + 1)) ELSE lg
          [] OTHER ->
                IF b < W \div 2 /\ w - d > 0 /\ ~IsFull(nd, w - d - 1)
                THEN Nearer(nd, p, LastGap(nd, w - d - 1), rg) ELSE rg

\* It stops at the words of the closest gap.
LEMMA NearGapIs ==
    ASSUME NEW nd, BitsOK(nd), NEW p \in Slots(nd), Filled(nd, p \div W),
           NEW d \in Nat, d >= 1, d <= p \div W, Stop(nd, p \div W, d),
           \A c \in 1..d - 1 : ~Stop(nd, p \div W, c)
    PROVE  Nearest(nd, p, NearGap(nd, p, d))
<1> DEFINE w == p \div W
           b == p % W
           bs == bitmap_size(nd)
           a == w * W
           e == d * W
           u == w - d
           v == w + d
           lg == LastGap(nd, u)
           rg == FirstGap(nd, v)
<1>1. /\ p \in Nat /\ p < nd.cap /\ w \in Nat /\ b \in 0..W - 1 /\ p = a + b /\ a \in Int
      /\ W \in Nat /\ W >= 1 /\ nd.cap \in Nat /\ u \in Nat /\ v \in Nat /\ e \in Int
    <2>1. p \in Nat /\ p < nd.cap /\ nd.cap \in Nat
        BY DEF BitsOK, Slots
    <2> QED BY <2>1, Words, WIsPositive
<1>2. /\ u * W = a - e /\ v * W = a + e /\ e >= W
      /\ (u - 1) * W = a - e - W /\ (v + 1) * W = a + e + W
      /\ (u - 2) * W = a - e - W - W /\ (v + 2) * W = a + e + W + W
    <2>1. u * W = a - e /\ v * W = a + e
        BY <1>1, Words
    <2>2. e >= W
        BY <1>1
    <2>3. (u - 1) * W = u * W - W /\ (v + 1) * W = v * W + W
        BY <1>1, Words
    <2>4. (u - 2) * W = u * W - W - W /\ (v + 2) * W = v * W + W + W
        BY <1>1
    <2> QED BY <2>1, <2>2, <2>3, <2>4
<1>3. /\ NearGap(nd, p, d) =
            CASE ~IsFull(nd, u) /\ ~IsFull(nd, v) -> Nearer(nd, p, lg, rg)
              [] ~IsFull(nd, u) /\ ~(~IsFull(nd, v)) ->
                    IF b > W \div 2 /\ v + 1 < bs /\ ~IsFull(nd, v + 1)
                    THEN Nearer(nd, p, lg, FirstGap(nd, v + 1)) ELSE lg
              [] OTHER ->
                    IF b < W \div 2 /\ u > 0 /\ ~IsFull(nd, u - 1)
                    THEN Nearer(nd, p, LastGap(nd, u - 1), rg) ELSE rg
      /\ ~IsFull(nd, u) \/ (~IsFull(nd, v) /\ rg < nd.cap)
    BY DEF NearGap, Stop
<1>4. ASSUME NEW q \in Gaps(nd)
      PROVE  /\ q \in Int /\ q < nd.cap /\ q \div W \in Nat /\ q \div W < bs /\ bs \in Nat
             /\ q \div W <= u \/ q \div W >= v
             /\ ~IsFull(nd, q \div W)
    <2> DEFINE x == q \div W
    <2>1. /\ q \in Int /\ x \in Nat /\ ~IsFull(nd, x) /\ ~Filled(nd, x) /\ FirstGap(nd, x) <= q
          /\ q < nd.cap /\ x < bs /\ bs \in Nat
        BY GapWord, GapIs, BitmapSize
    <2>2. FirstGap(nd, x) < nd.cap
        <3>1. FirstGap(nd, x) \in Int
            BY <2>1, FirstGapIs
        <3> QED BY <1>1, <2>1, <3>1
    <2> HIDE DEF x, w, bs
    <2>3. x # w
        BY <2>1 DEF w
    <2>4. ~(u < x /\ x < w)
        <3> SUFFICES ASSUME u < x, x < w PROVE FALSE
            OBVIOUS
        <3>1. w - x \in 1..d - 1 /\ w - (w - x) = x
            BY <1>1, <2>1
        <3>2. Stop(nd, w, w - x)
            BY <2>1, <3>1 DEF Stop
        <3> QED BY <3>1, <3>2 DEF w
    <2>5. ~(w < x /\ x < v)
        <3> SUFFICES ASSUME w < x, x < v PROVE FALSE
            OBVIOUS
        <3>1. x - w \in 1..d - 1 /\ w + (x - w) = x
            BY <1>1, <2>1
        <3>2. Stop(nd, w, x - w)
            BY <2>1, <2>2, <3>1 DEF Stop
        <3> QED BY <3>1, <3>2 DEF w
    <2> QED BY <1>1, <2>1, <2>3, <2>4, <2>5 DEF x
<1> HIDE DEF w, b, bs, a, e, u, v
<1>5. 2 * (W \div 2) <= W /\ W <= 2 * (W \div 2) + 1 /\ W \div 2 \in Nat
    BY <1>1
<1>6. CASE ~IsFull(nd, u) /\ ~IsFull(nd, v)
    <2>1. NearGap(nd, p, d) = Nearer(nd, p, lg, rg)
        BY <1>3, <1>6
    <2>2. lg \in Int /\ u * W <= lg /\ lg < u * W + W /\ (lg < nd.cap => lg \in Gaps(nd))
        BY <1>1, <1>6, EdgeGaps
    <2>3. rg \in Int /\ v * W <= rg /\ rg < v * W + W /\ (rg < nd.cap => rg \in Gaps(nd))
        BY <1>1, <1>6, EdgeGaps
    <2>4. \A q \in Gaps(nd) : q <= lg \/ q >= rg
        BY <1>1, <1>4, GapsBeside
    <2> HIDE DEF lg, rg
    <2>5. lg <= p /\ p <= rg /\ lg \in Gaps(nd)
        BY <1>1, <1>2, <2>2, <2>3
    <2>6. Nearest(nd, p, IF p - lg <= rg - p \/ rg >= nd.cap THEN lg ELSE rg)
        BY <1>1, <2>3, <2>4, <2>5, NearerIs
    <2> QED BY <2>1, <2>6 DEF Nearer
<1>7. CASE ~IsFull(nd, u) /\ IsFull(nd, v)
    <2>1. lg \in Int /\ u * W <= lg /\ lg < u * W + W /\ (lg < nd.cap => lg \in Gaps(nd))
        BY <1>1, <1>7, EdgeGaps
    <2>2. ASSUME NEW q \in Gaps(nd), q \div W > u
          PROVE  q \div W >= v + 1 /\ q >= FirstGap(nd, v + 1) /\ q >= (v + 1) * W
        <3>1. q \div W >= v /\ q \div W # v
            BY <1>1, <1>4, <1>7, <2>2
        <3>2. q \div W >= v + 1 /\ v + 1 \in Int
            BY <1>1, <1>4, <3>1
        <3> QED BY <3>2, GapsBeside
    <2>3. \A q \in Gaps(nd) : q \div W <= u => q <= lg
        BY <1>1, GapsBeside
    <2>4. CASE b > W \div 2 /\ v + 1 < bs /\ ~IsFull(nd, v + 1)
        <3> DEFINE rr == FirstGap(nd, v + 1)
        <3>1. NearGap(nd, p, d) = Nearer(nd, p, lg, rr)
            BY <1>3, <1>7, <2>4
        <3>2. /\ rr \in Int /\ (v + 1) * W <= rr /\ rr < (v + 1) * W + W
              /\ rr < nd.cap => rr \in Gaps(nd)
            <4>1. v + 1 \in Int /\ v + 1 >= 0
                BY <1>1
            <4> QED BY <2>4, <4>1, EdgeGaps
        <3>3. \A q \in Gaps(nd) : q <= lg \/ q >= rr
            BY <1>1, <1>4, <2>2, <2>3
        <3> HIDE DEF lg, rr
        <3>4. lg <= p /\ p <= rr /\ lg \in Gaps(nd)
            BY <1>1, <1>2, <2>1, <3>2
        <3>5. Nearest(nd, p, IF p - lg <= rr - p \/ rr >= nd.cap THEN lg ELSE rr)
            BY <1>1, <3>2, <3>3, <3>4, NearerIs
        <3> QED BY <3>1, <3>5 DEF Nearer
    <2>5. CASE ~(b > W \div 2 /\ v + 1 < bs /\ ~IsFull(nd, v + 1))
        <3>1. NearGap(nd, p, d) = lg
            BY <1>3, <1>7, <2>5
        <3> HIDE DEF lg
        <3>2. lg <= p /\ lg \in Gaps(nd) /\ p - lg <= e + b
            BY <1>1, <1>2, <2>1
        <3>3. ASSUME NEW q \in Gaps(nd), q \div W > u PROVE q - p >= e + b
            <4>1. q \in Int /\ q \div W \in Nat /\ q \div W < bs /\ bs \in Nat /\ ~IsFull(nd, q \div W)
                BY <1>4
            <4>2. q >= a + e + W /\ q \div W >= v + 1
                BY <1>2, <2>2, <3>3
            <4>3. CASE b <= W \div 2
                BY <1>1, <1>5, <4>1, <4>2, <4>3
            <4>4. CASE ~(v + 1 < bs)
                BY <1>1, <4>1, <4>2, <4>4
            <4>5. CASE IsFull(nd, v + 1)
                <5>1. q \div W # v + 1
                    BY <4>1, <4>5
                <5>2. q \div W >= v + 2 /\ v + 2 \in Int
                    BY <1>1, <4>1, <4>2, <5>1
                <5>3. q >= (v + 2) * W
                    BY <5>2, GapsBeside
                <5> QED BY <1>1, <1>2, <4>1, <5>3
            <4> QED BY <1>1, <1>5, <2>5, <4>3, <4>4, <4>5
        <3>4. ASSUME NEW q \in Gaps(nd) PROVE Distance(p, lg) <= Distance(p, q)
            <4>1. q \in Int /\ q \div W \in Nat
                BY <1>4
            <4>2. CASE q \div W <= u
                BY <1>1, <2>1, <2>3, <3>2, <4>1, <4>2 DEF Distance
            <4>3. CASE q \div W > u
                <5>1. q - p >= e + b
                    BY <3>3, <4>3
                <5> QED BY <1>1, <1>2, <2>1, <3>2, <4>1, <5>1 DEF Distance
            <4> QED BY <1>1, <4>1, <4>2, <4>3
        <3> QED BY <3>1, <3>2, <3>4 DEF Nearest
    <2> QED BY <2>4, <2>5
<1>8. CASE IsFull(nd, u)
    <2>1. /\ rg \in Int /\ v * W <= rg /\ rg < v * W + W /\ rg \in Gaps(nd)
        BY <1>1, <1>3, <1>8, EdgeGaps
    <2>2. ASSUME NEW q \in Gaps(nd), q \div W < v
          PROVE  q \div W <= u - 1 /\ q <= LastGap(nd, u - 1) /\ q < (u - 1) * W + W
        <3>1. q \div W <= u /\ q \div W # u
            BY <1>1, <1>4, <1>8, <2>2
        <3>2. q \div W <= u - 1 /\ u - 1 \in Int
            BY <1>1, <1>4, <3>1
        <3> QED BY <3>2, GapsBeside
    <2>3. \A q \in Gaps(nd) : q \div W >= v => q >= rg
        BY <1>1, GapsBeside
    <2>4. CASE b < W \div 2 /\ u > 0 /\ ~IsFull(nd, u - 1)
        <3> DEFINE ll == LastGap(nd, u - 1)
        <3>1. NearGap(nd, p, d) = Nearer(nd, p, ll, rg)
            BY <1>3, <1>8, <2>4
        <3>2. /\ ll \in Int /\ (u - 1) * W <= ll /\ ll < (u - 1) * W + W
              /\ ll < nd.cap => ll \in Gaps(nd)
            <4>1. u - 1 \in Int /\ u - 1 >= 0
                BY <1>1, <2>4
            <4> QED BY <2>4, <4>1, EdgeGaps
        <3>3. \A q \in Gaps(nd) : q <= ll \/ q >= rg
            BY <1>1, <1>4, <2>2, <2>3
        <3> HIDE DEF rg, ll
        <3>4. ll <= p /\ p <= rg /\ ll \in Gaps(nd)
            BY <1>1, <1>2, <2>1, <3>2
        <3>5. Nearest(nd, p, IF p - ll <= rg - p \/ rg >= nd.cap THEN ll ELSE rg)
            BY <1>1, <2>1, <3>3, <3>4, NearerIs
        <3> QED BY <3>1, <3>5 DEF Nearer
    <2>5. CASE ~(b < W \div 2 /\ u > 0 /\ ~IsFull(nd, u - 1))
        <3>1. NearGap(nd, p, d) = rg
            BY <1>3, <1>8, <2>5
        <3> HIDE DEF rg
        <3>2. rg >= p /\ rg - p <= e + W - 1 - b
            BY <1>1, <1>2, <2>1
        <3>3. ASSUME NEW q \in Gaps(nd), q \div W < v PROVE p - q >= e + W - 1 - b
            <4>1. q \in Int /\ q \div W \in Nat /\ ~IsFull(nd, q \div W)
                BY <1>4
            <4>2. q < a - e /\ q \div W <= u - 1
                BY <1>1, <1>2, <2>2, <3>3
            <4>3. CASE b >= W \div 2
                BY <1>1, <1>5, <4>1, <4>2, <4>3
            <4>4. CASE ~(u > 0)
                BY <1>1, <4>1, <4>2, <4>4
            <4>5. CASE IsFull(nd, u - 1)
                <5>1. q \div W # u - 1
                    BY <4>1, <4>5
                <5>2. q \div W <= u - 2 /\ u - 2 \in Int
                    BY <1>1, <4>1, <4>2, <5>1
                <5>3. q < (u - 2) * W + W
                    BY <5>2, GapsBeside
                <5> QED BY <1>1, <1>2, <4>1, <5>3
            <4> QED BY <1>1, <1>5, <2>5, <4>3, <4>4, <4>5
        <3>4. ASSUME NEW q \in Gaps(nd) PROVE Distance(p, rg) <= Distance(p, q)
            <4>1. q \in Int /\ q \div W \in Nat
                BY <1>4
            <4>2. CASE q \div W >= v
                BY <1>1, <2>1, <2>3, <3>2, <4>1, <4>2 DEF Distance
            <4>3. CASE q \div W < v
                <5>1. p - q >= e + W - 1 - b
                    BY <3>3, <4>3
                <5> QED BY <1>1, <1>2, <2>1, <3>2, <4>1, <5>1 DEF Distance
            <4> QED BY <1>1, <4>1, <4>2, <4>3
        <3> QED BY <2>1, <3>1, <3>4 DEF Nearest
    <2> QED BY <2>4, <2>5
<1> QED BY <1>6, <1>7, <1>8

\* closest_gap from a word that has none.
LEMMA GapOutsideWordIs ==
    ASSUME NEW nd, BitsOK(nd), NEW p \in Slots(nd), Filled(nd, p \div W)
    PROVE  Nearest(nd, p, GapOutsideWord(nd, p))
<1> DEFINE w == p \div W
           right == (nd.cap - 1) \div W
           both == Minimum(w, right - w)
           near == {d \in 1..both : Stop(nd, w, d)}
           farleft == {i \in 0..w - both - 1 : ~IsFull(nd, i)}
           farright == {i \in w + both + 1..right : ~IsFull(nd, i)}
<1>1. GapOutsideWord(nd, p) =
        IF near # {} THEN NearGap(nd, p, MinOf(near))
        ELSE IF w > right - w
             THEN IF farleft = {} THEN -1 ELSE LastGap(nd, MaxOf(farleft))
             ELSE IF farright = {} \/ FirstGap(nd, MinOf(farright)) >= nd.cap THEN -1
                  ELSE FirstGap(nd, MinOf(farright))
    BY DEF GapOutsideWord, Stop, NearGap, Nearer
<1>2. p \in Nat /\ p < nd.cap /\ nd.cap \in Nat /\ nd.cap - 1 \in Nat
    BY DEF BitsOK, Slots
<1>3. right = bitmap_size(nd) - 1 /\ right \in Nat
    BY BitmapSize
<1>4. w \in Nat /\ w <= right
    <2>1. w \in Nat /\ w \in Int /\ In(p, w) /\ w * W \in Int
        BY <1>2, InOneWord, Words
    <2>2. nd.cap - 1 >= w * W
        BY <1>2, <2>1 DEF In
    <2>3. (nd.cap - 1) \div W >= w
        BY <1>2, <2>1, <2>2, InOneWord
    <2> QED BY <1>3, <2>1, <2>3
<1> HIDE DEF w, right
<1>5. /\ both \in Nat /\ both <= w /\ both <= right - w
      /\ w > right - w => both = right - w
      /\ ~(w > right - w) => both = w
    BY <1>3, <1>4 DEF Minimum
<1>6. CASE near # {}
    <2>1. near \in SUBSET Int /\ 1 \in Int /\ \A x \in near : 1 <= x
        OBVIOUS
    <2> DEFINE d == MinOf(near)
    <2>2. d \in near /\ \A y \in near : d <= y
        BY <1>6, <2>1, MinOfIs
    <2>3. \A x : x \in near <=> x \in 1..both /\ Stop(nd, w, x)
        OBVIOUS
    <2> HIDE DEF near, d, both
    <2>4. d \in Nat /\ d >= 1 /\ d <= w /\ Stop(nd, w, d)
        BY <1>3, <1>4, <1>5, <2>2, <2>3
    <2>5. \A c \in 1..d - 1 : ~Stop(nd, w, c)
        BY <1>5, <2>2, <2>3, <2>4
    <2>6. Nearest(nd, p, NearGap(nd, p, d))
        BY <2>4, <2>5, NearGapIs DEF w
    <2> QED BY <1>1, <1>6, <2>6 DEF near, d
<1>7. CASE near = {}
    <2>1. ASSUME NEW q \in Gaps(nd)
          PROVE  /\ q \div W \in Nat /\ q \div W <= right /\ ~IsFull(nd, q \div W)
                 /\ q \div W < w - both \/ q \div W > w + both
        <3> DEFINE x == q \div W
        <3>1. /\ q \in Int /\ x \in Nat /\ ~IsFull(nd, x) /\ ~Filled(nd, x) /\ FirstGap(nd, x) <= q
              /\ q < nd.cap /\ x <= right
            BY <1>3, GapWord, GapIs, BitmapSize
        <3>2. FirstGap(nd, x) < nd.cap
            <4>1. FirstGap(nd, x) \in Int
                BY <3>1, FirstGapIs
            <4> QED BY <1>2, <3>1, <4>1
        <3> HIDE DEF x, both
        <3>3. x # w
            BY <3>1 DEF w
        <3>4. ~(w - both <= x /\ x < w)
            <4> SUFFICES ASSUME w - both <= x, x < w PROVE FALSE
                OBVIOUS
            <4>1. w - x \in 1..both /\ w - (w - x) = x
                BY <1>4, <1>5, <3>1
            <4>2. Stop(nd, w, w - x)
                BY <3>1, <4>1 DEF Stop
            <4> QED BY <1>7, <4>1, <4>2
        <3>5. ~(w < x /\ x <= w + both)
            <4> SUFFICES ASSUME w < x, x <= w + both PROVE FALSE
                OBVIOUS
            <4>1. x - w \in 1..both /\ w + (x - w) = x
                BY <1>4, <1>5, <3>1
            <4>2. Stop(nd, w, x - w)
                BY <3>1, <3>2, <4>1 DEF Stop
            <4> QED BY <1>7, <4>1, <4>2
        <3> QED BY <1>4, <1>5, <3>1, <3>3, <3>4, <3>5 DEF x
    <2>2. CASE w > right - w
        <3>1. ASSUME NEW q \in Gaps(nd) PROVE q \div W \in farleft
            BY <1>3, <1>4, <1>5, <2>1, <2>2
        <3>2. CASE farleft = {}
            <4>1. Gaps(nd) = {} /\ GapOutsideWord(nd, p) = -1
                BY <1>1, <1>7, <2>2, <3>1, <3>2
            <4> QED BY <4>1 DEF Nearest
        <3>3. CASE farleft # {}
            <4> DEFINE m == MaxOf(farleft)
                       g == LastGap(nd, m)
            <4>1. farleft \in SUBSET Int /\ w \in Int /\ \A x \in farleft : x <= w
                BY <1>4, <1>5
            <4>2. m \in farleft /\ m \in Int /\ \A y \in farleft : m >= y
                BY <3>3, <4>1, MaxOfIs
            <4>3. m \in Nat /\ m < w /\ ~IsFull(nd, m)
                <5>1. \A x \in farleft : x \in Nat /\ x < w /\ ~IsFull(nd, x)
                    BY <1>4, <1>5
                <5> HIDE DEF farleft, m
                <5> QED BY <4>2, <5>1
            <4>4. GapOutsideWord(nd, p) = g
                BY <1>1, <1>7, <2>2, <3>3
            <4> HIDE DEF farleft, m
            <4>5. g \in Int /\ m * W <= g /\ g < m * W + W /\ (g < nd.cap => g \in Gaps(nd))
                BY <4>3, EdgeGaps
            <4>6. g < p
                <5>1. m * W + W <= w * W /\ w * W \in Int /\ m * W \in Int /\ W \in Nat
                    BY <1>4, <4>3, Words, WIsPositive
                <5>2. w * W <= p
                    BY <1>2, InOneWord DEF In, w
                <5> QED BY <1>2, <4>5, <5>1, <5>2
            <4>7. g \in Gaps(nd)
                BY <1>2, <4>5, <4>6
            <4>8. \A q \in Gaps(nd) : q \in Int /\ q <= g
                <5>1. ASSUME NEW q \in Gaps(nd) PROVE q \in Int /\ q <= g
                    <6>1. q \div W <= m
                        BY <3>1, <4>2, <2>1
                    <6> QED BY <4>2, <6>1, GapsBeside, GapIs
                <5> QED BY <5>1
            <4> HIDE DEF g
            <4>9. \A q \in Gaps(nd) : Distance(p, g) <= Distance(p, q)
                BY <1>2, <4>5, <4>6, <4>8 DEF Distance
            <4> QED BY <4>4, <4>7, <4>9 DEF Nearest
        <3> QED BY <3>2, <3>3
    <2>3. CASE ~(w > right - w)
        <3>1. ASSUME NEW q \in Gaps(nd) PROVE q \div W \in farright
            <4>1. q \div W \in w + both + 1..right
                BY <1>3, <1>4, <1>5, <2>1, <2>3
            <4> QED BY <2>1, <4>1
        <3>2. CASE farright = {}
            <4>1. Gaps(nd) = {} /\ GapOutsideWord(nd, p) = -1
                BY <1>1, <1>7, <2>3, <3>1, <3>2
            <4> QED BY <4>1 DEF Nearest
        <3>3. CASE farright # {}
            <4> DEFINE m == MinOf(farright)
                       g == FirstGap(nd, m)
            <4>1. farright \in SUBSET Int /\ w \in Int /\ \A x \in farright : w <= x
                BY <1>3, <1>4, <1>5
            <4>2. m \in farright /\ m \in Int /\ \A y \in farright : m <= y
                BY <3>3, <4>1, MinOfIs
            <4>3. m \in Nat /\ m > w /\ ~IsFull(nd, m)
                <5>1. \A x \in farright : x \in Nat /\ x > w /\ ~IsFull(nd, x)
                    BY <1>3, <1>4, <1>5
                <5> HIDE DEF farright, m
                <5> QED BY <4>2, <5>1
            <4>4. GapOutsideWord(nd, p) = IF g >= nd.cap THEN -1 ELSE g
                BY <1>1, <1>7, <2>3, <3>3
            <4> HIDE DEF farright, m
            <4>5. g \in Int /\ m * W <= g /\ g < m * W + W /\ (g < nd.cap => g \in Gaps(nd))
                BY <4>3, EdgeGaps
            <4>6. g > p
                <5>1. w * W + W <= m * W /\ w * W \in Int /\ m * W \in Int /\ W \in Nat
                    BY <1>4, <4>3, Words, WIsPositive
                <5>2. p < w * W + W
                    BY <1>2, InOneWord DEF In, w
                <5> QED BY <1>2, <4>5, <5>1, <5>2
            <4>7. \A q \in Gaps(nd) : q \in Int /\ q >= g /\ q < nd.cap
                <5>1. ASSUME NEW q \in Gaps(nd) PROVE q \in Int /\ q >= g /\ q < nd.cap
                    <6>1. q \div W >= m
                        BY <3>1, <4>2, <2>1
                    <6> QED BY <4>2, <6>1, GapsBeside, GapIs
                <5> QED BY <5>1
            <4> HIDE DEF g
            <4>8. CASE g >= nd.cap
                <5>1. Gaps(nd) = {}
                    BY <1>2, <4>5, <4>7, <4>8
                <5> QED BY <4>4, <4>8, <5>1 DEF Nearest
            <4>9. CASE ~(g >= nd.cap)
                <5>1. g \in Gaps(nd)
                    BY <1>2, <4>5, <4>9
                <5>2. \A q \in Gaps(nd) : Distance(p, g) <= Distance(p, q)
                    BY <1>2, <4>5, <4>6, <4>7 DEF Distance
                <5> QED BY <4>4, <4>9, <5>1, <5>2 DEF Nearest
            <4> QED BY <4>8, <4>9
        <3> QED BY <3>2, <3>3
    <2> QED BY <2>2, <2>3
<1> QED BY <1>6, <1>7

\* closest_gap returns a gap, and none is closer.
LEMMA ClosestGapIs ==
    ASSUME NEW nd, BitsOK(nd), NEW pos \in 0..nd.cap
    PROVE  LET p == Minimum(pos, nd.cap - 1)
           IN  p \in Slots(nd) /\ Nearest(nd, p, closest_gap(nd, pos))
<1> DEFINE p == Minimum(pos, nd.cap - 1)
           w == p \div W
<1>1. nd.cap \in Nat /\ nd.cap >= 1
    BY GapIs
<1>2. p \in 0..nd.cap - 1 /\ p \in Nat
    BY <1>1 DEF Minimum
<1>3. p \in Slots(nd)
    BY <1>2 DEF Slots
<1> HIDE DEF p
<1>4. w \in Nat /\ w < bitmap_size(nd)
    <2>1. p \in Int /\ p >= 0 /\ p < nd.cap
        BY <1>1, <1>2
    <2>2. w \in Int /\ w >= 0
        BY <2>1, Words
    <2>3. bitmap_size(nd) \in Int /\ nd.cap <= bitmap_size(nd) * W
        BY BitmapSize
    <2>4. bitmap_size(nd) * W \in Int
        BY <2>3, Words
    <2>5. p < bitmap_size(nd) * W
        BY <1>1, <2>1, <2>3, <2>4
    <2>6. w < bitmap_size(nd)
        BY <2>1, <2>3, <2>5, InOneWord
    <2> QED BY <2>2, <2>6
<1>5. Filled(nd, w) <=> \/ IsFull(nd, w)
                        \/ /\ w = bitmap_size(nd) - 1
                           /\ Cardinality(Word(nd, w, {})) = nd.cap - w * W
    BY <1>4, FilledIs
<1>6. closest_gap(nd, pos) = IF Filled(nd, w) THEN GapOutsideWord(nd, p) ELSE GapNearWord(nd, p)
    BY <1>5 DEF closest_gap, p
<1>7. Nearest(nd, p, closest_gap(nd, pos))
    BY <1>3, <1>6, GapNearWordIs, GapOutsideWordIs
<1> QED BY <1>3, <1>7 DEF p

-----------------------------------------------------------------------------
(* The invariant. *)

Fields == {"cap", "n", "model", "bit", "key", "pay", "expand", "contract"}

\* The keys of the slots ascend.
Ascending(nd) == \A p, q \in Slots(nd) : p <= q => nd.key[p] <= nd.key[q]

\* A gap has the key of the slot behind it.
GapsFilledIn(nd) == \A p \in Gaps(nd) : nd.key[p] = KeyAfter(nd, p + 1)

\* Filled slots have keys; other slots may have the sentinel.
KeysOK(nd) == /\ nd.key \in [Slots(nd) -> Keys \cup {End}]
              /\ \A p \in nd.bit : nd.key[p] \in Keys

NodeOK(nd) ==
    /\ BitsOK(nd) /\ KeysOK(nd) /\ Ascending(nd) /\ GapsFilledIn(nd)
    /\ nd.n = Cardinality(nd.bit)
    /\ nd.model \in Models
    /\ nd.expand \in Int /\ nd.expand >= 1 /\ nd.expand <= nd.cap * 10
    /\ nd.contract \in Int
    /\ DOMAIN nd = Fields

\* The call in progress has its arguments.
CallOK(c) ==
    \/ c = NoCall
    \/ /\ c.op \in {"insert", "erase_one", "erase", "erase_range"} /\ c.key \in Keys
       /\ c.op = "insert" => c.payload \in Payloads
       /\ c.op = "erase_range" => c.finish \in Keys /\ c.inclusive \in BOOLEAN

IInv == NodeOK(node) /\ CallOK(pending) /\ (fail # 0 => pending.op = "insert")

LEMMA KeysAre ==
    /\ \A k \in Keys \cup {End} : k \in Int /\ k <= End
    /\ \A k \in Keys : k \in Int /\ k < End
    /\ End \in Int
    BY AlexDataNodeAssumption

LEMMA NodeIs ==
    ASSUME NEW nd, NodeOK(nd)
    PROVE  /\ BitsOK(nd) /\ nd.cap \in Nat /\ nd.cap >= 1
           /\ Slots(nd) = 0..nd.cap - 1
           /\ IsFiniteSet(nd.bit) /\ nd.n \in Nat /\ nd.n = Cardinality(nd.bit)
           /\ \A p \in nd.bit : p \in Int /\ 0 <= p /\ p < nd.cap /\ p \in Slots(nd) /\ nd.key[p] \in Keys
           /\ \A p \in Slots(nd) : nd.key[p] \in Int /\ nd.key[p] <= End
                                    /\ nd.key[p] \in Keys \cup {End}
<1>1. BitsOK(nd) /\ nd.cap \in Nat /\ nd.cap >= 1 /\ Slots(nd) = 0..nd.cap - 1
    BY DEF NodeOK, BitsOK, Slots
<1>2. IsFiniteSet(nd.bit) /\ Cardinality(nd.bit) \in Nat
    <2>1. nd.bit \in SUBSET (0..nd.cap - 1)
        BY <1>1 DEF BitsOK
    <2>2. IsFiniteSet(0..nd.cap - 1)
        BY <1>1, FS_Interval
    <2> QED BY <2>1, <2>2, FS_Subset, FS_CardinalityType
<1>3. \A p \in nd.bit : p \in Int /\ 0 <= p /\ p < nd.cap /\ p \in Slots(nd) /\ nd.key[p] \in Keys
    BY <1>1 DEF NodeOK, BitsOK, KeysOK
<1>4. \A p \in Slots(nd) : nd.key[p] \in Int /\ nd.key[p] <= End
                            /\ nd.key[p] \in Keys \cup {End}
    BY KeysAre DEF NodeOK, KeysOK
<1> QED BY <1>1, <1>2, <1>3, <1>4 DEF NodeOK

-----------------------------------------------------------------------------
(* The searches for a key. *)

\* u is the end of the slots whose key is lower (or equal).
IsBound(nd, low, u) == u \in 0..nd.cap /\ \A p \in Slots(nd) : p \in low <=> p < u
UpperSide(nd, key) == {p \in Slots(nd) : nd.key[p] <= key}
LowerSide(nd, key) == {p \in Slots(nd) : nd.key[p] < key}

\* A set of slots that is closed downwards has a bound, which is its size.
LEMMA BoundExists ==
    ASSUME NEW nd, nd.cap \in Nat, NEW low \in SUBSET Slots(nd),
           \A p, q \in Slots(nd) : p <= q /\ q \in low => p \in low
    PROVE  \E u : IsBound(nd, low, u) /\ Cardinality(low) = u
<1> DEFINE S == {p \in 0..nd.cap : p = nd.cap \/ p \notin low}
           u == MinOf(S)
<1>1. S \in SUBSET Int /\ S # {} /\ \A x \in S : 0 <= x
    OBVIOUS
<1>2. u \in S /\ u \in Int /\ \A y \in S : u <= y
    BY <1>1, MinOfIs, SMTT(20)
<1>3. u \in 0..nd.cap
    BY <1>2
<1>4. ASSUME NEW p \in Slots(nd) PROVE p \in low <=> p < u
    <2>1. p \in 0..nd.cap /\ p \in Int /\ p < nd.cap
        BY DEF Slots
    <2>2. p \notin low => u <= p
        BY <1>2, <2>1
    <2>3. u <= p => p \notin low
        <3>1. CASE u <= p
            <4>1. u \in Slots(nd) /\ u # nd.cap
                BY <1>3, <2>1, <3>1 DEF Slots
            <4>2. u \notin low
                BY <1>2, <4>1
            <4> QED BY <3>1, <4>1, <4>2
        <3> QED BY <3>1
    <2> HIDE DEF u
    <2> QED BY <1>3, <2>1, <2>2, <2>3
<1> HIDE DEF u
<1>5. low = 0..u - 1
    <2>1. \A p \in low : p \in 0..u - 1
        BY <1>3, <1>4 DEF Slots
    <2>2. \A p \in 0..u - 1 : p \in Slots(nd) /\ p < u
        BY <1>3 DEF Slots
    <2> QED BY <1>4, <2>1, <2>2
<1>6. Cardinality(low) = u
    BY <1>3, <1>5, FS_Interval
<1> QED BY <1>3, <1>4, <1>6 DEF IsBound

\* A bound is what the exponential search finds from any slot.
LEMMA SearchFinds ==
    ASSUME NEW nd, nd.cap \in Nat, NEW low, NEW u, IsBound(nd, low, u), NEW m \in Slots(nd)
    PROVE  ExponentialSearch(nd.cap, m, low) = u
<1>1. m \in 0..nd.cap - 1 /\ u \in 0..nd.cap /\ \A p \in 0..nd.cap - 1 : p \in low <=> p < u
    BY DEF IsBound, Slots
<1> QED BY <1>1, ExponentialSearchIs

LEMMA PredictIs ==
    ASSUME NEW model \in Models, NEW k \in Int
    PROVE  predict(model, k) \in Int
<1>1. model[1] \in Int /\ model[2] \in Int
    BY AlexDataNodeAssumption
<1>2. \A a, b, c \in Int : a * b + c \in Int
    OBVIOUS
<1> QED BY <1>1, <1>2 DEF predict

LEMMA PredictPositionIs ==
    ASSUME NEW nd, NodeOK(nd), NEW k \in Int
    PROVE  predict_position(nd, k) \in Slots(nd)
<1>1. nd.cap \in Nat /\ nd.cap >= 1
    BY NodeIs
<1>2. predict(nd.model, k) \in Int
    BY PredictIs DEF NodeOK
<1> QED BY <1>1, <1>2 DEF predict_position, Maximum, Minimum, Slots

\* The bounds of a key.
LEMMA BoundsOf ==
    ASSUME NEW nd, NodeOK(nd), NEW key \in Keys
    PROVE  /\ \E u : IsBound(nd, UpperSide(nd, key), u) /\ Cardinality(UpperSide(nd, key)) = u
           /\ \E l : IsBound(nd, LowerSide(nd, key), l) /\ Cardinality(LowerSide(nd, key)) = l
<1>1. key \in Int
    BY KeysAre
<1>2. nd.cap \in Nat /\ \A p \in Slots(nd) : nd.key[p] \in Int
    BY NodeIs
<1>3. \A p, q \in Slots(nd) : p <= q => nd.key[p] <= nd.key[q]
    BY DEF NodeOK, Ascending
<1>4. \A p, q \in Slots(nd) : p <= q /\ q \in UpperSide(nd, key) => p \in UpperSide(nd, key)
    BY <1>1, <1>2, <1>3 DEF UpperSide
<1>5. \A p, q \in Slots(nd) : p <= q /\ q \in LowerSide(nd, key) => p \in LowerSide(nd, key)
    BY <1>1, <1>2, <1>3 DEF LowerSide
<1>6. UpperSide(nd, key) \in SUBSET Slots(nd) /\ LowerSide(nd, key) \in SUBSET Slots(nd)
    BY DEF UpperSide, LowerSide
<1> QED BY <1>2, <1>4, <1>5, <1>6, BoundExists

LEMMA BoundsFound ==
    ASSUME NEW nd, NodeOK(nd), NEW key \in Keys
    PROVE  /\ IsBound(nd, UpperSide(nd, key), upper_bound(nd, key))
           /\ IsBound(nd, LowerSide(nd, key), lower_bound(nd, key))
<1>1. PICK u : IsBound(nd, UpperSide(nd, key), u)
    BY BoundsOf
<1>2. PICK l : IsBound(nd, LowerSide(nd, key), l)
    BY BoundsOf
<1>3. predict_position(nd, key) \in Slots(nd) /\ nd.cap \in Nat
    BY KeysAre, PredictPositionIs, NodeIs
<1>4. upper_bound(nd, key) = u
    BY <1>1, <1>3, SearchFinds DEF upper_bound, exponential_search_upper_bound, UpperSide
<1>5. lower_bound(nd, key) = l
    BY <1>2, <1>3, SearchFinds DEF lower_bound, exponential_search_lower_bound, LowerSide
<1> QED BY <1>1, <1>2, <1>4, <1>5

\* A slot whose key differs from the one behind it is filled.
LEMMA FilledBeforeStep ==
    ASSUME NEW nd, NodeOK(nd), NEW p \in Slots(nd), KeyAfter(nd, p + 1) # nd.key[p]
    PROVE  p \in nd.bit
    BY DEF NodeOK, GapsFilledIn, Gaps

-----------------------------------------------------------------------------
(* The next filled slot. *)

\* q is the first filled slot from p on, or behind the array.
FirstFilled(nd, p, q) ==
    IF \E r \in nd.bit : r >= p
    THEN q \in nd.bit /\ q >= p /\ \A r \in nd.bit : r >= p => q <= r
    ELSE q \in Int /\ q >= nd.cap

\* A filled slot is a bit of its word.
LEMMA BitOfWord ==
    ASSUME NEW nd, BitsOK(nd), NEW past, NEW r \in nd.bit
    PROVE  LET v == r \div W
           IN  /\ v \in Nat /\ v < bitmap_size(nd) /\ r \in Int /\ r % W \in 0..W - 1
               /\ r % W \in Word(nd, v, past) /\ r = v * W + (r % W)
<1> DEFINE v == r \div W
           b == r % W
           bs == bitmap_size(nd)
<1>1. r \in Int /\ r >= 0 /\ r < nd.cap /\ nd.cap \in Int
    BY DEF BitsOK, Slots
<1>2. v \in Int /\ v >= 0 /\ b \in 0..W - 1 /\ r = v * W + b
    BY <1>1, Words
<1>3. bs \in Int /\ nd.cap <= bs * W
    BY BitmapSize
<1>4. bs * W \in Int
    BY <1>3, Words
<1>5. r < bs * W
    BY <1>1, <1>3, <1>4
<1>6. v < bs
    BY <1>1, <1>3, <1>5, InOneWord
<1>7. b \in Word(nd, v, past)
    <2> HIDE DEF v, b
    <2> QED BY <1>2, <1>6 DEF Word, bs
<1> QED BY <1>1, <1>2, <1>6, <1>7

\* The filled slots of word w.
LEMMA SlotOfBit ==
    ASSUME NEW nd, BitsOK(nd), NEW past, NEW w \in Int, w < bitmap_size(nd),
           NEW b \in Word(nd, w, past)
    PROVE  b \in 0..W - 1 /\ w * W + b \in nd.bit
    BY DEF Word

LEMMA NextFilledIs ==
    ASSUME NEW nd, BitsOK(nd), NEW pos \in 0..nd.cap, NEW exclusive \in BOOLEAN,
           exclusive => pos < nd.cap, NEW past \in SUBSET (0..W - 1)
    PROVE  LET from == IF exclusive THEN pos + 1 ELSE pos
               q == get_next_filled_position(nd, pos, exclusive, past)
           IN  FirstFilled(nd, from, q) /\ q \in Nat /\ (past = {} => q <= nd.cap)
<1> DEFINE from == IF exclusive THEN pos + 1 ELSE pos
           bs == bitmap_size(nd)
           v == from \div W
           top == Maximum(v, bs - 1)
           Has(w) == \E b \in Word(nd, w, past) : w * W + b >= from
           first == {w \in v..top : Has(w)}
           Bits(w) == {q \in {w * W + b : b \in Word(nd, w, past)} : q >= from}
           g == get_next_filled_position(nd, pos, exclusive, past)
<1>1. nd.cap \in Nat /\ nd.cap >= 1 /\ from \in Int /\ from >= 0 /\ from <= nd.cap
    BY DEF BitsOK
<1>2. v \in Int /\ v >= 0 /\ bs \in Int /\ bs >= 1 /\ top \in Int /\ v <= top /\ bs - 1 <= top
    <2>1. v \in Int /\ v >= 0
        BY <1>1, Words
    <2>2. bs \in Int /\ bs >= 1
        BY BitmapSize
    <2> HIDE DEF v, bs
    <2> QED BY <2>1, <2>2 DEF Maximum
<1>3. g = IF (exclusive /\ from = nd.cap) \/ first = {} THEN nd.cap ELSE MinOf(Bits(MinOf(first)))
    BY DEF get_next_filled_position
<1> HIDE DEF from, bs, v, top, g
<1>4. \A r \in nd.bit : r \in Int /\ r >= 0 /\ r < nd.cap
    BY DEF BitsOK, Slots
<1>5. ASSUME NEW r \in nd.bit, r >= from
      PROVE  r \div W \in first
    <2> DEFINE x == r \div W
    <2>1. x \in Int /\ x < bs /\ r % W \in Word(nd, x, past) /\ r = x * W + (r % W)
        BY BitOfWord DEF bs
    <2>2. x >= v
        <3>0. In(from, v)
            BY <1>1, InOneWord DEF v
        <3>1. v * W \in Int /\ v * W <= from
            BY <1>2, <3>0, Words DEF In
        <3>2. r >= v * W
            BY <1>1, <1>4, <1>5, <3>1
        <3> QED BY <1>2, <1>4, <3>2, InOneWord
    <2>3. Has(x)
        BY <1>5, <2>1
    <2> HIDE DEF x, Has
    <2>4. x \in v..top
        BY <1>2, <2>1, <2>2
    <2>5. x \in first
        BY <2>3, <2>4
    <2> QED BY <2>5 DEF x
<1>6. CASE first = {} \/ (exclusive /\ from = nd.cap)
    <2>1. g = nd.cap
        BY <1>3, <1>6
    <2>2. ~ \E r \in nd.bit : r >= from
        BY <1>1, <1>4, <1>5, <1>6
    <2> QED BY <1>1, <2>1, <2>2 DEF FirstFilled, from, g
<1>7. CASE ~(first = {} \/ (exclusive /\ from = nd.cap))
    <2> DEFINE w == MinOf(first)
    <2>1. w \in first /\ w \in Int /\ \A y \in first : w <= y
        <3>1. first \in SUBSET Int /\ \A x \in first : v <= x
            BY <1>2
        <3> QED BY <1>2, <1>7, <3>1, MinOfIs
    <2> HIDE DEF w, Has
    <2>2. w \in Int /\ w >= v /\ w <= top /\ Has(w)
        BY <1>2, <2>1
    <2> USE DEF Has
    <2>3. Word(nd, w, past) \in SUBSET (0..W - 1)
        BY DEF Word
    <2>4. w * W \in Int /\ W \in Nat
        BY <2>2, Words, WIsPositive
    <2>5. Bits(w) \in SUBSET Int /\ Bits(w) # {} /\ \A x \in Bits(w) : x >= from
        BY <2>2, <2>3, <2>4
    <2>6. MinOf(Bits(w)) \in Bits(w) /\ MinOf(Bits(w)) \in Int /\ \A y \in Bits(w) : MinOf(Bits(w)) <= y
        BY <1>1, <2>5, MinOfIs
    <2>7. g = MinOf(Bits(w))
        BY <1>3, <1>7 DEF w
    <2>8. PICK c \in Word(nd, w, past) : g = w * W + c
        BY <2>6, <2>7
    <2>9. g \in Nat /\ g >= from
        BY <1>1, <2>5, <2>6, <2>7
    <2>10. CASE w < bs
        <3>1. g \in nd.bit
            BY <2>2, <2>8, <2>10, SlotOfBit DEF bs
        <3>2. ASSUME NEW r \in nd.bit, r >= from PROVE g <= r
            <4>1. r \div W \in first
                BY <1>5, <3>2
            <4> DEFINE x == r \div W
            <4>2. x \in Int /\ r \in Int /\ r % W \in Word(nd, x, past) /\ r = x * W + (r % W)
                BY BitOfWord
            <4>3. w <= x
                BY <2>1, <4>1
            <4> HIDE DEF x
            <4>4. CASE x = w
                <5>1. r \in Bits(w)
                    BY <3>2, <4>2, <4>4
                <5> QED BY <2>6, <2>7, <5>1
            <4>5. CASE x # w
                <5>1. w * W + W <= x * W /\ x * W \in Int
                    BY <2>2, <4>2, <4>3, <4>5, Words
                <5>2. c \in 0..W - 1 /\ r % W \in 0..W - 1
                    BY <2>3, <4>2, Words
                <5> QED BY <2>4, <2>8, <4>2, <5>1, <5>2
            <4> QED BY <4>4, <4>5
        <3>3. \E r \in nd.bit : r >= from
            BY <2>9, <3>1
        <3>4. g <= nd.cap
            BY <1>1, <1>4, <3>1
        <3> QED BY <2>9, <3>1, <3>2, <3>3, <3>4 DEF FirstFilled, from, g
    <2>11. CASE ~(w < bs)
        <3>1. w >= bs /\ v >= bs
            BY <1>2, <2>2, <2>11 DEF Maximum, top
        <3>2. v * W >= bs * W /\ v * W <= from /\ bs * W \in Int /\ v * W \in Int /\ nd.cap <= bs * W
            <4>1. v * W \in Int /\ v * W <= from /\ bs * W \in Int
                BY <1>1, <1>2, InOneWord, Words DEF v, In
            <4>2. nd.cap <= bs * W
                BY BitmapSize DEF bs
            <4>3. v = bs \/ bs * W + W <= v * W
                BY <1>2, <3>1, Words
            <4>4. v * W >= bs * W
                BY <4>1, <4>3, WIsPositive
            <4> QED BY <4>1, <4>2, <4>4
        <3>3. from >= nd.cap
            BY <1>1, <3>2
        <3>4. ~ \E r \in nd.bit : r >= from
            BY <1>1, <1>4, <3>3
        <3>5. past # {}
            <4>1. Word(nd, w, past) = past
                BY <2>11 DEF Word, bs
            <4> QED BY <2>8, <4>1
        <3>6. g >= nd.cap
            BY <1>1, <2>9, <3>3
        <3>7. FirstFilled(nd, from, g)
            BY <2>9, <3>4, <3>6 DEF FirstFilled
        <3> QED BY <2>9, <3>5, <3>7 DEF from, g
    <2> QED BY <2>10, <2>11
<1> QED BY <1>6, <1>7

-----------------------------------------------------------------------------
(* Inserts. *)

\* The same fields, but for the slots.
SameFrame(nd, x) ==
    /\ x.cap = nd.cap /\ x.model = nd.model /\ x.expand = nd.expand /\ x.contract = nd.contract
    /\ DOMAIN x = Fields

InsertFrom(nd, pos) ==
    LET before == {p \in nd.bit : p < pos}
    IN  IF before = {} THEN 0 ELSE MaxOf(before) + 1

LEMMA InsertFields ==
    ASSUME NEW nd, DOMAIN nd = Fields, NEW key, NEW payload, NEW pos
    PROVE  LET x == insert_element_at(nd, key, payload, pos)
               from == InsertFrom(nd, pos)
           IN  /\ SameFrame(nd, x) /\ x.n = nd.n
               /\ x.bit = nd.bit \cup {pos}
               /\ x.key = [p \in Slots(nd) |-> IF p \in from..pos THEN key ELSE nd.key[p]]
    BY DEF insert_element_at, InsertFrom, SameFrame, Fields

LEMMA InsertFromIs ==
    ASSUME NEW nd, BitsOK(nd), NEW pos \in Nat
    PROVE  LET from == InsertFrom(nd, pos)
           IN  /\ from \in Nat /\ from <= pos
               /\ from = 0 \/ from - 1 \in nd.bit
               /\ \A p \in nd.bit : p < pos => p < from
<1> DEFINE before == {p \in nd.bit : p < pos}
           from == InsertFrom(nd, pos)
<1>1. \A p \in nd.bit : p \in Nat
    BY DEF BitsOK, Slots
<1>2. CASE before = {}
    <2>1. from = 0
        BY <1>2 DEF InsertFrom
    <2> QED BY <1>1, <1>2, <2>1
<1>3. CASE before # {}
    <2>1. before \in SUBSET Int /\ \A x \in before : x <= pos
        BY <1>1
    <2>3. from = MaxOf(before) + 1
        BY <1>3 DEF InsertFrom
    <2>0. \A p \in nd.bit : p < pos => p \in before
        OBVIOUS
    <2> HIDE DEF before, from
    <2>2. MaxOf(before) \in before /\ MaxOf(before) \in Int /\ \A y \in before : MaxOf(before) >= y
        <3>1. pos \in Int
            OBVIOUS
        <3> QED BY <1>3, <2>1, <3>1, MaxOfIs
    <2>4. \A p \in nd.bit : p < pos => p < from
        BY <1>1, <2>0, <2>2, <2>3
    <2> USE DEF before
    <2>5. MaxOf(before) \in nd.bit /\ MaxOf(before) < pos
        BY <2>2
    <2> HIDE DEF before
    <2>6. from \in Nat /\ from <= pos /\ from - 1 = MaxOf(before)
        BY <1>1, <2>2, <2>3, <2>5
    <2> QED BY <2>4, <2>5, <2>6 DEF from
<1> QED BY <1>2, <1>3

\* A node is as it should be but for the slot pos, where key k belongs, and the
\* gaps before it.
OKBut(nd, pos, k) ==
    /\ BitsOK(nd) /\ pos \in Slots(nd) /\ k \in Keys
    /\ nd.key \in [Slots(nd) -> Keys \cup {End}]
    /\ \A p \in nd.bit : p # pos => nd.key[p] \in Keys
    /\ \A p \in nd.bit : p < pos => nd.key[p] <= k
    /\ \A p \in Slots(nd) : p > pos => k <= nd.key[p]
    /\ \A p, q \in Slots(nd) : p <= q /\ (q < pos \/ p > pos) => nd.key[p] <= nd.key[q]
    /\ \A p \in Gaps(nd) : p > pos \/ p + 1 < pos => nd.key[p] = KeyAfter(nd, p + 1)

LEMMA InsertElementIs ==
    ASSUME NEW nd, DOMAIN nd = Fields, NEW pos, NEW k, OKBut(nd, pos, k), NEW payload
    PROVE  LET x == insert_element_at(nd, k, payload, pos)
           IN  /\ SameFrame(nd, x) /\ x.n = nd.n /\ x.bit = nd.bit \cup {pos}
               /\ BitsOK(x) /\ KeysOK(x) /\ Ascending(x) /\ GapsFilledIn(x)
<1> DEFINE x == insert_element_at(nd, k, payload, pos)
           from == InsertFrom(nd, pos)
<1>1. /\ SameFrame(nd, x) /\ x.n = nd.n /\ x.bit = nd.bit \cup {pos} /\ x.cap = nd.cap
      /\ x.key = [p \in Slots(nd) |-> IF p \in from..pos THEN k ELSE nd.key[p]]
    BY InsertFields DEF SameFrame
<1>2. nd.cap \in Nat /\ pos \in Nat /\ pos < nd.cap /\ nd.cap >= 1
    BY DEF OKBut, BitsOK, Slots
<1>3. /\ from \in Nat /\ from <= pos
      /\ from = 0 \/ from - 1 \in nd.bit
      /\ \A p \in nd.bit : p < pos => p < from
    BY <1>2, InsertFromIs DEF OKBut
<1> HIDE DEF x, from
<1>4. Slots(x) = Slots(nd) /\ Slots(nd) = 0..nd.cap - 1
    BY <1>1 DEF Slots
<1>5. \A p \in Slots(nd) : /\ p \in from..pos => x.key[p] = k
                           /\ p \notin from..pos => x.key[p] = nd.key[p]
    BY <1>1
<1>6. BitsOK(x)
    BY <1>1, <1>4 DEF OKBut, BitsOK
<1>7. k \in Int /\ \A p \in Slots(nd) : nd.key[p] \in Int /\ nd.key[p] \in Keys \cup {End}
    BY KeysAre DEF OKBut
<1>8. KeysOK(x)
    <2>1. x.key \in [Slots(x) -> Keys \cup {End}]
        BY <1>1, <1>4, <1>7 DEF OKBut
    <2>2. ASSUME NEW p \in x.bit PROVE x.key[p] \in Keys
        <3>1. p \in Slots(nd)
            BY <1>4, <1>6 DEF BitsOK
        <3>2. p = pos => p \in from..pos
            BY <1>2, <1>3
        <3>3. p # pos => p \in nd.bit /\ nd.key[p] \in Keys
            BY <1>1, <2>2 DEF OKBut
        <3>4. k \in Keys
            BY DEF OKBut
        <3> QED BY <1>5, <3>1, <3>2, <3>3, <3>4
    <2> QED BY <2>1, <2>2 DEF KeysOK
<1>9. ASSUME NEW p \in Slots(nd), p < from PROVE nd.key[p] <= k /\ p < pos
    <2>1. from - 1 \in nd.bit /\ from - 1 \in Slots(nd) /\ p <= from - 1 /\ from - 1 < pos /\ from - 1 \in Int
        BY <1>2, <1>3, <1>4, <1>9 DEF OKBut, BitsOK
    <2>2. nd.key[p] <= nd.key[from - 1] /\ nd.key[from - 1] <= k
        BY <2>1 DEF OKBut
    <2>3. nd.key[p] \in Int /\ nd.key[from - 1] \in Int
        BY <1>7, <2>1
    <2>4. nd.key[p] <= k
        BY <1>7, <2>2, <2>3
    <2>5. p < pos
        BY <1>2, <1>3, <1>4, <1>9
    <2> QED BY <2>4, <2>5
<1>10. ASSUME NEW p \in Slots(nd), NEW q \in Slots(nd), p <= q PROVE x.key[p] <= x.key[q]
    <2>1. p \in Int /\ q \in Int
        BY <1>4
    <2>2. CASE p < from
        <3>1. x.key[p] = nd.key[p] /\ nd.key[p] <= k /\ p < pos
            BY <1>3, <1>5, <1>9, <2>1, <2>2
        <3>2. CASE q < from
            <4>1. x.key[q] = nd.key[q] /\ q < pos
                BY <1>3, <1>5, <1>9, <2>1, <3>2
            <4> QED BY <1>10, <3>1, <4>1 DEF OKBut
        <3>3. CASE q \in from..pos
            BY <1>5, <3>1, <3>3
        <3>4. CASE q > pos
            <4>1. x.key[q] = nd.key[q] /\ k <= nd.key[q]
                BY <1>2, <1>3, <1>5, <2>1, <3>4 DEF OKBut
            <4> QED BY <1>7, <3>1, <4>1
        <3> QED BY <1>2, <1>3, <2>1, <3>2, <3>3, <3>4
    <2>3. CASE p \in from..pos
        <3>1. x.key[p] = k
            BY <1>5, <2>3
        <3>2. CASE q \in from..pos
            BY <1>5, <1>7, <3>1, <3>2
        <3>3. CASE q > pos
            <4>1. x.key[q] = nd.key[q] /\ k <= nd.key[q]
                BY <1>2, <1>3, <1>5, <2>1, <3>3 DEF OKBut
            <4> QED BY <3>1, <4>1
        <3> QED BY <1>2, <1>3, <1>10, <2>1, <2>3, <3>2, <3>3
    <2>4. CASE p > pos
        <3>1. x.key[p] = nd.key[p] /\ x.key[q] = nd.key[q]
            BY <1>2, <1>3, <1>5, <1>10, <2>1, <2>4
        <3> QED BY <1>10, <2>4, <3>1 DEF OKBut
    <2> QED BY <1>2, <1>3, <2>1, <2>2, <2>3, <2>4
<1>11. ASSUME NEW p \in Gaps(x) PROVE x.key[p] = KeyAfter(x, p + 1)
    <2>1. p \in Slots(nd) /\ p \in Gaps(nd) /\ p # pos /\ p \in Int /\ 0 <= p /\ p < nd.cap
        <3>1. p \in Slots(nd) /\ p \notin x.bit
            BY <1>4 DEF Gaps
        <3>2. p \notin nd.bit /\ p # pos
            BY <1>1, <3>1
        <3>3. p \in 0..nd.cap - 1
            BY <1>4, <3>1
        <3> QED BY <1>2, <3>1, <3>2, <3>3 DEF Gaps
    <2>2. CASE p < from
        <3>1. p + 1 < from /\ p + 1 < pos /\ p + 1 \in Slots(nd)
            BY <1>2, <1>3, <1>4, <2>1, <2>2 DEF Gaps
        <3>2. nd.key[p] = KeyAfter(nd, p + 1)
            BY <2>1, <3>1 DEF OKBut
        <3>3. x.key[p] = nd.key[p] /\ x.key[p + 1] = nd.key[p + 1]
            BY <1>3, <1>5, <2>1, <2>2, <3>1
        <3> QED BY <1>1, <1>2, <1>4, <3>1, <3>2, <3>3 DEF KeyAfter
    <2>3. CASE p \in from..pos
        <3>1. p + 1 \in from..pos /\ p + 1 \in Slots(nd)
            BY <1>2, <1>3, <1>4, <2>1, <2>3
        <3>2. x.key[p] = k /\ x.key[p + 1] = k
            BY <1>5, <2>1, <2>3, <3>1
        <3> QED BY <1>1, <1>2, <1>4, <3>1, <3>2 DEF KeyAfter
    <2>4. CASE p > pos
        <3>1. nd.key[p] = KeyAfter(nd, p + 1)
            BY <2>1, <2>4 DEF OKBut
        <3>2. x.key[p] = nd.key[p]
            BY <1>2, <1>3, <1>5, <2>1, <2>4
        <3>3. p + 1 < nd.cap => x.key[p + 1] = nd.key[p + 1]
            <4>1. CASE p + 1 < nd.cap
                <5>1. p + 1 \in Slots(nd) /\ p + 1 \notin from..pos
                    BY <1>2, <1>3, <1>4, <2>1, <2>4, <4>1
                <5> QED BY <1>5, <5>1
            <4> QED BY <4>1
        <3> QED BY <1>1, <1>2, <2>1, <3>1, <3>2, <3>3 DEF KeyAfter
    <2> QED BY <1>2, <1>3, <2>1, <2>2, <2>3, <2>4
<1>12. Ascending(x) /\ GapsFilledIn(x)
    BY <1>4, <1>10, <1>11 DEF Ascending, GapsFilledIn
<1> QED BY <1>1, <1>6, <1>8, <1>12 DEF x

\* What an upper bound says of the keys.
LEMMA UpperIs ==
    ASSUME NEW nd, NodeOK(nd), NEW k \in Keys, NEW u, IsBound(nd, UpperSide(nd, k), u)
    PROVE  /\ u \in Nat /\ u <= nd.cap /\ k \in Int
           /\ \A p \in Slots(nd) : p < u => nd.key[p] <= k
           /\ \A p \in Slots(nd) : p >= u => nd.key[p] > k
<1>1. u \in 0..nd.cap /\ nd.cap \in Nat /\ k \in Int
    BY NodeIs, KeysAre DEF IsBound
<1>2. \A p \in Slots(nd) : p \in Int /\ nd.key[p] \in Int
    BY <1>1, NodeIs DEF Slots
<1>3. \A p \in Slots(nd) : nd.key[p] <= k <=> p < u
    BY DEF IsBound, UpperSide
<1> QED BY <1>1, <1>2, <1>3

\* find_insert_position returns the upper bound, or a gap behind it with no
\* filled slot in between.
LEMMA InsertPositionIs ==
    ASSUME NEW nd, NodeOK(nd), NEW k \in Keys, NEW u, IsBound(nd, UpperSide(nd, k), u)
    PROVE  LET pos == find_insert_position(nd, k)[1]
           IN  \/ pos = u
               \/ pos \in Gaps(nd) /\ u <= pos /\ \A r \in nd.bit : r < u \/ r > pos
<1> DEFINE m == predict_position(nd, k)
           pos == find_insert_position(nd, k)[1]
           nx == get_next_filled_position(nd, u, TRUE, {})
<1>1. m \in Slots(nd) /\ nd.cap \in Nat /\ BitsOK(nd) /\ Slots(nd) = 0..nd.cap - 1
    BY KeysAre, PredictPositionIs, NodeIs
<1>2. exponential_search_upper_bound(nd, m, k) = u
    BY <1>1, SearchFinds DEF exponential_search_upper_bound, UpperSide
<1>3. u \in Nat /\ u <= nd.cap
    BY UpperIs
<1> HIDE DEF m
<1>4. find_insert_position(nd, k) =
        IF m <= u THEN <<u, u>> ELSE IF u \in nd.bit THEN <<u, u>> ELSE <<Minimum(m, nx - 1), u>>
    BY <1>2 DEF find_insert_position, check_exists, m
<1>5. CASE m <= u \/ u \in nd.bit
    <2>1. find_insert_position(nd, k) = <<u, u>>
        BY <1>4, <1>5
    <2> QED BY <2>1
<1>6. CASE ~(m <= u) /\ u \notin nd.bit
    <2>1. u < nd.cap /\ m \in Int /\ u < m /\ m < nd.cap
        BY <1>1, <1>3, <1>6
    <2>2. FirstFilled(nd, u + 1, nx) /\ nx \in Nat
        <3>1. u \in 0..nd.cap /\ {} \in SUBSET (0..W - 1)
            BY <1>1, <1>3
        <3> QED BY <1>1, <2>1, <3>1, NextFilledIs
    <2>3. pos = Minimum(m, nx - 1)
        BY <1>4, <1>6
    <2> HIDE DEF pos, nx
    <2>4. \A r \in nd.bit : r \in Int /\ r < nd.cap /\ r # u
        BY <1>6, NodeIs
    <2>5. nx >= u + 1 /\ \A r \in nd.bit : r <= u \/ r >= nx
        BY <1>1, <1>3, <2>1, <2>2, <2>4 DEF FirstFilled
    <2>6. pos \in Int /\ u <= pos /\ pos < nx /\ pos < nd.cap
        BY <1>1, <1>3, <2>1, <2>2, <2>3, <2>5 DEF Minimum
    <2>7. \A r \in nd.bit : r < u \/ r > pos
        BY <1>3, <2>2, <2>4, <2>5, <2>6
    <2>8. pos \in Gaps(nd)
        <3>1. pos \notin nd.bit
            BY <1>3, <2>6, <2>7
        <3> QED BY <1>1, <1>3, <2>6, <3>1 DEF Gaps
    <2> QED BY <2>6, <2>7, <2>8 DEF pos
<1> QED BY <1>5, <1>6

\* A gap behind the upper bound takes the key.
LEMMA GapTakesKey ==
    ASSUME NEW nd, NodeOK(nd), NEW k \in Keys, NEW u, IsBound(nd, UpperSide(nd, k), u),
           NEW pos \in Gaps(nd), u <= pos, \A r \in nd.bit : r < u \/ r > pos
    PROVE  OKBut(nd, pos, k)
<1>1. u \in Nat /\ u \in Int /\ k \in Int /\ BitsOK(nd)
    <2>1. u \in Nat /\ k \in Int /\ BitsOK(nd)
        BY UpperIs, NodeIs
    <2> QED BY <2>1
<1>2. pos \in Slots(nd) /\ pos \in Int /\ \A p \in Slots(nd) : p \in Int /\ nd.key[p] \in Int
    BY NodeIs DEF Gaps
<1>3. \A p \in nd.bit : nd.key[p] \in Keys /\ p \in Slots(nd)
    BY NodeIs
<1>4. \A p \in nd.bit : p < pos => nd.key[p] <= k
    <2>1. ASSUME NEW p \in nd.bit, p < pos PROVE nd.key[p] <= k
        <3>1. p \in Int /\ p \in Slots(nd) /\ pos \in Int
            BY <1>2, <1>3
        <3>2. ~(p > pos)
            BY <2>1, <3>1
        <3>3. p < u
            BY <3>2
        <3> QED BY <3>1, <3>3, UpperIs
    <2> QED BY <2>1
<1>5. \A p \in Slots(nd) : p > pos => k <= nd.key[p]
    <2>1. ASSUME NEW p \in Slots(nd), p > pos PROVE k <= nd.key[p]
        <3>0. p \in Int /\ pos \in Int /\ u \in Int
            BY <1>1, <1>2, Zenon
        <3>1. p >= u
            BY <2>1, <3>0
        <3>2. nd.key[p] > k
            BY <3>1, UpperIs
        <3>3. nd.key[p] \in Int
            BY <1>2
        <3> QED BY <1>1, <3>2, <3>3
    <2> QED BY <2>1
<1>6. \A p, q \in Slots(nd) : p <= q /\ (q < pos \/ p > pos) => nd.key[p] <= nd.key[q]
    BY DEF NodeOK, Ascending
<1>7. \A p \in Gaps(nd) : p > pos \/ p + 1 < pos => nd.key[p] = KeyAfter(nd, p + 1)
    BY DEF NodeOK, GapsFilledIn
<1>8. nd.key \in [Slots(nd) -> Keys \cup {End}]
    BY DEF NodeOK, KeysOK
<1> QED BY <1>1, <1>2, <1>3, <1>4, <1>5, <1>6, <1>7, <1>8 DEF OKBut

\* What moves towards the gap.
MovedBy(nd, f, gap, pos) ==
    [p \in Slots(nd) |->
        IF gap >= pos /\ p \in pos + 1..gap THEN f[p - 1]
        ELSE IF gap < pos /\ p \in gap..pos - 2 THEN f[p + 1]
        ELSE f[p]]

Moved(nd, gap, pos) ==
    [nd EXCEPT !.key = MovedBy(nd, nd.key, gap, pos), !.pay = MovedBy(nd, nd.pay, gap, pos),
               !.bit = nd.bit \cup {gap}]

LEMMA MovedFields ==
    ASSUME NEW nd, DOMAIN nd = Fields, NEW gap, NEW pos
    PROVE  LET x == Moved(nd, gap, pos)
           IN  /\ SameFrame(nd, x) /\ x.n = nd.n /\ x.bit = nd.bit \cup {gap}
               /\ x.key = MovedBy(nd, nd.key, gap, pos) /\ x.pay = MovedBy(nd, nd.pay, gap, pos)
    BY DEF Moved, SameFrame, Fields

LEMMA ShiftsAre ==
    ASSUME NEW nd, NEW key, NEW payload, NEW pos
    PROVE  LET gap == closest_gap(nd, pos)
           IN  insert_using_shifts(nd, key, payload, pos)
                 = insert_element_at(Moved(nd, gap, pos), key, payload, IF gap >= pos THEN pos ELSE pos - 1)
    BY DEF insert_using_shifts, Moved, MovedBy

\* The slots between the position and the gap move to the right.
LEMMA MovedRight ==
    ASSUME NEW nd, NodeOK(nd), NEW k \in Keys, NEW u, IsBound(nd, UpperSide(nd, k), u),
           NEW gap \in Gaps(nd), u < gap, \A p \in Slots(nd) : u <= p /\ p < gap => p \in nd.bit
    PROVE  OKBut(Moved(nd, gap, u), u, k)
<1> DEFINE x == Moved(nd, gap, u)
<1>1. /\ u \in Nat /\ k \in Int /\ BitsOK(nd) /\ nd.cap \in Nat /\ Slots(nd) = 0..nd.cap - 1
      /\ gap \in Slots(nd) /\ gap \in Int /\ gap < nd.cap /\ gap \notin nd.bit
    BY UpperIs, NodeIs DEF Gaps
<1>2. \A p \in Slots(nd) : p \in Int /\ nd.key[p] \in Int /\ nd.key[p] \in Keys \cup {End}
    BY <1>1, NodeIs
<1>3. x.bit = nd.bit \cup {gap} /\ x.cap = nd.cap /\ x.key = MovedBy(nd, nd.key, gap, u)
    BY MovedFields DEF NodeOK, SameFrame
<1> HIDE DEF x
<1>4. Slots(x) = Slots(nd)
    BY <1>3 DEF Slots
<1>5. \A p \in Slots(nd) : /\ p \in u + 1..gap => x.key[p] = nd.key[p - 1] /\ p - 1 \in Slots(nd)
                           /\ p \notin u + 1..gap => x.key[p] = nd.key[p]
    BY <1>1, <1>3 DEF MovedBy
<1>6. BitsOK(x)
    BY <1>1, <1>3, <1>4 DEF BitsOK
<1>7. x.key \in [Slots(x) -> Keys \cup {End}]
    <2>1. \A p \in Slots(nd) : x.key[p] \in Keys \cup {End}
        BY <1>2, <1>5
    <2>2. x.key = [p \in Slots(nd) |-> x.key[p]]
        BY <1>3 DEF MovedBy
    <2> QED BY <1>4, <2>1, <2>2
<1>8. \A p \in x.bit : p # u => x.key[p] \in Keys
    <2>1. ASSUME NEW p \in x.bit, p # u PROVE x.key[p] \in Keys
        <3>1. p \in Slots(nd) /\ p \in Int
            BY <1>2, <1>4, <1>6 DEF BitsOK
        <3>2. CASE p \in u + 1..gap
            <4>1. p - 1 \in Slots(nd) /\ x.key[p] = nd.key[p - 1]
                BY <1>5, <3>1, <3>2
            <4>2. u <= p - 1 /\ p - 1 < gap
                BY <1>1, <3>1, <3>2
            <4>3. p - 1 \in nd.bit
                BY <4>1, <4>2
            <4> QED BY <4>1, <4>3, NodeIs
        <3>3. CASE p \notin u + 1..gap
            <4>1. p \in nd.bit
                BY <1>1, <1>3, <2>1, <3>3
            <4> QED BY <1>5, <3>1, <3>3, <4>1, NodeIs
        <3> QED BY <3>2, <3>3
    <2> QED BY <2>1
<1>9. \A p \in x.bit : p < u => x.key[p] <= k
    <2>1. ASSUME NEW p \in x.bit, p < u PROVE x.key[p] <= k
        <3>1. p \in Slots(nd) /\ p \in Int
            BY <1>2, <1>4, <1>6 DEF BitsOK
        <3>2. x.key[p] = nd.key[p]
            BY <1>1, <1>5, <2>1, <3>1
        <3> QED BY <2>1, <3>1, <3>2, UpperIs
    <2> QED BY <2>1
<1>10. \A p \in Slots(x) : p > u => k <= x.key[p]
    <2>1. ASSUME NEW p \in Slots(nd), p > u PROVE k <= x.key[p]
        <3>1. PICK q \in Slots(nd) : q >= u /\ x.key[p] = nd.key[q]
            <4>1. CASE p \in u + 1..gap
                <5>1. p - 1 \in Slots(nd) /\ x.key[p] = nd.key[p - 1] /\ p - 1 >= u
                    BY <1>1, <1>2, <1>5, <2>1, <4>1
                <5> QED BY <5>1
            <4>2. CASE p \notin u + 1..gap
                <5>1. x.key[p] = nd.key[p] /\ p >= u
                    BY <1>1, <1>2, <1>5, <2>1, <4>2
                <5> QED BY <5>1
            <4> QED BY <4>1, <4>2
        <3>2. nd.key[q] > k
            BY <3>1, UpperIs
        <3> QED BY <1>1, <1>2, <3>1, <3>2
    <2> QED BY <1>4, <2>1
<1>11. ASSUME NEW p \in Slots(nd), NEW q \in Slots(nd), p <= q, q < u \/ p > u
       PROVE  x.key[p] <= x.key[q]
    <2> DEFINE Old(r) == IF r \in u + 1..gap THEN r - 1 ELSE r
    <2>1. \A r \in Slots(nd) : Old(r) \in Slots(nd) /\ x.key[r] = nd.key[Old(r)]
        BY <1>5
    <2>2. Old(p) <= Old(q)
        BY <1>1, <1>2, <1>11
    <2> HIDE DEF Old
    <2> QED BY <2>1, <2>2 DEF NodeOK, Ascending
<1>12. ASSUME NEW p \in Gaps(x), p > u \/ p + 1 < u PROVE x.key[p] = KeyAfter(x, p + 1)
    <2>1. p \in Slots(nd) /\ p \notin nd.bit /\ p # gap /\ p \in Int /\ 0 <= p /\ p < nd.cap
        <3>1. p \in Slots(nd) /\ p \notin x.bit
            BY <1>4 DEF Gaps
        <3> QED BY <1>1, <1>3, <3>1
    <2>2. nd.key[p] = KeyAfter(nd, p + 1)
        BY <2>1 DEF NodeOK, GapsFilledIn, Gaps
    <2>3. p < u \/ p > gap
        BY <1>1, <2>1
    <2>4. x.key[p] = nd.key[p]
        BY <1>1, <1>5, <2>1, <2>3
    <2>5. CASE p + 1 < nd.cap
        <3>1. p + 1 \in Slots(nd) /\ p + 1 \notin u + 1..gap
            BY <1>1, <1>12, <2>1, <2>3, <2>5
        <3> QED BY <1>1, <1>3, <1>5, <2>1, <2>2, <2>4, <2>5, <3>1 DEF KeyAfter
    <2>6. CASE ~(p + 1 < nd.cap)
        BY <1>1, <1>3, <2>1, <2>2, <2>4, <2>6 DEF KeyAfter
    <2> QED BY <2>5, <2>6
<1>13. u \in Slots(x)
    BY <1>1, <1>4
<1> QED BY <1>4, <1>6, <1>7, <1>8, <1>9, <1>10, <1>11, <1>12, <1>13 DEF OKBut, x

\* The slots between the gap and the position move to the left.
LEMMA MovedLeft ==
    ASSUME NEW nd, NodeOK(nd), NEW k \in Keys, NEW u, IsBound(nd, UpperSide(nd, k), u),
           NEW gap \in Gaps(nd), gap < u, \A p \in Slots(nd) : gap < p /\ p < u => p \in nd.bit
    PROVE  OKBut(Moved(nd, gap, u), u - 1, k)
<1> DEFINE x == Moved(nd, gap, u)
<1>1. /\ u \in Nat /\ u <= nd.cap /\ k \in Int /\ BitsOK(nd) /\ nd.cap \in Nat
      /\ Slots(nd) = 0..nd.cap - 1
      /\ gap \in Slots(nd) /\ gap \in Int /\ 0 <= gap /\ gap < nd.cap /\ gap \notin nd.bit
    BY UpperIs, NodeIs DEF Gaps
<1>2. \A p \in Slots(nd) : p \in Int /\ nd.key[p] \in Int /\ nd.key[p] \in Keys \cup {End}
    BY <1>1, NodeIs
<1>3. x.bit = nd.bit \cup {gap} /\ x.cap = nd.cap /\ x.key = MovedBy(nd, nd.key, gap, u)
    BY MovedFields DEF NodeOK, SameFrame
<1> HIDE DEF x
<1>4. Slots(x) = Slots(nd)
    BY <1>3 DEF Slots
<1>5. \A p \in Slots(nd) : /\ p \in gap..u - 2 => x.key[p] = nd.key[p + 1] /\ p + 1 \in Slots(nd)
                           /\ p \notin gap..u - 2 => x.key[p] = nd.key[p]
    BY <1>1, <1>3 DEF MovedBy
<1>6. BitsOK(x)
    BY <1>1, <1>3, <1>4 DEF BitsOK
<1>7. x.key \in [Slots(x) -> Keys \cup {End}]
    <2>1. \A p \in Slots(nd) : x.key[p] \in Keys \cup {End}
        BY <1>2, <1>5
    <2>2. x.key = [p \in Slots(nd) |-> x.key[p]]
        BY <1>3 DEF MovedBy
    <2> QED BY <1>4, <2>1, <2>2
<1>8. ASSUME NEW p \in x.bit, p # u - 1
      PROVE  x.key[p] \in Keys /\ (p < u - 1 => x.key[p] <= k)
    <2>1. p \in Slots(nd) /\ p \in Int
        BY <1>2, <1>4, <1>6 DEF BitsOK
    <2>2. CASE p \in gap..u - 2
        <3>1. p + 1 \in Slots(nd) /\ x.key[p] = nd.key[p + 1]
            BY <1>5, <2>1, <2>2
        <3>2. gap < p + 1 /\ p + 1 < u
            BY <1>1, <2>1, <2>2
        <3>3. p + 1 \in nd.bit
            BY <3>1, <3>2
        <3>4. nd.key[p + 1] <= k
            BY <3>1, <3>2, UpperIs
        <3> QED BY <3>1, <3>3, <3>4, NodeIs
    <2>3. CASE p \notin gap..u - 2
        <3>1. x.key[p] = nd.key[p]
            BY <1>5, <2>1, <2>3
        <3>2. p \in nd.bit
            BY <1>1, <1>3, <1>8, <2>3
        <3>3. p < u - 1 => nd.key[p] <= k
            <4>1. p < u - 1 => p < u
                BY <1>1, <2>1
            <4> QED BY <2>1, <4>1, UpperIs
        <3> QED BY <3>1, <3>2, <3>3, NodeIs
    <2> QED BY <2>2, <2>3
<1>9. \A p \in x.bit : p < u - 1 => x.key[p] <= k
    <2>1. \A p \in x.bit : p \in Int
        BY <1>2, <1>4, <1>6 DEF BitsOK
    <2> QED BY <1>1, <1>8, <2>1
<1>10. \A p \in Slots(x) : p > u - 1 => k <= x.key[p]
    <2>1. ASSUME NEW p \in Slots(nd), p > u - 1 PROVE k <= x.key[p]
        <3>1. p \in Int /\ p >= u /\ p \notin gap..u - 2
            BY <1>1, <1>2, <2>1
        <3>2. x.key[p] = nd.key[p] /\ nd.key[p] > k
            BY <1>5, <3>1, UpperIs
        <3>3. nd.key[p] \in Int
            BY <1>2
        <3> QED BY <1>1, <3>2, <3>3
    <2> QED BY <1>4, <2>1
<1>11. ASSUME NEW p \in Slots(nd), NEW q \in Slots(nd), p <= q, q < u - 1 \/ p > u - 1
       PROVE  x.key[p] <= x.key[q]
    <2> DEFINE Old(r) == IF r \in gap..u - 2 THEN r + 1 ELSE r
    <2>1. \A r \in Slots(nd) : Old(r) \in Slots(nd) /\ x.key[r] = nd.key[Old(r)]
        BY <1>5
    <2>2. Old(p) <= Old(q)
        BY <1>1, <1>2, <1>11
    <2> HIDE DEF Old
    <2> QED BY <2>1, <2>2 DEF NodeOK, Ascending
<1>12. ASSUME NEW p \in Gaps(x), p > u - 1 \/ p + 1 < u - 1 PROVE x.key[p] = KeyAfter(x, p + 1)
    <2>1. p \in Slots(nd) /\ p \notin nd.bit /\ p # gap /\ p \in Int /\ 0 <= p /\ p < nd.cap
        <3>1. p \in Slots(nd) /\ p \notin x.bit
            BY <1>4 DEF Gaps
        <3> QED BY <1>1, <1>3, <3>1
    <2>2. nd.key[p] = KeyAfter(nd, p + 1) /\ nd.key[gap] = KeyAfter(nd, gap + 1)
        BY <2>1 DEF NodeOK, GapsFilledIn, Gaps
    <2>3. p < gap \/ p > u - 1
        BY <1>1, <1>12, <2>1
    <2>4. x.key[p] = nd.key[p]
        BY <1>1, <1>5, <2>1, <2>3
    <2>5. CASE p + 1 < nd.cap /\ p + 1 # gap
        <3>1. p + 1 \in Slots(nd) /\ p + 1 \notin gap..u - 2
            BY <1>1, <1>12, <2>1, <2>3, <2>5
        <3> QED BY <1>1, <1>3, <1>5, <2>1, <2>2, <2>4, <2>5, <3>1 DEF KeyAfter
    <2>6. CASE ~(p + 1 < nd.cap)
        BY <1>1, <1>3, <2>1, <2>2, <2>4, <2>6 DEF KeyAfter
    <2>7. CASE p + 1 = gap
        <3>1. gap \in gap..u - 2 /\ gap + 1 < nd.cap
            BY <1>1, <1>12, <2>1, <2>7
        <3>2. x.key[gap] = nd.key[gap + 1]
            BY <1>1, <1>5, <3>1
        <3>3. nd.key[p] = nd.key[gap] /\ nd.key[gap] = nd.key[gap + 1]
            BY <1>1, <2>2, <2>7, <3>1 DEF KeyAfter
        <3> QED BY <1>1, <1>3, <2>4, <2>7, <3>2, <3>3 DEF KeyAfter
    <2> QED BY <2>5, <2>6, <2>7
<1>13. u - 1 \in Slots(x)
    BY <1>1, <1>4
<1> QED BY <1>4, <1>6, <1>7, <1>8, <1>9, <1>10, <1>11, <1>12, <1>13 DEF OKBut, x

\* The slots are as they should be.
SlotsOK(x) == BitsOK(x) /\ KeysOK(x) /\ Ascending(x) /\ GapsFilledIn(x)

LEMMA WithCount ==
    ASSUME NEW nd, NodeOK(nd), NEW x, SameFrame(nd, x), SlotsOK(x), NEW c, c = Cardinality(x.bit)
    PROVE  NodeOK([x EXCEPT !.n = c])
<1> DEFINE y == [x EXCEPT !.n = c]
<1>1. DOMAIN x = Fields
    BY DEF SameFrame
<1>2. /\ y.cap = x.cap /\ y.bit = x.bit /\ y.key = x.key /\ y.model = x.model /\ y.n = c
      /\ y.expand = x.expand /\ y.contract = x.contract /\ DOMAIN y = Fields
    BY <1>1 DEF Fields
<1> HIDE DEF y
<1>3. Slots(y) = Slots(x) /\ Gaps(y) = Gaps(x)
    BY <1>2 DEF Slots, Gaps
<1>4. BitsOK(y) /\ KeysOK(y) /\ Ascending(y)
    BY <1>2, <1>3 DEF SlotsOK, BitsOK, KeysOK, Ascending
<1>5. GapsFilledIn(y)
    BY <1>2, <1>3 DEF SlotsOK, GapsFilledIn, KeyAfter
<1> QED BY <1>2, <1>4, <1>5 DEF NodeOK, SameFrame, y

\* A node with fewer keys than slots has a gap.
LEMMA RoomIs ==
    ASSUME NEW nd, NodeOK(nd), nd.n < nd.cap
    PROVE  Gaps(nd) # {}
<1> SUFFICES ASSUME Gaps(nd) = {} PROVE FALSE
    OBVIOUS
<1>1. nd.cap \in Nat /\ nd.n = Cardinality(nd.bit) /\ nd.bit \in SUBSET Slots(nd)
    BY NodeIs DEF BitsOK
<1>2. nd.bit = 0..nd.cap - 1
    BY <1>1 DEF Gaps, Slots
<1>3. Cardinality(0..nd.cap - 1) = nd.cap
    BY <1>1, FS_Interval
<1> QED BY <1>1, <1>2, <1>3

\* All slots from p to the nearest gap are filled.
LEMMA FilledUpToGap ==
    ASSUME NEW nd, BitsOK(nd), NEW p \in Slots(nd), NEW g \in Gaps(nd), Nearest(nd, p, g),
           NEW q \in Slots(nd), (g < q /\ q <= p) \/ (p <= q /\ q < g)
    PROVE  q \in nd.bit
<1>1. p \in Int /\ q \in Int /\ g \in Int
    BY DEF BitsOK, Slots, Gaps
<1> SUFFICES ASSUME q \notin nd.bit PROVE FALSE
    OBVIOUS
<1>2. Distance(p, g) <= Distance(p, q)
    BY DEF Nearest, Gaps
<1> QED BY <1>1, <1>2 DEF Distance

\* The shifts keep the node in order and fill one gap.
LEMMA ShiftsKeep ==
    ASSUME NEW nd, NodeOK(nd), Gaps(nd) # {}, NEW k \in Keys, NEW payload,
           NEW u, IsBound(nd, UpperSide(nd, k), u), u = nd.cap \/ u \in nd.bit
    PROVE  LET x == insert_using_shifts(nd, k, payload, u)
           IN  SameFrame(nd, x) /\ SlotsOK(x) /\ \E g \in Gaps(nd) : x.bit = nd.bit \cup {g}
<1> DEFINE g == closest_gap(nd, u)
           y == Moved(nd, g, u)
           at == IF g >= u THEN u ELSE u - 1
           x == insert_using_shifts(nd, k, payload, u)
           p == Minimum(u, nd.cap - 1)
<1>1. /\ u \in Nat /\ u <= nd.cap /\ BitsOK(nd) /\ nd.cap \in Nat /\ nd.cap >= 1
      /\ Slots(nd) = 0..nd.cap - 1
    BY UpperIs, NodeIs
<1>2. p \in Slots(nd) /\ Nearest(nd, p, g)
    BY <1>1, ClosestGapIs
<1>3. x = insert_element_at(y, k, payload, at)
    BY ShiftsAre
<1>4. p \in Int /\ (u < nd.cap => p = u) /\ (u = nd.cap => p = u - 1)
    BY <1>1 DEF Minimum
<1> HIDE DEF g, x, p
<1>5. g \in Gaps(nd) /\ g \in Slots(nd) /\ g \notin nd.bit /\ g \in Int
    BY <1>1, <1>2 DEF Nearest, Gaps
<1>6. /\ SameFrame(nd, y) /\ DOMAIN y = Fields /\ y.n = nd.n /\ y.bit = nd.bit \cup {g}
    BY MovedFields DEF NodeOK, SameFrame
<1>7. OKBut(y, at, k) /\ at \in y.bit
    <2>1. CASE g >= u
        <3>1. u < nd.cap /\ u \in nd.bit /\ u < g /\ p = u /\ at = u
            BY <1>1, <1>4, <1>5, <2>1
        <3>2. \A q \in Slots(nd) : u <= q /\ q < g => q \in nd.bit
            BY <1>1, <1>2, <1>5, <3>1, FilledUpToGap
        <3> QED BY <1>5, <1>6, <3>1, <3>2, MovedRight
    <2>2. CASE ~(g >= u)
        <3>1. g < u /\ at = u - 1
            BY <1>1, <1>5, <2>2
        <3>2. \A q \in Slots(nd) : g < q /\ q < u => q \in nd.bit
            <4>1. ASSUME NEW q \in Slots(nd), g < q, q < u PROVE q \in nd.bit
                <5>1. q <= p
                    BY <1>1, <1>4, <4>1
                <5> QED BY <1>1, <1>2, <1>5, <4>1, <5>1, FilledUpToGap
            <4> QED BY <4>1
        <3>3. OKBut(y, u - 1, k)
            BY <1>5, <3>1, <3>2, MovedLeft
        <3>4. u - 1 \in y.bit
            BY <1>1, <1>5, <1>6, <3>1, <3>2
        <3> QED BY <3>1, <3>3, <3>4
    <2> QED BY <2>1, <2>2
<1> HIDE DEF y, at
<1>8. SameFrame(y, x) /\ x.bit = y.bit \cup {at} /\ SlotsOK(x)
    BY <1>3, <1>6, <1>7, InsertElementIs DEF SlotsOK
<1>9. SameFrame(nd, x) /\ x.bit = nd.bit \cup {g}
    BY <1>6, <1>7, <1>8 DEF SameFrame
<1> QED BY <1>5, <1>8, <1>9 DEF x

LEMMA PutElementKeeps ==
    ASSUME NEW nd, NodeOK(nd), nd.n < nd.cap, NEW k \in Keys, NEW payload
    PROVE  NodeOK(PutElement(nd, k, payload))
<1> DEFINE pos == find_insert_position(nd, k)[1]
           direct == pos < nd.cap /\ ~check_exists(nd, Minimum(pos, nd.cap - 1))
           put == IF direct THEN insert_element_at(nd, k, payload, pos)
                  ELSE insert_using_shifts(nd, k, payload, pos)
<1>1. PICK u : IsBound(nd, UpperSide(nd, k), u)
    BY BoundsOf
<1>2. /\ u \in Nat /\ u <= nd.cap /\ BitsOK(nd) /\ nd.cap \in Nat /\ nd.cap >= 1
      /\ Slots(nd) = 0..nd.cap - 1 /\ IsFiniteSet(nd.bit)
    BY <1>1, UpperIs, NodeIs
<1>3. \/ pos = u
      \/ pos \in Gaps(nd) /\ u <= pos /\ \A r \in nd.bit : r < u \/ r > pos
    BY <1>1, InsertPositionIs
<1>4. PutElement(nd, k, payload) = [put EXCEPT !.n = nd.n + 1]
    BY DEF PutElement
<1> HIDE DEF pos
<1>5. pos \in Nat /\ (pos < nd.cap => Minimum(pos, nd.cap - 1) = pos)
    BY <1>2, <1>3 DEF Gaps, Minimum
<1>6. SameFrame(nd, put) /\ SlotsOK(put) /\ \E g \in Gaps(nd) : put.bit = nd.bit \cup {g}
    <2>1. CASE direct
        <3>1. pos \in Gaps(nd)
            BY <1>2, <1>5, <2>1 DEF Gaps, check_exists
        <3>2. u <= pos /\ \A r \in nd.bit : r < u \/ r > pos
            <4>1. CASE pos = u
                <5>1. \A r \in nd.bit : r \in Int /\ r # u
                    BY <1>2, <3>1, <4>1 DEF BitsOK, Gaps
                <5> QED BY <1>2, <4>1, <5>1
            <4> QED BY <1>3, <4>1
        <3>3. OKBut(nd, pos, k)
            BY <1>1, <3>1, <3>2, GapTakesKey
        <3>4. put = insert_element_at(nd, k, payload, pos)
            BY <2>1
        <3>5. DOMAIN nd = Fields
            BY DEF NodeOK
        <3> HIDE DEF put
        <3>6. SameFrame(nd, put) /\ put.bit = nd.bit \cup {pos} /\ SlotsOK(put)
            BY <3>3, <3>4, <3>5, InsertElementIs DEF SlotsOK
        <3> QED BY <3>1, <3>6
    <2>2. CASE ~direct
        <3>1. pos = u /\ (u = nd.cap \/ u \in nd.bit)
            BY <1>2, <1>3, <1>5, <2>2 DEF Gaps, check_exists
        <3>2. put = insert_using_shifts(nd, k, payload, u)
            BY <2>2, <3>1
        <3>3. Gaps(nd) # {}
            BY RoomIs
        <3> HIDE DEF put
        <3> QED BY <1>1, <3>1, <3>2, <3>3, ShiftsKeep
    <2> QED BY <2>1, <2>2
<1> HIDE DEF put
<1>7. Cardinality(put.bit) = nd.n + 1
    <2>1. PICK g \in Gaps(nd) : put.bit = nd.bit \cup {g}
        BY <1>6
    <2>2. g \notin nd.bit
        BY DEF Gaps
    <2>3. Cardinality(nd.bit \cup {g}) = Cardinality(nd.bit) + 1
        BY <1>2, <2>2, FS_AddElement
    <2> QED BY <2>1, <2>3 DEF NodeOK
<1> QED BY <1>4, <1>6, <1>7, WithCount

-----------------------------------------------------------------------------
(* Building a node. *)

\* The place of the i-th of n keys, given the place of the one before.
Place(vals, model, cap, i, before) ==
    Minimum(Maximum(predict(model, vals[i][1]), before + 1), cap - (Len(vals) - i + 1))

\* f has the slots the keys get, one after the other.
Placed(f, vals, model, cap) ==
    f = [i \in 0..Len(vals) |-> IF i = 0 THEN -1 ELSE Place(vals, model, cap, i, f[i - 1])]

\* n values with keys in ascending order.
ValuesOK(vals) ==
    /\ Len(vals) \in Nat
    /\ \A i \in 1..Len(vals) : vals[i][1] \in Keys
    /\ \A i, j \in 1..Len(vals) : i <= j => vals[i][1] <= vals[j][1]

LEMMA PlaceIs ==
    ASSUME NEW vals, ValuesOK(vals), NEW model \in Models, NEW cap \in Int, NEW i \in 1..Len(vals),
           NEW b \in Int
    PROVE  LET p == Place(vals, model, cap, i, b)
               top == cap - (Len(vals) - i + 1)
           IN  /\ p \in Int /\ p <= top
               /\ b + 1 <= top => b + 1 <= p
<1>1. predict(model, vals[i][1]) \in Int
    BY PredictIs, KeysAre DEF ValuesOK
<1>2. Len(vals) \in Nat /\ i \in Int
    BY DEF ValuesOK
<1> QED BY <1>1, <1>2 DEF Place, Minimum, Maximum

LEMMA PlacedExists ==
    ASSUME NEW vals, ValuesOK(vals), NEW model \in Models, NEW cap \in Int
    PROVE  \E f : Placed(f, vals, model, cap) /\ f \in [0..Len(vals) -> Int]
<1> DEFINE V == Int
           n == Len(vals)
           v0 == -1
           g == [x \in (1..n) \X V |-> Place(vals, model, cap, x[1], x[2])]
<1>1. n \in Nat /\ v0 \in V
    BY DEF ValuesOK
<1>2. \A i \in 1..n, v \in V : g[<<i, v>>] = Place(vals, model, cap, i, v)
    OBVIOUS
<1>3. Body(g, V, n)
    <2> HIDE DEF g
    <2>1. \A i \in 1..n, v \in Int : Place(vals, model, cap, i, v) \in Int
        BY PlaceIs
    <2> QED BY <1>2, <2>1, Zenon DEF Body
<1> HIDE DEF g, n, v0
<1>4. PICK f : Loop(f, g, V, v0, n)
    BY <1>1, <1>3, LoopExists
<1>5. ASSUME NEW i \in 0..n
      PROVE  f[i] = IF i = 0 THEN -1 ELSE Place(vals, model, cap, i, f[i - 1])
    <2>1. CASE i = 0
        BY <1>4, <2>1 DEF Loop, v0
    <2>2. CASE i # 0
        <3>1. i \in 1..n /\ i - 1 \in 0..n
            BY <1>1, <2>2
        <3> QED BY <1>2, <1>4, <2>2, <3>1 DEF Loop
    <2> QED BY <2>1, <2>2
<1>6. f = [i \in 0..n |-> f[i]] /\ f \in [0..n -> Int]
    BY <1>4 DEF Loop
<1>7. Placed(f, vals, model, cap)
    BY <1>5, <1>6 DEF Placed, n
<1> QED BY <1>6, <1>7 DEF n

\* Strictly ascending slots, one for each value.
SlotsFor(at, n, cap) ==
    /\ at \in [1..n -> 0..cap - 1]
    /\ \A i, j \in 1..n : i < j => at[i] < at[j]

LEMMA PositionsAre ==
    ASSUME NEW vals, ValuesOK(vals), NEW model \in Models, NEW cap \in Nat, Len(vals) <= cap
    PROVE  LET at == Positions(vals, model, cap)
           IN  /\ SlotsFor(at, Len(vals), cap)
               /\ \A i \in 1..Len(vals) :
                     at[i] = Place(vals, model, cap, i, IF i = 1 THEN -1 ELSE at[i - 1])
<1> DEFINE n == Len(vals)
           f == CHOOSE g : Placed(g, vals, model, cap)
           at == Positions(vals, model, cap)
<1>1. Placed(f, vals, model, cap)
    BY PlacedExists
<1>2. at = [i \in 1..n |-> f[i]]
    BY DEF Positions, Placed, Place
<1>3. n \in Nat /\ n <= cap
    BY DEF ValuesOK
<1> HIDE DEF f, n, at
<1>4. f[0] = -1 /\ \A i \in 1..n : f[i] = Place(vals, model, cap, i, f[i - 1])
    <2>1. \A i \in 0..n : f[i] = IF i = 0 THEN -1 ELSE Place(vals, model, cap, i, f[i - 1])
        BY <1>1 DEF Placed, n
    <2>2. 0 \in 0..n
        BY <1>3
    <2>3. \A i \in 1..n : i \in 0..n /\ i # 0
        BY <1>3
    <2> QED BY <2>1, <2>2, <2>3
<1> DEFINE S == {i \in 0..n : /\ f[i] \in Int /\ f[i] <= cap - (n - i + 1)
                              /\ f[i] >= i - 1
                              /\ i # 0 => f[i - 1] < f[i]}
<1>5. \A i \in 0..n : i \in S
    <2>1. 0 \in S
        BY <1>3, <1>4
    <2>2. ASSUME NEW i \in 0..n - 1, i \in S PROVE i + 1 \in S
        <3>1. /\ f[i] \in Int /\ f[i] <= cap - (n - i + 1) /\ f[i] >= i - 1
              /\ i \in Int /\ i + 1 \in 1..n /\ i + 1 \in 0..n /\ (i + 1) - 1 = i
            BY <1>3, <2>2
        <3>2. f[i + 1] = Place(vals, model, cap, i + 1, f[i])
            BY <1>4, <3>1
        <3>3. /\ f[i + 1] \in Int /\ f[i + 1] <= cap - (n - (i + 1) + 1)
              /\ f[i] + 1 <= cap - (n - (i + 1) + 1) => f[i] + 1 <= f[i + 1]
            <4>1. i + 1 \in 1..Len(vals)
                BY <3>1 DEF n
            <4>2. cap \in Int
                OBVIOUS
            <4> DEFINE j == i + 1
                       p == Place(vals, model, cap, j, f[i])
            <4> HIDE DEF j
            <4>3. /\ p \in Int /\ p <= cap - (Len(vals) - j + 1)
                  /\ f[i] + 1 <= cap - (Len(vals) - j + 1) => f[i] + 1 <= p
                BY <3>1, <4>1, <4>2, PlaceIs DEF j
            <4> QED BY <3>2, <4>3 DEF n, j
        <3>4. f[i] + 1 <= cap - (n - (i + 1) + 1)
            BY <1>3, <3>1
        <3>5. f[i + 1] >= (i + 1) - 1 /\ f[i] < f[i + 1]
            BY <1>3, <3>1, <3>3, <3>4
        <3> QED BY <3>1, <3>3, <3>5
    <2> HIDE DEF S
    <2> QED BY <1>3, <2>1, <2>2, UpTo
<1>6. \A i \in 1..n : f[i] \in Int /\ 0 <= f[i] /\ f[i] < cap /\ f[i - 1] < f[i] /\ i \in 0..n
    <2>1. ASSUME NEW i \in 1..n
          PROVE  f[i] \in Int /\ 0 <= f[i] /\ f[i] < cap /\ f[i - 1] < f[i] /\ i \in 0..n
        <3>1. i \in S /\ i # 0 /\ i \in Int /\ i <= n /\ i >= 1 /\ i \in 0..n
            BY <1>3, <1>5
        <3>2. f[i] \in Int /\ f[i] <= cap - (n - i + 1) /\ f[i] >= i - 1 /\ f[i - 1] < f[i]
            BY <3>1
        <3> QED BY <1>3, <3>1, <3>2
    <2> QED BY <2>1
<1>7. ASSUME NEW j \in 1..n PROVE \A i \in 1..n : i < j => f[i] < f[j]
    <2> DEFINE T == {d \in 0..n : \A i \in 1..n : i + d + 1 = j => f[i] < f[j]}
    <2>1. 0 \in T
        BY <1>3, <1>6
    <2>2. ASSUME NEW d \in 0..n - 1, d \in T PROVE d + 1 \in T
        <3>1. d + 1 \in 0..n
            BY <1>3
        <3>2. ASSUME NEW i \in 1..n, i + (d + 1) + 1 = j PROVE f[i] < f[j]
            <4>1. i + 1 \in 1..n /\ (i + 1) + d + 1 = j /\ (i + 1) - 1 = i
                BY <1>3, <3>2
            <4>2. f[i + 1] < f[j] /\ f[i] < f[i + 1]
                BY <1>6, <2>2, <4>1
            <4>3. f[i] \in Int /\ f[j] \in Int /\ f[i + 1] \in Int
                BY <1>6, <4>1
            <4> QED BY <4>2, <4>3
        <3> QED BY <3>1, <3>2
    <2> HIDE DEF T
    <2>3. \A d \in 0..n : d \in T
        BY <1>3, <2>1, <2>2, UpTo
    <2>4. ASSUME NEW i \in 1..n, i < j PROVE f[i] < f[j]
        <3>1. j - i - 1 \in 0..n /\ i + (j - i - 1) + 1 = j
            BY <1>3, <2>4
        <3>2. j - i - 1 \in T
            BY <2>3, <3>1
        <3> QED BY <3>1, <3>2 DEF T
    <2> QED BY <2>4
<1>8. \A i \in 1..n : at[i] = f[i]
    BY <1>2
<1>9. SlotsFor(at, n, cap)
    <2>1. at \in [1..n -> 0..cap - 1]
        BY <1>2, <1>6
    <2> QED BY <1>7, <1>8, <2>1 DEF SlotsFor
<1>10. ASSUME NEW i \in 1..n
       PROVE  at[i] = Place(vals, model, cap, i, IF i = 1 THEN -1 ELSE at[i - 1])
    <2>1. i # 1 => i - 1 \in 1..n
        BY <1>3
    <2>2. i = 1 => f[i - 1] = -1
        BY <1>4
    <2>3. f[i - 1] = IF i = 1 THEN -1 ELSE at[i - 1]
        BY <1>8, <2>1, <2>2
    <2> QED BY <1>4, <1>8, <2>3
<1> QED BY <1>9, <1>10 DEF n, at

LEMMA OneTo ==
    ASSUME NEW n \in Nat
    PROVE  IsFiniteSet(1..n) /\ Cardinality(1..n) = n
<1>1. n \in Int /\ 1 \in Int
    OBVIOUS
<1>2. IsFiniteSet(1..n) /\ Cardinality(1..n) = IF 1 > n THEN 0 ELSE n - 1 + 1
    BY <1>1, FS_Interval, Zenon
<1> QED BY <1>2

\* The values whose slot is p or behind it.
From(at, n, p) == {i \in 1..n : at[i] >= p}

\* x is the node with these values at these slots.
LayoutOf(x, vals, at, cap, model) ==
    LET n == Len(vals)
    IN  /\ x.cap = cap /\ x.n = n /\ x.model = model /\ x.bit = {at[i] : i \in 1..n}
        /\ x.key = [p \in 0..cap - 1 |-> IF From(at, n, p) = {} THEN End
                                         ELSE vals[MinOf(From(at, n, p))][1]]
        /\ x.expand = IF n = 0 THEN cap * 10
                      ELSE Minimum(Maximum(cap * 8, (n + 1) * 10), cap * 10)
        /\ x.contract = IF n = 0 THEN 0 ELSE cap * 6
        /\ DOMAIN x = Fields

LEMMA LayoutFields ==
    ASSUME NEW vals, NEW at, NEW cap, NEW model, DOMAIN at = 1..Len(vals)
    PROVE  LayoutOf(Layout(vals, at, cap, model), vals, at, cap, model)
    BY DEF Layout, LayoutOf, From, Fields

LEMMA LayoutIs ==
    ASSUME NEW vals, ValuesOK(vals), NEW cap \in Nat, Len(vals) < cap, NEW model \in Models,
           NEW at, SlotsFor(at, Len(vals), cap)
    PROVE  LET x == Layout(vals, at, cap, model)
           IN  /\ NodeOK(x) /\ x.cap = cap /\ x.n = Len(vals) /\ x.model = model
               /\ x.bit = {at[i] : i \in 1..Len(vals)}
               /\ \A i \in 1..Len(vals) : x.key[at[i]] = vals[i][1]
<1> DEFINE x == Layout(vals, at, cap, model)
           n == Len(vals)
           N(p) == From(at, n, p)
<1>1. /\ n \in Nat /\ n < cap /\ cap >= 1
      /\ \A i \in 1..n : vals[i][1] \in Keys /\ vals[i][1] \in Int
      /\ \A i, j \in 1..n : i <= j => vals[i][1] <= vals[j][1]
    BY KeysAre DEF ValuesOK
<1>2. /\ DOMAIN at = 1..n /\ \A i \in 1..n : at[i] \in 0..cap - 1
      /\ \A i, j \in 1..n : i < j => at[i] < at[j]
    BY DEF SlotsFor
<1>3. /\ x.cap = cap /\ x.n = n /\ x.model = model /\ x.bit = {at[i] : i \in 1..n}
      /\ x.key = [p \in 0..cap - 1 |-> IF N(p) = {} THEN End ELSE vals[MinOf(N(p))][1]]
      /\ x.expand = IF n = 0 THEN cap * 10
                    ELSE Minimum(Maximum(cap * 8, (n + 1) * 10), cap * 10)
      /\ x.contract = IF n = 0 THEN 0 ELSE cap * 6
      /\ DOMAIN x = Fields
    <2>1. LayoutOf(x, vals, at, cap, model)
        BY <1>2, LayoutFields
    <2> HIDE DEF x
    <2> QED BY <2>1 DEF LayoutOf
<1> HIDE DEF x, n
<1>4. Slots(x) = 0..cap - 1
    BY <1>3 DEF Slots
<1>5. BitsOK(x)
    BY <1>1, <1>2, <1>3, <1>4 DEF BitsOK
<1>6. ASSUME NEW p \in Int, N(p) # {}
      PROVE  MinOf(N(p)) \in 1..n /\ at[MinOf(N(p))] >= p /\ \A i \in 1..n : at[i] >= p => MinOf(N(p)) <= i
    <2> DEFINE one == 1
    <2>1. N(p) \in SUBSET Int /\ one \in Int /\ \A i \in N(p) : one <= i
        BY <1>1 DEF From
    <2> HIDE DEF one
    <2>2. MinOf(N(p)) \in N(p) /\ \A i \in N(p) : MinOf(N(p)) <= i
        BY <1>6, <2>1, MinOfIs
    <2> QED BY <2>2 DEF From
<1>7. ASSUME NEW p \in 0..cap - 1
      PROVE  /\ N(p) = {} => x.key[p] = End
             /\ N(p) # {} => x.key[p] = vals[MinOf(N(p))][1] /\ x.key[p] \in Keys
             /\ x.key[p] \in Int /\ x.key[p] \in Keys \cup {End} /\ x.key[p] <= End
    <2>1. x.key[p] = IF N(p) = {} THEN End ELSE vals[MinOf(N(p))][1]
        BY <1>3
    <2>2. N(p) # {} => vals[MinOf(N(p))][1] \in Keys
        BY <1>1, <1>6
    <2> QED BY <2>1, <2>2, KeysAre
<1>8. ASSUME NEW i \in 1..n PROVE N(at[i]) # {} /\ MinOf(N(at[i])) = i /\ x.key[at[i]] = vals[i][1]
    <2>1. at[i] \in Int /\ at[i] \in 0..cap - 1
        BY <1>2
    <2>2. i \in N(at[i])
        BY <2>1 DEF From
    <2>3. /\ MinOf(N(at[i])) \in 1..n /\ at[MinOf(N(at[i]))] >= at[i] /\ MinOf(N(at[i])) <= i
        BY <1>6, <2>1, <2>2
    <2>4. ~(MinOf(N(at[i])) < i)
        <3>1. at[MinOf(N(at[i]))] \in Int
            BY <1>2, <2>3
        <3> QED BY <1>2, <2>1, <2>3, <3>1
    <2>5. MinOf(N(at[i])) = i
        BY <1>1, <2>3, <2>4
    <2> QED BY <1>7, <2>1, <2>2, <2>5
<1>9. KeysOK(x)
    <2>1. x.key \in [Slots(x) -> Keys \cup {End}]
        <3>1. x.key = [p \in 0..cap - 1 |-> x.key[p]]
            BY <1>3
        <3> QED BY <1>4, <1>7, <3>1
    <2>2. ASSUME NEW p \in x.bit PROVE x.key[p] \in Keys
        <3>1. PICK i \in 1..n : p = at[i]
            BY <1>3
        <3>2. x.key[p] = vals[i][1]
            BY <1>8, <3>1
        <3> QED BY <1>1, <3>2
    <2> QED BY <2>1, <2>2 DEF KeysOK
<1>10. ASSUME NEW p \in 0..cap - 1, NEW q \in 0..cap - 1, p <= q PROVE x.key[p] <= x.key[q]
    <2>1. CASE N(q) = {}
        BY <1>7, <2>1
    <2>2. CASE N(q) # {}
        <3>1. \A i \in N(q) : i \in N(p)
            BY <1>2, <1>10 DEF From
        <3>2. N(p) # {}
            BY <2>2, <3>1
        <3>3. MinOf(N(q)) \in 1..n /\ at[MinOf(N(q))] >= q /\ at[MinOf(N(q))] \in Int
            BY <1>2, <1>6, <2>2
        <3>4. at[MinOf(N(q))] >= p
            BY <1>10, <3>3
        <3>5. MinOf(N(p)) \in 1..n /\ MinOf(N(p)) <= MinOf(N(q))
            BY <1>6, <3>2, <3>3, <3>4
        <3>6. vals[MinOf(N(p))][1] <= vals[MinOf(N(q))][1]
            BY <1>1, <3>3, <3>5
        <3> QED BY <1>7, <2>2, <3>2, <3>6
    <2> QED BY <2>1, <2>2
<1>11. Ascending(x)
    BY <1>4, <1>10 DEF Ascending
<1>12. ASSUME NEW p \in Gaps(x) PROVE x.key[p] = KeyAfter(x, p + 1)
    <2>1. p \in 0..cap - 1 /\ \A i \in 1..n : at[i] # p
        BY <1>3, <1>4 DEF Gaps
    <2>2. N(p) = N(p + 1)
        BY <1>2, <2>1 DEF From
    <2>3. CASE p + 1 < cap
        <3>1. p + 1 \in 0..cap - 1
            BY <2>1, <2>3
        <3>2. x.key[p + 1] = x.key[p]
            BY <1>3, <2>1, <2>2, <3>1
        <3> QED BY <1>3, <2>1, <2>3, <3>2 DEF KeyAfter
    <2>4. CASE ~(p + 1 < cap)
        <3>1. N(p) = {}
            BY <1>2, <2>1, <2>2, <2>4 DEF From
        <3> QED BY <1>3, <1>7, <2>1, <2>4, <3>1 DEF KeyAfter
    <2> QED BY <2>3, <2>4
<1>13. GapsFilledIn(x)
    BY <1>12 DEF GapsFilledIn
<1>14. x.n = Cardinality(x.bit)
    <2> DEFINE S == 1..n
               T == x.bit
    <2>1. IsFiniteSet(S) /\ Cardinality(S) = n
        <3>1. n \in Nat
            BY <1>1
        <3>2. IsFiniteSet(1..n) /\ Cardinality(1..n) = n
            BY <3>1, OneTo
        <3> QED BY <3>2
    <2>2. at \in [S -> T] /\ \A t \in T : \E s \in S : at[s] = t
        <3>1. at \in [S -> 0..cap - 1]
            BY DEF SlotsFor, n
        <3>2. \A s \in S : at[s] \in T
            BY <1>3
        <3>3. \A t \in T : \E s \in S : at[s] = t
            BY <1>3
        <3> HIDE DEF S, T
        <3> QED BY <3>1, <3>2, <3>3
    <2>3. \A a, b \in S : at[a] = at[b] => a = b
        BY <1>1, <1>2
    <2> HIDE DEF S, T
    <2>4. at \in Surjection(S, T) /\ at \in Injection(S, T)
        BY <2>2, <2>3 DEF Surjection, Injection, IsInjective
    <2>5. Cardinality(T) = Cardinality(S)
        BY <2>1, <2>4, FS_Surjection
    <2> QED BY <1>3, <2>1, <2>5 DEF T
<1>15. /\ x.expand \in Int /\ x.expand >= 1 /\ x.expand <= x.cap * 10 /\ x.contract \in Int
    BY <1>1, <1>3 DEF Minimum, Maximum
<1>16. NodeOK(x)
    BY <1>3, <1>5, <1>9, <1>11, <1>13, <1>14, <1>15 DEF NodeOK
<1> QED BY <1>3, <1>8, <1>16 DEF x, n

LEMMA LenIs ==
    ASSUME NEW n \in Nat, NEW T, NEW s \in [1..n -> T]
    PROVE  Len(s) = n
<1>1. s \in Seq(T)
    OBVIOUS
<1>2. DOMAIN s = 1..n /\ DOMAIN s = 1..Len(s) /\ Len(s) \in Nat
    BY <1>1
<1> QED BY <1>2

\* The filled slots of a range.
Within(nd, left, right) == {p \in nd.bit : p >= left /\ p < right}

\* Values lists the keys of the filled slots in order.
LEMMA ValuesAre ==
    ASSUME NEW nd, NodeOK(nd), NEW left \in Int, NEW right \in Int
    PROVE  LET vals == Values(nd, left, right)
               at == Iterate(nd, left, right)
               n == Cardinality(Within(nd, left, right))
           IN  /\ ValuesOK(vals) /\ Len(vals) = n /\ n = num_keys_in_range(nd, left, right)
               /\ Ascends(at, Within(nd, left, right)) /\ Len(at) = n
               /\ \A i \in 1..n : vals[i] = <<nd.key[at[i]], nd.pay[at[i]]>>
               /\ left = 0 /\ right = nd.cap => n = nd.n
<1> DEFINE vals == Values(nd, left, right)
           at == Iterate(nd, left, right)
           S == Within(nd, left, right)
           n == Cardinality(S)
<1>1. S \in SUBSET nd.bit /\ IsFiniteSet(nd.bit) /\ \A p \in nd.bit : p \in Int /\ p \in Slots(nd) /\ nd.key[p] \in Keys
    BY NodeIs DEF Within
<1>2. S \in SUBSET Int /\ IsFiniteSet(S)
    BY <1>1, FS_Subset
<1>3. at = InOrder(S)
    BY DEF Iterate, Within
<1>4. Ascends(at, S)
    BY <1>2, <1>3, InOrderIs
<1> HIDE DEF S, at
<1>5. n \in Nat /\ at \in [1..n -> S] /\ \A i, j \in 1..n : i < j => at[i] < at[j]
    BY <1>4 DEF Ascends
<1> HIDE DEF n
<1>6. Len(at) = n
    BY <1>5, LenIs
<1>7. vals = [i \in 1..n |-> <<nd.key[at[i]], nd.pay[at[i]]>>]
    BY <1>6 DEF Values, at
<1>8. Len(vals) = n
    <2> DEFINE T == {<<nd.key[at[i]], nd.pay[at[i]]>> : i \in 1..n}
    <2>1. vals \in [1..n -> T]
        BY <1>7
    <2> HIDE DEF T, vals
    <2> QED BY <1>5, <2>1, LenIs
<1> HIDE DEF vals
<1>9. \A i \in 1..n : vals[i] = <<nd.key[at[i]], nd.pay[at[i]]>> /\ vals[i][1] = nd.key[at[i]]
    BY <1>7
<1>10. \A i \in 1..n : at[i] \in nd.bit /\ at[i] \in Int /\ at[i] \in Slots(nd) /\ nd.key[at[i]] \in Keys
    BY <1>1, <1>5
<1>11. \A i, j \in 1..n : i <= j => vals[i][1] <= vals[j][1]
    <2>1. ASSUME NEW i \in 1..n, NEW j \in 1..n, i <= j PROVE vals[i][1] <= vals[j][1]
        <3>1. at[i] <= at[j]
            BY <1>5, <1>10, <2>1
        <3> QED BY <1>9, <1>10, <3>1 DEF NodeOK, Ascending
    <2> QED BY <2>1
<1>12. ValuesOK(vals)
    <2>1. \A i \in 1..n : vals[i][1] \in Keys
        BY <1>9, <1>10
    <2> QED BY <1>5, <1>8, <1>11, <2>1 DEF ValuesOK
<1>13. n = num_keys_in_range(nd, left, right)
    <2>1. S = nd.bit \cap (left..right - 1)
        BY <1>1 DEF S, Within
    <2> QED BY <2>1 DEF num_keys_in_range, n
<1>14. left = 0 /\ right = nd.cap => n = nd.n
    <2>1. \A p \in nd.bit : 0 <= p /\ p < nd.cap
        BY NodeIs
    <2>2. left = 0 /\ right = nd.cap => S = nd.bit
        BY <1>1, <2>1 DEF S, Within
    <2> QED BY <2>2 DEF n, NodeOK
<1> QED BY <1>4, <1>6, <1>8, <1>9, <1>12, <1>13, <1>14 DEF vals, at, S, n

LEMMA CapacityIs ==
    ASSUME NEW n \in Nat, NEW d \in {6, 7, 8}
    PROVE  Capacity(n, d) \in Nat /\ n < Capacity(n, d)
<1>1. (n * 10) \div 6 \in Int /\ (n * 10) \div 7 \in Int /\ (n * 10) \div 8 \in Int
    OBVIOUS
<1>2. (n * 10) \div d \in Int
    BY <1>1
<1> QED BY <1>2 DEF Capacity, Maximum

\* Model-based placement of sorted values gives a node in order.
LEMMA BuildIs ==
    ASSUME NEW vals, ValuesOK(vals), NEW model \in Models, NEW d \in {6, 7, 8}
    PROVE  LET cap == Capacity(Len(vals), d)
               at == Positions(vals, model, cap)
               x == Layout(vals, at, cap, model)
           IN  /\ NodeOK(x) /\ x.n < x.cap /\ x.cap = cap /\ x.n = Len(vals) /\ x.model = model
               /\ x.bit = {at[i] : i \in 1..Len(vals)}
               /\ \A i \in 1..Len(vals) : x.key[at[i]] = vals[i][1]
               /\ SlotsFor(at, Len(vals), cap)
<1> DEFINE cap == Capacity(Len(vals), d)
           at == Positions(vals, model, cap)
<1>1. Len(vals) \in Nat /\ cap \in Nat /\ Len(vals) < cap
    BY CapacityIs DEF ValuesOK
<1> HIDE DEF cap
<1>2. SlotsFor(at, Len(vals), cap)
    BY <1>1, PositionsAre
<1> HIDE DEF at
<1> QED BY <1>1, <1>2, LayoutIs DEF cap, at

LEMMA BulkLoadKeeps ==
    ASSUME NEW vals \in Loads, NEW model \in Models
    PROVE  NodeOK(bulk_load(vals, model))
<1>1. ValuesOK(vals)
    BY AlexDataNodeAssumption, SMTT(20) DEF ValuesOK
<1> QED BY <1>1, BuildIs DEF bulk_load

LEMMA BulkLoadFromExistingKeeps ==
    ASSUME NEW nd, NodeOK(nd), NEW left \in Int, NEW right \in Int, NEW model \in Models
    PROVE  NodeOK(bulk_load_from_existing(nd, left, right, model))
<1> DEFINE vals == Values(nd, left, right)
<1>1. ValuesOK(vals) /\ Len(vals) = num_keys_in_range(nd, left, right)
    BY ValuesAre
<1> HIDE DEF vals
<1> QED BY <1>1, BuildIs DEF bulk_load_from_existing, vals

LEMMA ResizeKeeps ==
    ASSUME NEW nd, NodeOK(nd), NEW d \in {6, 7, 8}, NEW model \in Models
    PROVE  LET x == resize(nd, d, model)
           IN  NodeOK(x) /\ (nd.n > 0 => x.n < x.cap)
<1> DEFINE vals == Values(nd, 0, nd.cap)
<1>1. ValuesOK(vals) /\ Len(vals) = nd.n /\ nd.n \in Nat
    <2>1. 0 \in Int /\ nd.cap \in Int /\ nd.n \in Nat
        BY NodeIs
    <2> QED BY <2>1, ValuesAre
<1> HIDE DEF vals
<1>2. CASE nd.n = 0
    BY <1>2 DEF resize
<1>3. CASE nd.n # 0
    BY <1>1, <1>3, BuildIs DEF resize, vals
<1> QED BY <1>2, <1>3

-----------------------------------------------------------------------------
(* Deletes. *)

\* The node after lo..hi is cleared, before a contraction.
Cleared(nd, lo, hi) ==
    [nd EXCEPT !.key = [p \in Slots(nd) |-> IF p \in lo..hi THEN KeyAfter(nd, hi + 1) ELSE nd.key[p]],
               !.bit = nd.bit \ (lo..hi),
               !.n = nd.n - Cardinality(nd.bit \cap (lo..hi))]

LEMMA ClearedFields ==
    ASSUME NEW nd, DOMAIN nd = Fields, NEW lo, NEW hi
    PROVE  LET x == Cleared(nd, lo, hi)
           IN  /\ SameFrame(nd, x) /\ x.bit = nd.bit \ (lo..hi)
               /\ x.n = nd.n - Cardinality(nd.bit \cap (lo..hi))
               /\ x.key = [p \in Slots(nd) |-> IF p \in lo..hi THEN KeyAfter(nd, hi + 1) ELSE nd.key[p]]
    BY DEF Cleared, SameFrame, Fields

LEMMA UnsetIs ==
    ASSUME NEW nd, NEW lo, NEW hi, NEW model
    PROVE  LET rest == Cleared(nd, lo, hi)
           IN  Unset(nd, lo, hi, model)
                 = IF rest.n * 10 < nd.contract THEN resize(rest, 8, model) ELSE rest
    BY DEF Unset, Cleared

\* The range begins behind a filled slot.
LEMMA ClearedKeeps ==
    ASSUME NEW nd, NodeOK(nd), NEW hi \in Slots(nd), NEW lo \in Nat,
           lo > hi \/ lo = 0 \/ lo - 1 \in nd.bit
    PROVE  NodeOK(Cleared(nd, lo, hi))
<1> DEFINE x == Cleared(nd, lo, hi)
           after == KeyAfter(nd, hi + 1)
<1>1. /\ nd.cap \in Nat /\ nd.cap >= 1 /\ Slots(nd) = 0..nd.cap - 1 /\ IsFiniteSet(nd.bit)
      /\ hi \in Int /\ 0 <= hi /\ hi < nd.cap
    BY NodeIs
<1>2. \A p \in Slots(nd) : /\ p \in Int /\ nd.key[p] \in Int /\ nd.key[p] \in Keys \cup {End}
                           /\ nd.key[p] <= End
    BY <1>1, NodeIs
<1>3. \A p \in nd.bit : p \in Slots(nd) /\ p \in Int /\ nd.key[p] \in Keys
    BY NodeIs
<1>4. /\ SameFrame(nd, x) /\ x.cap = nd.cap /\ x.bit = nd.bit \ (lo..hi)
      /\ x.n = nd.n - Cardinality(nd.bit \cap (lo..hi))
      /\ x.key = [p \in Slots(nd) |-> IF p \in lo..hi THEN after ELSE nd.key[p]]
    <2>1. DOMAIN nd = Fields
        BY DEF NodeOK
    <2>2. /\ SameFrame(nd, x) /\ x.bit = nd.bit \ (lo..hi)
          /\ x.n = nd.n - Cardinality(nd.bit \cap (lo..hi))
          /\ x.key = [p \in Slots(nd) |-> IF p \in lo..hi THEN after ELSE nd.key[p]]
        BY <2>1, ClearedFields
    <2> HIDE DEF x, after
    <2> QED BY <2>2, Zenon DEF SameFrame
<1>5. /\ hi + 1 < nd.cap => hi + 1 \in Slots(nd) /\ after = nd.key[hi + 1]
      /\ ~(hi + 1 < nd.cap) => after = End
    BY <1>1 DEF KeyAfter
<1> HIDE DEF x, after
<1>6. after \in Keys \cup {End} /\ after \in Int
    BY <1>2, <1>5, KeysAre
<1>7. \A p \in Slots(nd) : p <= hi => nd.key[p] <= after
    <2>1. ASSUME NEW p \in Slots(nd), p <= hi PROVE nd.key[p] <= after
        <3>1. CASE hi + 1 < nd.cap
            <4>1. p <= hi + 1
                BY <1>1, <1>2, <2>1
            <4> QED BY <1>5, <3>1, <4>1 DEF NodeOK, Ascending
        <3>2. CASE ~(hi + 1 < nd.cap)
            BY <1>2, <1>5, <3>2
        <3> QED BY <3>1, <3>2
    <2> QED BY <2>1
<1>8. \A q \in Slots(nd) : q > hi => after <= nd.key[q]
    <2>1. ASSUME NEW q \in Slots(nd), q > hi PROVE after <= nd.key[q]
        <3>1. hi + 1 < nd.cap /\ hi + 1 <= q
            BY <1>1, <1>2, <2>1
        <3> QED BY <1>5, <3>1 DEF NodeOK, Ascending
    <2> QED BY <2>1
<1>9. Slots(x) = Slots(nd)
    BY <1>4 DEF Slots
<1>10. \A p \in Slots(nd) : /\ p \in lo..hi => x.key[p] = after
                            /\ p \notin lo..hi => x.key[p] = nd.key[p]
    BY <1>4
<1>11. BitsOK(x)
    <2>1. x.bit \in SUBSET Slots(x)
        BY <1>3, <1>4, <1>9
    <2> QED BY <1>1, <1>4, <2>1 DEF BitsOK
<1>12. KeysOK(x)
    <2>1. x.key \in [Slots(x) -> Keys \cup {End}]
        <3>1. \A p \in Slots(nd) : x.key[p] \in Keys \cup {End}
            BY <1>2, <1>6, <1>10
        <3>2. x.key = [p \in Slots(nd) |-> x.key[p]]
            BY <1>4
        <3> QED BY <1>9, <3>1, <3>2
    <2>2. \A p \in x.bit : x.key[p] \in Keys
        BY <1>3, <1>4, <1>10
    <2> QED BY <2>1, <2>2 DEF KeysOK
<1>13. ASSUME NEW p \in Slots(nd), NEW q \in Slots(nd), p <= q PROVE x.key[p] <= x.key[q]
    <2>1. nd.key[p] <= nd.key[q]
        BY <1>13 DEF NodeOK, Ascending
    <2>2. p \in Int /\ q \in Int /\ nd.key[p] \in Int /\ nd.key[q] \in Int
        BY <1>2
    <2>3. CASE p \in lo..hi /\ q \in lo..hi
        BY <1>6, <1>10, <2>3
    <2>4. CASE p \in lo..hi /\ q \notin lo..hi
        <3>1. q > hi
            BY <1>1, <1>13, <2>2, <2>4
        <3> QED BY <1>8, <1>10, <2>4, <3>1
    <2>5. CASE p \notin lo..hi /\ q \in lo..hi
        <3>1. p <= hi
            BY <1>1, <1>13, <2>2, <2>5
        <3> QED BY <1>7, <1>10, <2>5, <3>1
    <2>6. CASE p \notin lo..hi /\ q \notin lo..hi
        BY <1>10, <2>1, <2>6
    <2> QED BY <2>3, <2>4, <2>5, <2>6
<1>14. ASSUME NEW p \in Gaps(x) PROVE x.key[p] = KeyAfter(x, p + 1)
    <2>1. p \in Slots(nd) /\ p \in Int /\ 0 <= p /\ p < nd.cap /\ (p \in nd.bit => p \in lo..hi)
        <3>1. p \in Slots(nd) /\ p \notin x.bit
            BY <1>9 DEF Gaps
        <3> QED BY <1>1, <1>2, <1>4, <3>1
    <2>2. CASE p \in lo..hi
        <3>1. x.key[p] = after
            BY <1>10, <2>1, <2>2
        <3>2. CASE p < hi
            <4>1. p + 1 \in lo..hi /\ p + 1 \in Slots(nd)
                BY <1>1, <2>1, <2>2, <3>2
            <4>2. x.key[p + 1] = after
                BY <1>10, <4>1
            <4> QED BY <1>1, <1>4, <3>1, <4>1, <4>2 DEF KeyAfter
        <3>3. CASE p = hi /\ hi + 1 < nd.cap
            <4>1. hi + 1 \notin lo..hi /\ hi + 1 \in Slots(nd)
                BY <1>1, <3>3
            <4>2. x.key[hi + 1] = after
                BY <1>5, <1>10, <3>3, <4>1
            <4> QED BY <1>1, <1>4, <3>1, <3>3, <4>2 DEF KeyAfter
        <3>4. CASE p = hi /\ ~(hi + 1 < nd.cap)
            BY <1>1, <1>4, <1>5, <3>1, <3>4 DEF KeyAfter
        <3> QED BY <1>1, <2>1, <2>2, <3>2, <3>3, <3>4
    <2>3. CASE p \notin lo..hi
        <3>1. p \in Gaps(nd) /\ x.key[p] = nd.key[p]
            BY <1>10, <2>1, <2>3 DEF Gaps
        <3>2. nd.key[p] = KeyAfter(nd, p + 1)
            BY <3>1 DEF NodeOK, GapsFilledIn
        <3>3. p + 1 \notin lo..hi
            <4>1. p \notin nd.bit
                BY <3>1 DEF Gaps
            <4> QED BY <1>1, <2>1, <2>3, <4>1
        <3>4. CASE p + 1 < nd.cap
            <4>1. p + 1 \in Slots(nd)
                BY <1>1, <2>1, <3>4
            <4>2. x.key[p + 1] = nd.key[p + 1]
                BY <1>10, <3>3, <4>1
            <4> QED BY <1>1, <1>4, <2>1, <3>1, <3>2, <3>4, <4>2 DEF KeyAfter
        <3>5. CASE ~(p + 1 < nd.cap)
            BY <1>1, <1>4, <2>1, <3>1, <3>2, <3>5 DEF KeyAfter
        <3> QED BY <3>4, <3>5
    <2> QED BY <2>2, <2>3
<1>15. x.n = Cardinality(x.bit)
    <2>1. Cardinality(nd.bit \ (lo..hi)) = Cardinality(nd.bit) - Cardinality(nd.bit \cap (lo..hi))
        BY <1>1, FS_Difference
    <2> QED BY <1>4, <2>1 DEF NodeOK
<1>16. Ascending(x) /\ GapsFilledIn(x)
    BY <1>9, <1>13, <1>14 DEF Ascending, GapsFilledIn
<1> QED BY <1>4, <1>11, <1>12, <1>15, <1>16 DEF NodeOK, SameFrame, x

LEMMA UnsetKeeps ==
    ASSUME NEW nd, NodeOK(nd), NEW hi \in Slots(nd), NEW lo \in Nat, NEW model \in Models,
           lo > hi \/ lo = 0 \/ lo - 1 \in nd.bit
    PROVE  NodeOK(Unset(nd, lo, hi, model))
<1>1. NodeOK(Cleared(nd, lo, hi))
    BY ClearedKeeps
<1>2. 8 \in {6, 7, 8}
    OBVIOUS
<1>3. NodeOK(resize(Cleared(nd, lo, hi), 8, model))
    BY <1>1, <1>2, ResizeKeeps
<1> QED BY <1>1, <1>3, UnsetIs

\* erase_one clears the first slot of the key and the gaps before it.  The word
\* behind the bitmap is empty.
LEMMA EraseOneIs ==
    ASSUME NEW nd, NodeOK(nd), NEW key \in Keys, NEW model \in Models,
           NEW x \in erase_one(nd, key, {}, model)
    PROVE  \/ x = nd /\ \A p \in nd.bit : nd.key[p] # key
           \/ \E pos \in nd.bit, lo \in Nat :
                 /\ x = Unset(nd, lo, pos, model) /\ (lo = 0 \/ lo - 1 \in nd.bit)
                 /\ nd.key[pos] = key /\ \A p \in nd.bit : nd.key[p] = key => pos <= p
                 /\ \A p \in nd.bit : p \in lo..pos <=> p = pos
<1> DEFINE l == lower_bound(nd, key)
           pos == find_lower(nd, key, {})
<1>1. l \in 0..nd.cap /\ \A p \in Slots(nd) : nd.key[p] < key <=> p < l
    BY BoundsFound DEF IsBound, LowerSide
<1>2. /\ nd.cap \in Nat /\ BitsOK(nd) /\ Slots(nd) = 0..nd.cap - 1
      /\ \A p \in nd.bit : p \in Int /\ p \in Slots(nd)
    BY NodeIs
<1> HIDE DEF l
<1>3. FirstFilled(nd, l, pos) /\ pos \in Nat /\ pos <= nd.cap
    <2>1. {} \in SUBSET (0..W - 1) /\ FALSE \in BOOLEAN
        OBVIOUS
    <2> QED BY <1>1, <1>2, <2>1, NextFilledIs DEF find_lower, l
<1> HIDE DEF pos
<1>4. x = IF KeyAfter(nd, pos) # key THEN nd ELSE erase_one_at(nd, pos, model)
    BY <1>2, <1>3 DEF erase_one, pos
<1>5. CASE KeyAfter(nd, pos) # key
    <2>1. ASSUME NEW p \in nd.bit, nd.key[p] = key PROVE FALSE
        <3>1. ~(nd.key[p] < key) /\ p \in Slots(nd) /\ p \in Int /\ l \in Int /\ p < nd.cap
            BY <1>1, <1>2, <2>1, KeysAre
        <3>2. p >= l
            BY <1>1, <3>1
        <3>3. pos \in nd.bit /\ pos <= p /\ pos >= l
            BY <1>2, <1>3, <3>1, <3>2 DEF FirstFilled
        <3>4. pos \in Slots(nd) /\ nd.key[pos] \in Int /\ nd.key[pos] # key
            BY <1>2, <1>5, <3>3, NodeIs, KeysAre DEF KeyAfter
        <3>5. ~(nd.key[pos] < key)
            BY <1>1, <1>3, <3>1, <3>3, <3>4
        <3>6. nd.key[pos] <= nd.key[p]
            BY <3>1, <3>3, <3>4 DEF NodeOK, Ascending
        <3> QED BY <2>1, <3>4, <3>5, <3>6, KeysAre
    <2> QED BY <1>4, <1>5, <2>1
<1>6. CASE KeyAfter(nd, pos) = key
    <2>1. pos < nd.cap /\ nd.key[pos] = key
        BY <1>2, <1>3, <1>6, KeysAre DEF KeyAfter
    <2> DEFINE lo == InsertFrom(nd, pos)
    <2>2. lo \in Nat /\ lo <= pos /\ (lo = 0 \/ lo - 1 \in nd.bit) /\ \A p \in nd.bit : p < pos => p < lo
        BY <1>2, <1>3, InsertFromIs
    <2>3. x = Unset(nd, lo, pos, model)
        BY <1>4, <1>6 DEF erase_one_at, InsertFrom
    <2> HIDE DEF lo
    <2>4. pos \in nd.bit /\ \A p \in nd.bit : p >= l => pos <= p
        BY <1>2, <1>3, <2>1 DEF FirstFilled
    <2>5. \A p \in nd.bit : nd.key[p] = key => pos <= p
        <3>1. ASSUME NEW p \in nd.bit, nd.key[p] = key PROVE pos <= p
            <4>1. ~(nd.key[p] < key) /\ p \in Slots(nd) /\ p \in Int /\ l \in Int
                BY <1>1, <1>2, <3>1, KeysAre
            <4>2. p >= l
                BY <1>1, <4>1
            <4> QED BY <2>4, <4>2
        <3> QED BY <3>1
    <2>6. \A p \in nd.bit : p \in lo..pos <=> p = pos
        BY <1>2, <1>3, <2>2
    <2> QED BY <2>1, <2>2, <2>3, <2>4, <2>5, <2>6
<1> QED BY <1>5, <1>6

\* erase clears all slots of the key, the gaps between them too.
LEMMA EraseIs ==
    ASSUME NEW nd, NodeOK(nd), NEW key \in Keys, NEW model \in Models
    PROVE  \/ erase(nd, key, model) = nd /\ \A p \in nd.bit : nd.key[p] # key
           \/ \E hi \in Slots(nd), lo \in Nat :
                 /\ erase(nd, key, model) = Unset(nd, lo, hi, model) /\ (lo = 0 \/ lo - 1 \in nd.bit)
                 /\ \A p \in nd.bit : p \in lo..hi <=> nd.key[p] = key
<1> DEFINE u == upper_bound(nd, key)
           same == {p \in 0..u - 1 : \A q \in p..u - 1 : nd.key[q] = key}
           lo == MinOf(same)
           zero == 0
<1>1. IsBound(nd, UpperSide(nd, key), u)
    BY BoundsFound
<1>2. erase(nd, key, model) = IF same = {} THEN nd ELSE Unset(nd, lo, u - 1, model)
    BY DEF erase
<1> HIDE DEF u
<1>3. u \in Nat /\ u <= nd.cap /\ nd.cap \in Nat /\ Slots(nd) = 0..nd.cap - 1 /\ key \in Int
    BY <1>1, UpperIs, NodeIs
<1>4. \A p \in Slots(nd) : p \in Int /\ nd.key[p] \in Int /\ (nd.key[p] <= key <=> p < u)
    BY <1>1, <1>3, NodeIs DEF IsBound, UpperSide
<1>5. ASSUME NEW p \in Slots(nd), nd.key[p] = key PROVE p \in same
    <2>1. p < u /\ p \in Nat /\ p \in 0..u - 1
        BY <1>3, <1>4, <1>5
    <2>2. ASSUME NEW q \in p..u - 1 PROVE nd.key[q] = key
        <3>1. q \in Slots(nd) /\ p <= q /\ q < u
            BY <1>3, <2>1
        <3>2. nd.key[p] <= nd.key[q]
            BY <3>1 DEF NodeOK, Ascending
        <3>3. nd.key[q] <= key /\ nd.key[q] \in Int
            BY <1>4, <3>1
        <3> QED BY <1>3, <1>5, <3>2, <3>3
    <2> QED BY <2>1, <2>2
<1>6. \A p \in nd.bit : p \in Slots(nd)
    BY NodeIs
<1>7. CASE same = {}
    BY <1>2, <1>5, <1>6, <1>7
<1>8. CASE same # {}
    <2>1. same \in SUBSET Int /\ zero \in Int /\ \A x \in same : zero <= x
        BY <1>3
    <2>2. same # {}
        BY <1>8
    <2> HIDE DEF zero, same
    <2>3. lo \in same /\ lo \in Int /\ \A y \in same : lo <= y
        BY <2>1, <2>2, MinOfIs
    <2> HIDE DEF lo
    <2>4. lo \in 0..u - 1 /\ \A q \in lo..u - 1 : nd.key[q] = key
        BY <2>3 DEF same
    <2>5. u - 1 \in Slots(nd) /\ lo \in Nat
        BY <1>3, <2>4
    <2>6. lo = 0 \/ lo - 1 \in nd.bit
        <3>1. CASE lo # 0
            <4>1. lo - 1 \in Slots(nd) /\ lo < nd.cap /\ lo \in lo..u - 1
                BY <1>3, <2>4, <3>1
            <4>2. nd.key[lo - 1] # key
                BY <1>5, <2>3, <2>5, <4>1
            <4>3. (lo - 1) + 1 = lo
                BY <2>5
            <4>4. KeyAfter(nd, (lo - 1) + 1) # nd.key[lo - 1]
                BY <1>3, <2>4, <2>5, <4>1, <4>2, <4>3 DEF KeyAfter
            <4> QED BY <4>1, <4>4, FilledBeforeStep
        <3> QED BY <3>1
    <2>7. ASSUME NEW p \in nd.bit PROVE p \in lo..u - 1 <=> nd.key[p] = key
        <3>1. p \in Slots(nd) /\ p \in Int
            BY <1>4, <1>6
        <3>2. nd.key[p] = key => lo <= p /\ p < u
            BY <1>3, <1>4, <1>5, <2>3, <3>1
        <3>3. p \in lo..u - 1 => nd.key[p] = key
            BY <2>4
        <3> QED BY <1>3, <2>5, <3>1, <3>2, <3>3
    <2>8. erase(nd, key, model) = Unset(nd, lo, u - 1, model)
        BY <1>2, <1>8
    <2> QED BY <2>5, <2>6, <2>7, <2>8
<1> QED BY <1>7, <1>8

\* The keys that erase_range is for.
InRange(k, start, finish, inclusive) == start <= k /\ IF inclusive THEN k <= finish ELSE k < finish

LEMMA EraseRangeIs ==
    ASSUME NEW nd, NodeOK(nd), NEW start \in Keys, NEW finish \in Keys, NEW inclusive \in BOOLEAN,
           NEW model \in Models
    PROVE  LET x == erase_range(nd, start, finish, inclusive, model)
           IN  \/ x = nd /\ \A p \in nd.bit : ~InRange(nd.key[p], start, finish, inclusive)
               \/ \E hi \in Slots(nd), lo \in Nat :
                     /\ x = Unset(nd, lo, hi, model) /\ (lo > hi \/ lo = 0 \/ lo - 1 \in nd.bit)
                     /\ \A p \in nd.bit : p \in lo..hi <=> InRange(nd.key[p], start, finish, inclusive)
<1> DEFINE u == IF inclusive THEN upper_bound(nd, finish) ELSE lower_bound(nd, finish)
           within == {p \in 0..u - 1 : \A q \in p..u - 1 : nd.key[q] >= start}
           lo == IF within = {} THEN u ELSE MinOf(within)
           zero == 0
           x == erase_range(nd, start, finish, inclusive, model)
<1>1. u \in 0..nd.cap /\ \A p \in Slots(nd) : (IF inclusive THEN nd.key[p] <= finish ELSE nd.key[p] < finish) <=> p < u
    BY BoundsFound DEF IsBound, UpperSide, LowerSide
<1>2. x = IF u = 0 THEN nd ELSE Unset(nd, lo, u - 1, model)
    BY DEF erase_range
<1> HIDE DEF u, x
<1>3. /\ u \in Nat /\ u <= nd.cap /\ nd.cap \in Nat /\ Slots(nd) = 0..nd.cap - 1 /\ start \in Int
      /\ \A p \in Slots(nd) : p \in Int /\ nd.key[p] \in Int
    BY <1>1, NodeIs, KeysAre
<1>4. \A p \in nd.bit : p \in Slots(nd)
    BY NodeIs
<1>5. \A p \in Slots(nd) : InRange(nd.key[p], start, finish, inclusive) <=> start <= nd.key[p] /\ p < u
    BY <1>1 DEF InRange
<1>6. CASE u = 0
    <2>1. \A p \in Slots(nd) : ~(p < u)
        BY <1>3, <1>6
    <2>2. x = nd
        BY <1>2, <1>6
    <2> QED BY <1>4, <1>5, <2>1, <2>2 DEF x
<1>7. CASE u # 0
    <2>1. u - 1 \in Slots(nd) /\ x = Unset(nd, lo, u - 1, model)
        BY <1>2, <1>3, <1>7
    <2>2. ASSUME NEW p \in Slots(nd), p < u, start <= nd.key[p] PROVE p \in within
        <3>1. ASSUME NEW q \in p..u - 1 PROVE nd.key[q] >= start
            <4>1. q \in Slots(nd) /\ p <= q
                BY <1>3
            <4>2. nd.key[p] <= nd.key[q]
                BY <4>1 DEF NodeOK, Ascending
            <4> QED BY <1>3, <2>2, <4>1, <4>2
        <3> QED BY <1>3, <2>2, <3>1
    <2>3. /\ lo \in Nat /\ (lo > u - 1 \/ lo = 0 \/ lo - 1 \in nd.bit)
          /\ \A p \in Slots(nd) : p < u => (lo <= p <=> start <= nd.key[p])
        <3>1. CASE within = {}
            <4>1. lo = u
                BY <3>1
            <4>2. \A p \in Slots(nd) : p < u => ~(start <= nd.key[p])
                BY <2>2, <3>1
            <4> HIDE DEF lo, within
            <4> QED BY <1>3, <4>1, <4>2
        <3>2. CASE within # {}
            <4> DEFINE m == MinOf(within)
            <4>1. within \in SUBSET Int /\ zero \in Int /\ \A y \in within : zero <= y
                BY <1>3
            <4>2. lo = m
                BY <3>2
            <4> HIDE DEF zero, within, lo
            <4>3. m \in within /\ m \in Int /\ \A y \in within : m <= y
                BY <3>2, <4>1, MinOfIs
            <4> HIDE DEF m
            <4>4. m \in 0..u - 1 /\ \A q \in m..u - 1 : nd.key[q] >= start
                BY <4>3 DEF within
            <4>5. m = 0 \/ m - 1 \in nd.bit
                <5>1. CASE m # 0
                    <6>1. m - 1 \in Slots(nd) /\ m - 1 < u /\ m \in m..u - 1 /\ m \in Slots(nd)
                        BY <1>3, <4>4, <5>1
                    <6>2. ~(start <= nd.key[m - 1])
                        BY <2>2, <4>3, <6>1
                    <6>3. nd.key[m] >= start
                        BY <4>4, <6>1
                    <6>4. nd.key[m] # nd.key[m - 1]
                        BY <1>3, <6>1, <6>2, <6>3
                    <6>5. (m - 1) + 1 = m /\ m < nd.cap
                        BY <1>3, <4>3, <4>4
                    <6>6. KeyAfter(nd, (m - 1) + 1) # nd.key[m - 1]
                        BY <1>3, <4>3, <6>4, <6>5 DEF KeyAfter
                    <6> QED BY <6>1, <6>6, FilledBeforeStep
                <5> QED BY <5>1
            <4>6. m \in Nat
                BY <1>3, <4>4
            <4>7. ASSUME NEW p \in Slots(nd), p < u PROVE m <= p <=> start <= nd.key[p]
                <5>1. start <= nd.key[p] => m <= p
                    BY <2>2, <4>3, <4>7
                <5>2. m <= p => nd.key[p] >= start
                    BY <1>3, <4>4, <4>6, <4>7
                <5> QED BY <1>3, <5>1, <5>2
            <4> QED BY <4>2, <4>5, <4>6, <4>7
        <3> QED BY <3>1, <3>2
    <2> HIDE DEF lo, within
    <2>4. ASSUME NEW p \in nd.bit PROVE p \in lo..u - 1 <=> InRange(nd.key[p], start, finish, inclusive)
        <3>1. p \in Slots(nd) /\ p \in Int
            BY <1>3, <1>4
        <3>2. p \in lo..u - 1 <=> lo <= p /\ p < u
            BY <1>3, <2>3, <3>1
        <3> QED BY <1>5, <2>3, <3>1, <3>2
    <2> QED BY <2>1, <2>3, <2>4 DEF x
<1> QED BY <1>6, <1>7

LEMMA EraseOneKeeps ==
    ASSUME NEW nd, NodeOK(nd), NEW key \in Keys, NEW model \in Models,
           NEW x \in erase_one(nd, key, {}, model)
    PROVE  NodeOK(x)
<1>1. nd.bit \subseteq Slots(nd)
    BY NodeIs
<1> QED BY <1>1, EraseOneIs, UnsetKeeps

LEMMA EraseKeeps ==
    ASSUME NEW nd, NodeOK(nd), NEW key \in Keys, NEW model \in Models
    PROVE  NodeOK(erase(nd, key, model))
BY EraseIs, UnsetKeeps

LEMMA EraseRangeKeeps ==
    ASSUME NEW nd, NodeOK(nd), NEW start \in Keys, NEW finish \in Keys, NEW inclusive \in BOOLEAN,
           NEW model \in Models
    PROVE  NodeOK(erase_range(nd, start, finish, inclusive, model))
BY EraseRangeIs, UnsetKeeps

-----------------------------------------------------------------------------
(* The invariant is inductive. *)

LEMMA InitOK ==
    ASSUME Init
    PROVE  IInv
<1>1. PICK vals \in Loads, model \in Models : node = bulk_load(vals, model)
    BY DEF Init, build_model
<1>2. NodeOK(node)
    BY <1>1, BulkLoadKeeps
<1> QED BY <1>2 DEF IInv, Init, CallOK

\* insert, at the first and at a further attempt.
LEMMA InsertOK ==
    ASSUME IInv, NEW key \in Keys, NEW payload, pending.op = "insert", insert(key, payload)
    PROVE  IInv'
<1>1. NodeOK(node) /\ 6 \in {6, 7, 8}
    BY DEF IInv
<1>2. CASE /\ Full(node) => node.n * 10 <= MaxSlots * 6
           /\ \E nd \in IF Full(node) THEN {resize(node, 6, model) : model \in build_model}
                        ELSE {node} :
                 node' = PutElement(nd, key, payload)
           /\ fail' = 0 /\ pending' = NoCall
    <2>1. PICK nd \in IF Full(node) THEN {resize(node, 6, model) : model \in build_model} ELSE {node} :
              node' = PutElement(nd, key, payload)
        BY <1>2
    <2>2. node.n \in Nat /\ node.cap \in Nat /\ node.expand \in Int /\ node.expand >= 1
          /\ node.expand <= node.cap * 10
        BY <1>1, NodeIs DEF NodeOK
    <2>3. NodeOK(nd) /\ nd.n < nd.cap
        <3>1. CASE Full(node)
            <4>1. PICK model \in Models : nd = resize(node, 6, model)
                BY <2>1, <3>1 DEF build_model
            <4>2. node.n > 0
                BY <2>2, <3>1 DEF Full
            <4> QED BY <1>1, <4>1, <4>2, ResizeKeeps
        <3>2. CASE ~Full(node)
            <4>1. nd = node
                BY <2>1, <3>2
            <4>2. node.n < node.cap
                BY <2>2, <3>2 DEF Full
            <4> QED BY <1>1, <4>1, <4>2
        <3> QED BY <3>1, <3>2
    <2>4. NodeOK(PutElement(nd, key, payload))
        BY <2>3, PutElementKeeps
    <2>5. NodeOK(node')
        BY <2>1, <2>4
    <2> QED BY <1>2, <2>5 DEF IInv, CallOK
<1>3. CASE /\ fail' \in FailFlags(node)
           /\ UNCHANGED <<node, pending>>
    BY <1>1, <1>3 DEF IInv
<1> QED BY <1>2, <1>3 DEF insert

\* The tree calls with arguments.
LEMMA CallsAre ==
    /\ \A key \in Keys, payload \in Payloads :
          CallInsert(key, payload) => \E request : CallOK(request) /\ Call(request)
    /\ \A key \in Keys : CallErase(key) => \E request : CallOK(request) /\ Call(request)
    /\ \A start \in Keys, finish \in Keys, inclusive \in BOOLEAN :
          CallEraseRange(start, finish, inclusive) => \E request : CallOK(request) /\ Call(request)
<1>1. ASSUME NEW key \in Keys, NEW payload \in Payloads, CallInsert(key, payload)
      PROVE  \E request : CallOK(request) /\ Call(request)
    <2> DEFINE r == [NoCall EXCEPT !.op = "insert", !.key = key, !.payload = payload]
    <2>1. CallOK(r)
        BY DEF CallOK, NoCall
    <2>2. Call(r)
        BY <1>1, Zenon DEF CallInsert
    <2> HIDE DEF r
    <2> QED BY <2>1, <2>2
<1>2. ASSUME NEW key \in Keys, CallErase(key) PROVE \E request : CallOK(request) /\ Call(request)
    <2>1. PICK op \in {"erase_one", "erase"} : Call([NoCall EXCEPT !.op = op, !.key = key])
        BY <1>2 DEF CallErase
    <2> DEFINE r == [NoCall EXCEPT !.op = op, !.key = key]
    <2>2. CallOK(r)
        BY DEF CallOK, NoCall
    <2>3. Call(r)
        BY <2>1, Zenon
    <2> HIDE DEF r
    <2> QED BY <2>2, <2>3
<1>3. ASSUME NEW start \in Keys, NEW finish \in Keys, NEW inclusive \in BOOLEAN,
             CallEraseRange(start, finish, inclusive)
      PROVE  \E request : CallOK(request) /\ Call(request)
    <2> DEFINE r == [NoCall EXCEPT !.op = "erase_range", !.key = start, !.finish = finish,
                                   !.inclusive = inclusive]
    <2>1. CallOK(r)
        BY DEF CallOK, NoCall
    <2>2. Call(r)
        BY <1>3, Zenon DEF CallEraseRange
    <2> HIDE DEF r
    <2> QED BY <2>1, <2>2
<1> QED BY <1>1, <1>2, <1>3

LEMMA NextOK ==
    ASSUME PastEnd = {{}}, IInv, [Next]_vars
    PROVE  IInv'
<1>1. /\ NodeOK(node) /\ CallOK(pending) /\ 6 \in {6, 7, 8}
      /\ fail # 0 => pending.op = "insert"
    BY DEF IInv
<1>2. ASSUME NodeOK(node'), pending' = pending, fail' = 0 PROVE IInv'
    BY <1>1, <1>2 DEF IInv
<1>3. ASSUME NEW request, CallOK(request), Call(request) PROVE IInv'
    <2>1. fail' = 0
        BY <1>1, <1>3 DEF Call, NoCall
    <2> QED BY <1>1, <1>3, <2>1 DEF IInv, Call
<1>4. CASE Insert
    <2>1. pending.op = "insert" /\ pending.key \in Keys /\ insert(pending.key, pending.payload)
        BY <1>1, <1>4 DEF Insert, CallOK, NoCall
    <2> QED BY <2>1, InsertOK
<1>5. CASE Retrain
    <2>1. PICK model \in Models : node' = resize(node, 6, model)
        BY <1>5 DEF Retrain, build_model
    <2>2. NodeOK(resize(node, 6, model))
        BY <1>1, ResizeKeeps
    <2> QED BY <1>2, <1>5, <2>1, <2>2 DEF Retrain
<1>6. ASSUME NEW mid \in Keys, Split(mid) PROVE IInv'
    <2> DEFINE b == lower_bound(node, mid)
    <2>1. PICK model \in Models :
              node' = IF pending.key < mid THEN bulk_load_from_existing(node, 0, b, model)
                      ELSE bulk_load_from_existing(node, b, node.cap, model)
        BY <1>6 DEF Split, build_model
    <2>2. b \in Int /\ node.cap \in Int /\ 0 \in Int
        BY <1>1, BoundsFound, NodeIs DEF IsBound
    <2> HIDE DEF b
    <2>3. /\ NodeOK(bulk_load_from_existing(node, 0, b, model))
          /\ NodeOK(bulk_load_from_existing(node, b, node.cap, model))
        BY <1>1, <2>2, BulkLoadFromExistingKeeps
    <2> QED BY <1>2, <1>6, <2>1, <2>3 DEF Split
<1>7. ASSUME NEW op \in {"erase_one", "erase", "erase_range"}, Deleted(op), NodeOK(node') PROVE IInv'
    <2>1. fail' = 0 /\ pending' = NoCall
        BY <1>1, <1>7 DEF Deleted
    <2> QED BY <1>7, <2>1 DEF IInv, CallOK
<1>8. CASE EraseOne
    <2>1. PICK model \in Models : node' \in erase_one(node, pending.key, {}, model)
        BY <1>8 DEF EraseOne, build_model
    <2>2. pending.key \in Keys
        BY <1>1, <1>8 DEF EraseOne, Deleted, CallOK, NoCall
    <2>3. NodeOK(node')
        BY <1>1, <2>1, <2>2, EraseOneKeeps
    <2> QED BY <1>7, <1>8, <2>3 DEF EraseOne
<1>9. CASE Erase
    <2>1. PICK model \in Models : node' = erase(node, pending.key, model)
        BY <1>9 DEF Erase, build_model
    <2>2. pending.key \in Keys
        BY <1>1, <1>9 DEF Erase, Deleted, CallOK, NoCall
    <2>3. NodeOK(erase(node, pending.key, model))
        BY <1>1, <2>2, EraseKeeps
    <2> QED BY <1>7, <1>9, <2>1, <2>3 DEF Erase
<1>10. CASE EraseRange
    <2> DEFINE start == pending.key
               finish == pending.finish
               inclusive == pending.inclusive
    <2>1. PICK model \in Models : node' = erase_range(node, start, finish, inclusive, model)
        BY <1>10 DEF EraseRange, build_model
    <2>2. start \in Keys /\ finish \in Keys /\ inclusive \in BOOLEAN
        BY <1>1, <1>10 DEF EraseRange, Deleted, CallOK, NoCall
    <2> HIDE DEF start, finish, inclusive
    <2>3. NodeOK(erase_range(node, start, finish, inclusive, model))
        BY <1>1, <2>2, EraseRangeKeeps
    <2> QED BY <1>7, <1>10, <2>1, <2>3 DEF EraseRange
<1>11. CASE UNCHANGED vars
    BY <1>1, <1>11 DEF vars, IInv
<1>12. CASE \E request : CallOK(request) /\ Call(request)
    BY <1>3, <1>12
<1> QED BY <1>4, <1>5, <1>6, <1>8, <1>9, <1>10, <1>11, <1>12, CallsAre DEF Next

LEMMA Inductive ==
    ASSUME PastEnd = {{}}
    PROVE  Spec => []IInv
<1>1. Init => IInv
    BY InitOK
<1>2. IInv /\ [Next]_vars => IInv'
    BY NextOK
<1> QED BY <1>1, <1>2, PTL DEF Spec

-----------------------------------------------------------------------------
(* What it says. *)

LEMMA StructureIs ==
    ASSUME IInv
    PROVE  ValidStructure
<1>1. NodeOK(node)
    BY DEF IInv
<1>2. node.cap \in Nat /\ node.cap >= 1 /\ Slots(node) = 0..node.cap - 1
    BY <1>1, NodeIs
<1>3. ASSUME NEW i \in 0..node.cap - 2
      PROVE  /\ node.key[i] <= node.key[i + 1]
             /\ node.key[i] < node.key[i + 1] => check_exists(node, i)
    <2>1. i \in Slots(node) /\ i + 1 \in Slots(node) /\ i <= i + 1 /\ i + 1 < node.cap
        BY <1>2
    <2>2. node.key[i] <= node.key[i + 1] /\ node.key[i] \in Int /\ node.key[i + 1] \in Int
        BY <1>1, <2>1, NodeIs DEF NodeOK, Ascending
    <2>3. node.key[i] < node.key[i + 1] => KeyAfter(node, i + 1) # node.key[i]
        BY <1>2, <2>1, <2>2 DEF KeyAfter
    <2> QED BY <1>1, <2>1, <2>2, <2>3, FilledBeforeStep DEF check_exists
<1>4. (node.key[node.cap - 1] = End) = (node.cap - 1 \notin node.bit)
    <2>1. node.cap - 1 \in Slots(node)
        BY <1>2
    <2>2. node.cap - 1 \in node.bit => node.key[node.cap - 1] # End
        BY <1>1, NodeIs, KeysAre
    <2>3. node.cap - 1 \notin node.bit => node.key[node.cap - 1] = End
        <3>1. CASE node.cap - 1 \notin node.bit
            <4>1. node.key[node.cap - 1] = KeyAfter(node, (node.cap - 1) + 1)
                BY <1>1, <2>1, <3>1 DEF NodeOK, GapsFilledIn, Gaps
            <4> QED BY <1>2, <4>1 DEF KeyAfter
        <3> QED BY <3>1
    <2> QED BY <2>2, <2>3
<1>5. Cardinality(node.bit) = node.n
    BY <1>1 DEF NodeOK
<1> QED BY <1>3, <1>4, <1>5 DEF ValidStructure

\* FirstFrom of SearchExact.
LEMMA FirstFromIs ==
    ASSUME NEW nd, NodeOK(nd), NEW p \in Int, NEW q, FirstFilled(nd, p, q)
    PROVE  IF \E r \in nd.bit : r >= p THEN q = MinOf({r \in nd.bit : r >= p}) ELSE q >= nd.cap
<1>1. CASE \E r \in nd.bit : r >= p
    <2> DEFINE S == {r \in nd.bit : r >= p}
    <2>1. \A r \in nd.bit : r \in Int
        BY NodeIs
    <2>2. S \in SUBSET Int /\ S # {} /\ \A x \in S : p <= x
        BY <1>1, <2>1
    <2>3. q \in S /\ q \in Int /\ \A x \in S : q <= x
        BY <1>1, <2>1 DEF FirstFilled
    <2> HIDE DEF S
    <2>4. MinOf(S) \in S /\ MinOf(S) \in Int /\ \A y \in S : MinOf(S) <= y
        BY <2>2, MinOfIs
    <2>5. q <= MinOf(S) /\ MinOf(S) <= q
        BY <2>3, <2>4
    <2>6. q = MinOf(S)
        BY <2>3, <2>4, <2>5
    <2> QED BY <1>1, <2>6 DEF S
<1>2. CASE ~ \E r \in nd.bit : r >= p
    BY <1>2 DEF FirstFilled
<1> QED BY <1>1, <1>2

LEMMA FindKeyIs ==
    ASSUME NEW nd, NodeOK(nd), NEW key \in Keys, NEW m \in Slots(nd),
           NEW u, IsBound(nd, UpperSide(nd, key), u)
    PROVE  LET f == find_key(nd, m, key)
           IN  IF \E p \in nd.bit : nd.key[p] = key
               THEN f \in nd.bit /\ nd.key[f] = key /\ f = u - 1 ELSE f = -1
<1> DEFINE f == find_key(nd, m, key)
<1>1. /\ u \in Nat /\ u <= nd.cap /\ key \in Int /\ nd.cap \in Nat /\ Slots(nd) = 0..nd.cap - 1
      /\ \A p \in Slots(nd) : nd.key[p] \in Int
    BY UpperIs, NodeIs
<1>2. exponential_search_upper_bound(nd, m, key) = u
    BY <1>1, SearchFinds DEF exponential_search_upper_bound, UpperSide
<1>3. f = IF u - 1 < 0 THEN -1 ELSE IF nd.key[u - 1] # key THEN -1 ELSE u - 1
    BY <1>2 DEF find_key
<1> HIDE DEF f
<1>4. ASSUME u >= 1, nd.key[u - 1] = key PROVE u - 1 \in nd.bit
    <2>1. u - 1 \in Slots(nd)
        BY <1>1, <1>4
    <2>2. KeyAfter(nd, (u - 1) + 1) # nd.key[u - 1]
        <3>1. (u - 1) + 1 = u
            BY <1>1
        <3>2. CASE u < nd.cap
            <4>1. u \in Slots(nd)
                BY <1>1, <3>2
            <4>2. nd.key[u] > key /\ nd.key[u] \in Int
                BY <1>1, <4>1, UpperIs
            <4> QED BY <1>1, <1>4, <3>1, <3>2, <4>2 DEF KeyAfter
        <3>3. CASE ~(u < nd.cap)
            BY <1>1, <1>4, <3>1, <3>3, KeysAre DEF KeyAfter
        <3> QED BY <3>2, <3>3
    <2> QED BY <2>1, <2>2, FilledBeforeStep
<1>5. ASSUME NEW p \in nd.bit, nd.key[p] = key PROVE u >= 1 /\ nd.key[u - 1] = key
    <2>1. p \in Slots(nd) /\ p \in Int /\ 0 <= p
        BY NodeIs
    <2>2. p < u
        <3>1. ~(p >= u)
            <4>1. p >= u => nd.key[p] > key
                BY <2>1, UpperIs
            <4> QED BY <1>1, <1>5, <4>1
        <3> QED BY <1>1, <2>1, <3>1
    <2>3. u - 1 \in Slots(nd) /\ p <= u - 1 /\ u - 1 < u /\ u >= 1
        BY <1>1, <2>1, <2>2
    <2>4. nd.key[p] <= nd.key[u - 1]
        BY <2>1, <2>3 DEF NodeOK, Ascending
    <2>5. nd.key[u - 1] <= key
        BY <2>3, UpperIs
    <2>6. nd.key[u - 1] \in Int
        BY <1>1, <2>3
    <2> QED BY <1>1, <1>5, <2>3, <2>4, <2>5, <2>6
<1>6. CASE \E p \in nd.bit : nd.key[p] = key
    <2>1. u >= 1 /\ nd.key[u - 1] = key
        BY <1>5, <1>6
    <2>2. u - 1 \in nd.bit
        BY <1>4, <2>1
    <2>3. f = u - 1
        BY <1>1, <1>3, <2>1
    <2> QED BY <1>6, <2>1, <2>2, <2>3 DEF f
<1>7. CASE ~ \E p \in nd.bit : nd.key[p] = key
    <2>1. u >= 1 => nd.key[u - 1] # key
        BY <1>4, <1>7
    <2>2. f = -1
        BY <1>1, <1>3, <2>1
    <2> QED BY <1>7, <2>2 DEF f
<1> QED BY <1>6, <1>7

LEMMA SearchIs ==
    ASSUME IInv
    PROVE  SearchExact
<1>1. NodeOK(node)
    BY DEF IInv
<1>2. node.cap \in Nat /\ BitsOK(node)
    BY <1>1, NodeIs
<1>3. SUFFICES ASSUME NEW key \in Keys, NEW m \in Slots(node)
      PROVE  LET ub == Cardinality({p \in Slots(node) : node.key[p] <= key})
                 lb == Cardinality({p \in Slots(node) : node.key[p] < key})
                 FirstFrom(p, q) == IF \E r \in node.bit : r >= p
                                    THEN q = MinOf({r \in node.bit : r >= p}) ELSE q >= node.cap
             IN  /\ exponential_search_upper_bound(node, m, key) = ub
                 /\ exponential_search_lower_bound(node, m, key) = lb
                 /\ LET f == find_key(node, m, key)
                    IN  IF \E p \in node.bit : node.key[p] = key
                        THEN f \in node.bit /\ node.key[f] = key /\ f = ub - 1 ELSE f = -1
                 /\ \A past \in PastEnd :
                       /\ FirstFrom(lb, find_lower(node, key, past))
                       /\ FirstFrom(ub, find_upper(node, key, past))
    BY DEF SearchExact
<1> DEFINE ub == Cardinality({p \in Slots(node) : node.key[p] <= key})
           lb == Cardinality({p \in Slots(node) : node.key[p] < key})
           FirstFrom(p, q) == IF \E r \in node.bit : r >= p
                              THEN q = MinOf({r \in node.bit : r >= p}) ELSE q >= node.cap
<1>4. IsBound(node, UpperSide(node, key), ub) /\ IsBound(node, LowerSide(node, key), lb)
    BY <1>1, BoundsOf DEF UpperSide, LowerSide
<1> HIDE DEF ub, lb
<1>5. exponential_search_upper_bound(node, m, key) = ub
    BY <1>2, <1>4, SearchFinds DEF exponential_search_upper_bound, UpperSide
<1>6. exponential_search_lower_bound(node, m, key) = lb
    BY <1>2, <1>4, SearchFinds DEF exponential_search_lower_bound, LowerSide
<1>7. LET f == find_key(node, m, key)
      IN  IF \E p \in node.bit : node.key[p] = key
          THEN f \in node.bit /\ node.key[f] = key /\ f = ub - 1 ELSE f = -1
    BY <1>1, <1>4, FindKeyIs
<1>8. predict_position(node, key) \in Slots(node)
    BY <1>1, KeysAre, PredictPositionIs
<1>9. upper_bound(node, key) = ub /\ lower_bound(node, key) = lb
    BY <1>2, <1>4, <1>8, SearchFinds
       DEF upper_bound, lower_bound, exponential_search_upper_bound,
           exponential_search_lower_bound, UpperSide, LowerSide
<1>10. ASSUME NEW past \in PastEnd
       PROVE  FirstFrom(lb, find_lower(node, key, past)) /\ FirstFrom(ub, find_upper(node, key, past))
    <2>1. past \in SUBSET (0..W - 1)
        BY AlexDataNodeAssumption
    <2>2. ub \in 0..node.cap /\ lb \in 0..node.cap /\ ub \in Int /\ lb \in Int
        BY <1>4 DEF IsBound
    <2>3. /\ FirstFilled(node, lb, find_lower(node, key, past))
          /\ FirstFilled(node, ub, find_upper(node, key, past))
        BY <1>2, <1>9, <2>1, <2>2, NextFilledIs DEF find_lower, find_upper
    <2> QED BY <1>1, <2>2, <2>3, FirstFromIs
<1> QED BY <1>5, <1>6, <1>7, <1>10 DEF ub, lb

LEMMA ClosestIs ==
    ASSUME IInv
    PROVE  ClosestGapExact
<1>1. BitsOK(node)
    BY NodeIs DEF IInv
<1>2. ASSUME NEW pos \in 0..node.cap
      PROVE  LET p == Minimum(pos, node.cap - 1)
                 g == closest_gap(node, pos)
             IN  IF Gaps(node) = {} THEN g = -1
                 ELSE g \in Gaps(node) /\ \A q \in Gaps(node) : Distance(p, g) <= Distance(p, q)
    BY <1>1, ClosestGapIs DEF Nearest
<1> QED BY <1>2 DEF ClosestGapExact, Distance

-----------------------------------------------------------------------------
(* The layout the costs are computed from. *)

\* A set is listed in ascending order in one way only.
LEMMA AscendsOnce ==
    ASSUME NEW S \in SUBSET Int, NEW s, NEW t, Ascends(s, S), Ascends(t, S)
    PROVE  \A i \in 1..Cardinality(S) : s[i] = t[i]
<1> DEFINE n == Cardinality(S)
           T == {i \in 0..n : \A j \in 1..i : s[j] = t[j]}
<1>1. /\ n \in Nat /\ \A i \in 1..n : s[i] \in S /\ t[i] \in S /\ s[i] \in Int /\ t[i] \in Int
      /\ \A i, j \in 1..n : i < j => s[i] < s[j] /\ t[i] < t[j]
      /\ \A p \in S : (\E i \in 1..n : s[i] = p) /\ (\E i \in 1..n : t[i] = p)
    BY DEF Ascends
<1> HIDE DEF n
<1>2. 0 \in T
    BY <1>1
<1>3. ASSUME NEW i \in 0..n - 1, i \in T PROVE i + 1 \in T
    <2>1. i + 1 \in 1..n /\ i + 1 \in 0..n /\ i \in Int /\ \A j \in 1..n : j < i + 1 => s[j] = t[j]
        BY <1>1, <1>3
    <2>2. PICK a \in 1..n : s[a] = t[i + 1]
        BY <1>1, <2>1
    <2>3. PICK b \in 1..n : t[b] = s[i + 1]
        BY <1>1, <2>1
    <2>4. ~(a < i + 1)
        <3>1. a < i + 1 => t[a] < t[i + 1] /\ s[a] = t[a]
            BY <1>1, <2>1
        <3>2. t[a] \in Int /\ t[i + 1] \in Int
            BY <1>1, <2>1
        <3> QED BY <2>2, <3>1, <3>2
    <2>5. ~(b < i + 1)
        <3>1. b < i + 1 => s[b] < s[i + 1] /\ s[b] = t[b]
            BY <1>1, <2>1
        <3>2. s[b] \in Int /\ s[i + 1] \in Int
            BY <1>1, <2>1
        <3> QED BY <2>3, <3>1, <3>2
    <2>6. s[i + 1] <= s[a] /\ t[i + 1] <= t[b]
        <3>1. a = i + 1 \/ i + 1 < a
            BY <1>1, <2>1, <2>4
        <3>2. b = i + 1 \/ i + 1 < b
            BY <1>1, <2>1, <2>5
        <3>3. s[i + 1] \in Int /\ t[i + 1] \in Int /\ s[a] \in Int /\ t[b] \in Int
            BY <1>1, <2>1
        <3> QED BY <1>1, <2>1, <3>1, <3>2, <3>3
    <2>7. s[i + 1] = t[i + 1]
        <3>1. s[i + 1] \in Int /\ t[i + 1] \in Int
            BY <1>1, <2>1
        <3> QED BY <2>2, <2>3, <2>6, <3>1
    <2>8. \A j \in 1..i + 1 : s[j] = t[j]
        BY <1>1, <2>1, <2>7
    <2> QED BY <2>1, <2>8
<1> HIDE DEF T
<1>4. \A i \in 0..n : i \in T
    BY <1>1, <1>2, <1>3, UpTo
<1>5. n \in T
    BY <1>1, <1>4
<1> QED BY <1>5 DEF T, n

\* A prediction clamped to the array.
Clamp(model, key, cap) == Maximum(0, Minimum(cap - 1, predict(model, key)))

\* The clamp makes no difference: the key before it and the room for the keys to
\* come bound the place anyway.
LEMMA ClampIs ==
    ASSUME NEW vals, ValuesOK(vals), NEW model \in Models, NEW cap \in Nat, Len(vals) <= cap,
           NEW i \in 1..Len(vals), NEW b \in Int, b >= -1
    PROVE  Minimum(Maximum(Clamp(model, vals[i][1], cap), b + 1), cap - (Len(vals) - i + 1))
             = Place(vals, model, cap, i, b)
<1> DEFINE c == predict(model, vals[i][1])
<1>1. c \in Int
    BY PredictIs, KeysAre DEF ValuesOK
<1>2. Len(vals) \in Nat /\ i \in Int /\ 1 <= i /\ i <= Len(vals)
    BY DEF ValuesOK
<1> DEFINE top == cap - (Len(vals) - i + 1)
<1>3. top \in Int /\ top <= cap - 1 /\ 0 <= top /\ cap \in Int
    BY <1>2
<1> HIDE DEF c, top
<1>4. Minimum(Maximum(Maximum(0, Minimum(cap - 1, c)), b + 1), top) = Minimum(Maximum(c, b + 1), top)
    BY <1>1, <1>3 DEF Minimum, Maximum
<1> QED BY <1>4 DEF Place, Clamp, c, top

\* So the places computed with the clamp are the places of the keys.
LEMMA ClampedPlaces ==
    ASSUME NEW vals, ValuesOK(vals), NEW model \in Models, NEW cap \in Nat, Len(vals) <= cap,
           NEW f, f[0] = -1,
           \A i \in 1..Len(vals) :
              f[i] = Minimum(Maximum(Clamp(model, vals[i][1], cap), f[i - 1] + 1),
                             cap - (Len(vals) - i + 1))
    PROVE  \A i \in 1..Len(vals) : f[i] = Positions(vals, model, cap)[i]
<1> DEFINE n == Len(vals)
           at == Positions(vals, model, cap)
           T == {i \in 0..n : /\ f[i] \in Int /\ f[i] >= -1
                              /\ f[i] = IF i = 0 THEN -1 ELSE at[i]}
<1>1. n \in Nat
    BY DEF ValuesOK
<1>2. /\ \A i \in 1..n : at[i] \in 0..cap - 1
      /\ \A i \in 1..n : at[i] = Place(vals, model, cap, i, IF i = 1 THEN -1 ELSE at[i - 1])
    BY PositionsAre, ZenonT(40) DEF SlotsFor
<1> HIDE DEF at
<1>3. 0 \in T
    BY <1>1
<1>4. ASSUME NEW i \in 0..n - 1, i \in T PROVE i + 1 \in T
    <2>1. i + 1 \in 1..n /\ i + 1 \in 0..n /\ i \in Int /\ (i + 1) - 1 = i /\ (i + 1 = 1 <=> i = 0)
        BY <1>1
    <2>2. f[i] \in Int /\ f[i] >= -1 /\ f[i] = IF i = 0 THEN -1 ELSE at[i]
        BY <1>4
    <2>3. at[i + 1] = Place(vals, model, cap, i + 1, f[i])
        BY <1>2, <2>1, <2>2
    <2> DEFINE j == i + 1
    <2>4. f[j] = Minimum(Maximum(Clamp(model, vals[j][1], cap), f[i] + 1), cap - (n - j + 1))
        BY <2>1
    <2>5. j \in 1..n
        BY <2>1
    <2> HIDE DEF j
    <2>6. f[j] = Place(vals, model, cap, j, f[i])
        BY <2>2, <2>4, <2>5, ClampIs
    <2>7. f[i + 1] = at[i + 1]
        BY <2>3, <2>6 DEF j
    <2>8. at[i + 1] \in Int /\ at[i + 1] >= 0
        BY <1>2, <2>1
    <2> QED BY <2>1, <2>7, <2>8
<1> HIDE DEF T
<1>5. \A i \in 0..n : i \in T
    BY <1>1, <1>3, <1>4, UpTo
<1>6. ASSUME NEW i \in 1..n PROVE f[i] = at[i]
    <2>1. i \in 0..n /\ i # 0
        BY <1>1
    <2> QED BY <1>5, <2>1 DEF T
<1> QED BY <1>6 DEF at

\* There are such places.
LEMMA ClampedExist ==
    ASSUME NEW vals, ValuesOK(vals), NEW model \in Models, NEW cap \in Nat, Len(vals) <= cap
    PROVE  LET at == Positions(vals, model, cap)
               h == [i \in 0..Len(vals) |-> IF i = 0 THEN -1 ELSE at[i]]
           IN  h = [i \in 0..Len(vals) |->
                      IF i = 0 THEN -1
                      ELSE Minimum(Maximum(Clamp(model, vals[i][1], cap), h[i - 1] + 1),
                                   cap - (Len(vals) - i + 1))]
<1> DEFINE n == Len(vals)
           at == Positions(vals, model, cap)
           h == [i \in 0..n |-> IF i = 0 THEN -1 ELSE at[i]]
<1>1. n \in Nat
    BY DEF ValuesOK
<1>2. /\ \A i \in 1..n : at[i] \in 0..cap - 1
      /\ \A i \in 1..n : at[i] = Place(vals, model, cap, i, IF i = 1 THEN -1 ELSE at[i - 1])
    BY PositionsAre DEF SlotsFor
<1> HIDE DEF at
<1>3. \A i \in 0..n : h[i] = IF i = 0 THEN -1 ELSE at[i]
    OBVIOUS
<1>4. h = [i \in 0..n |-> h[i]]
    OBVIOUS
<1> HIDE DEF h
<1>5. ASSUME NEW i \in 0..n
      PROVE  h[i] = IF i = 0 THEN -1
                    ELSE Minimum(Maximum(Clamp(model, vals[i][1], cap), h[i - 1] + 1),
                                 cap - (n - i + 1))
    <2>1. CASE i = 0
        BY <1>3, <2>1
    <2>2. CASE i # 0
        <3>1. i \in 1..n /\ i - 1 \in 0..n /\ (i - 1 = 0 <=> i = 1) /\ (i # 1 => i - 1 \in 1..n)
            BY <1>1, <2>2
        <3>2. h[i - 1] = (IF i = 1 THEN -1 ELSE at[i - 1]) /\ h[i] = at[i]
            BY <1>3, <2>2, <3>1
        <3>3. h[i - 1] \in Int /\ h[i - 1] >= -1
            BY <1>2, <3>1, <3>2
        <3>4. at[i] = Place(vals, model, cap, i, h[i - 1])
            BY <1>2, <3>1, <3>2
        <3>5. Minimum(Maximum(Clamp(model, vals[i][1], cap), h[i - 1] + 1), cap - (n - i + 1))
                = Place(vals, model, cap, i, h[i - 1])
            BY <3>1, <3>3, ClampIs
        <3> QED BY <2>2, <3>2, <3>4, <3>5
    <2> QED BY <2>1, <2>2
<1> QED BY <1>4, <1>5 DEF h, at

LEMMA ImplicitIs ==
    ASSUME NEW vals, ValuesOK(vals), NEW model \in Models, NEW cap \in Nat, Len(vals) <= cap
    PROVE  build_node_implicit(vals, model, cap)
             = [i \in 1..Len(vals) |-> <<Positions(vals, model, cap)[i], Clamp(model, vals[i][1], cap)>>]
<1> DEFINE n == Len(vals)
           at == Positions(vals, model, cap)
           Is(f) == f = [i \in 0..n |->
                          IF i = 0 THEN -1
                          ELSE Minimum(Maximum(Clamp(model, vals[i][1], cap), f[i - 1] + 1),
                                       cap - (n - i + 1))]
           f == CHOOSE g : Is(g)
           h == [i \in 0..n |-> IF i = 0 THEN -1 ELSE at[i]]
<1>0. Is(h)
    BY ClampedExist
<1> HIDE DEF h
<1>1. Is(f)
    BY <1>0
<1>2. build_node_implicit(vals, model, cap) = [i \in 1..n |-> <<f[i], Clamp(model, vals[i][1], cap)>>]
    BY DEF build_node_implicit, Clamp
<1>3. n \in Nat
    BY DEF ValuesOK
<1> HIDE DEF f
<1>4. f[0] = -1
    BY <1>1, <1>3
<1>5. \A i \in 1..n : f[i] = Minimum(Maximum(Clamp(model, vals[i][1], cap), f[i - 1] + 1),
                                     cap - (n - i + 1))
    <2>1. ASSUME NEW i \in 1..n
          PROVE  f[i] = Minimum(Maximum(Clamp(model, vals[i][1], cap), f[i - 1] + 1), cap - (n - i + 1))
        <3>1. i \in 0..n /\ i # 0
            BY <1>3
        <3> QED BY <1>1, <3>1
    <2> QED BY <2>1
<1>6. \A i \in 1..n : f[i] = at[i]
    BY <1>4, <1>5, ClampedPlaces
<1> HIDE DEF at
<1> QED BY <1>2, <1>6 DEF at

LEMMA ImplicitFromExistingIs ==
    ASSUME NEW nd, NodeOK(nd), NEW left \in Int, NEW right \in Int, NEW model \in Models,
           NEW cap \in Nat, Len(Values(nd, left, right)) <= cap
    PROVE  LET vals == Values(nd, left, right)
           IN  build_node_implicit_from_existing(nd, left, right, model, cap, Len(vals))
                 = [i \in 1..Len(vals) |->
                      <<Positions(vals, model, cap)[i], Clamp(model, vals[i][1], cap)>>]
<1> DEFINE vals == Values(nd, left, right)
           at == Iterate(nd, left, right)
           n == Len(vals)
           K(i) == nd.key[at[i]]
           Is(f) == f = [i \in 0..n |->
                          IF i = 0 THEN -1
                          ELSE Minimum(Maximum(Clamp(model, K(i), cap), f[i - 1] + 1),
                                       cap - (n - i + 1))]
           f == CHOOSE g : Is(g)
           h == [i \in 0..n |-> IF i = 0 THEN -1 ELSE Positions(vals, model, cap)[i]]
<1>1. /\ ValuesOK(vals) /\ Len(at) = n /\ \A i \in 1..n : vals[i] = <<nd.key[at[i]], nd.pay[at[i]]>>
    BY ValuesAre
<1>2. build_node_implicit_from_existing(nd, left, right, model, cap, n)
        = [i \in 1..n |-> <<f[i], Clamp(model, K(i), cap)>>]
    BY <1>1 DEF build_node_implicit_from_existing, Clamp
<1>3. n \in Nat /\ n <= cap
    BY <1>1 DEF ValuesOK
<1>4. h = [i \in 0..n |->
              IF i = 0 THEN -1
              ELSE Minimum(Maximum(Clamp(model, vals[i][1], cap), h[i - 1] + 1), cap - (n - i + 1))]
    BY <1>1, ClampedExist
<1> HIDE DEF h, vals, at, n
<1>5. \A i \in 1..n : vals[i][1] = K(i)
    BY <1>1
<1> HIDE DEF K
<1>6. Is(h)
    <2>1. ASSUME NEW i \in 0..n
          PROVE  h[i] = IF i = 0 THEN -1
                        ELSE Minimum(Maximum(Clamp(model, K(i), cap), h[i - 1] + 1), cap - (n - i + 1))
        <3>1. i # 0 => vals[i][1] = K(i)
            BY <1>3, <1>5
        <3> QED BY <1>4, <3>1
    <2>2. h = [i \in 0..n |-> h[i]]
        BY <1>4
    <2> QED BY <2>1, <2>2
<1>7. Is(f)
    BY <1>6
<1> HIDE DEF f
<1>8. f[0] = -1
    BY <1>3, <1>7
<1>9. \A i \in 1..n : f[i] = Minimum(Maximum(Clamp(model, vals[i][1], cap), f[i - 1] + 1),
                                     cap - (n - i + 1))
    <2>1. ASSUME NEW i \in 1..n
          PROVE  f[i] = Minimum(Maximum(Clamp(model, vals[i][1], cap), f[i - 1] + 1), cap - (n - i + 1))
        <3>1. i \in 0..n /\ i # 0 /\ vals[i][1] = K(i)
            BY <1>3, <1>5
        <3> QED BY <1>7, <3>1
    <2> QED BY <2>1
<1>10. \A i \in 1..n : f[i] = Positions(vals, model, cap)[i]
    <2>1. Len(vals) <= cap
        BY <1>3 DEF n
    <2> QED BY <1>1, <1>8, <1>9, <2>1, ClampedPlaces DEF n
<1>11. [i \in 1..n |-> <<f[i], Clamp(model, K(i), cap)>>]
         = [i \in 1..n |-> <<Positions(vals, model, cap)[i], Clamp(model, vals[i][1], cap)>>]
    BY <1>5, <1>10
<1> QED BY <1>2, <1>11 DEF vals, n

\* The cost a node computes of itself is of the places its keys got.
LEMMA CostOfBuilt ==
    ASSUME NEW vals, ValuesOK(vals), NEW model \in Models
    PROVE  LET cap == Capacity(Len(vals), 6)
               at == Positions(vals, model, cap)
           IN  compute_expected_cost_of(Layout(vals, at, cap, model))
                 = [i \in 1..Len(vals) |-> <<at[i], Clamp(model, vals[i][1], cap)>>]
<1> DEFINE cap == Capacity(Len(vals), 6)
           at == Positions(vals, model, cap)
           x == Layout(vals, at, cap, model)
           n == Len(vals)
           t == Iterate(x, 0, x.cap)
           S == Within(x, 0, x.cap)
<1>1. /\ NodeOK(x) /\ x.cap = cap /\ x.n = n /\ x.model = model
      /\ x.bit = {at[i] : i \in 1..n}
      /\ \A i \in 1..n : x.key[at[i]] = vals[i][1]
      /\ SlotsFor(at, n, cap)
    <2>1. 6 \in {6, 7, 8}
        OBVIOUS
    <2> QED BY <2>1, BuildIs
<1>2. cap \in Nat /\ n \in Nat
    BY CapacityIs DEF ValuesOK
<1> HIDE DEF x, at, cap, n
<1>3. x.cap \in Int /\ 0 \in Int
    BY <1>1, <1>2
<1>4. /\ Ascends(t, S) /\ Len(t) = n /\ Cardinality(S) = n
    <2> DEFINE zero == 0
               top == x.cap
    <2>1. zero \in Int /\ top \in Int
        BY <1>3
    <2> HIDE DEF zero, top
    <2>2. /\ Ascends(Iterate(x, zero, top), Within(x, zero, top))
          /\ Len(Iterate(x, zero, top)) = Cardinality(Within(x, zero, top))
          /\ zero = 0 /\ top = x.cap => Cardinality(Within(x, zero, top)) = x.n
        BY <1>1, <2>1, ValuesAre
    <2> QED BY <1>1, <2>2 DEF zero, top
<1>5. S = x.bit
    <2>1. \A p \in x.bit : p >= 0 /\ p < x.cap
        BY <1>1, NodeIs
    <2> QED BY <2>1 DEF Within
<1> HIDE DEF t, S
<1>6. Ascends(at, S)
    <2>1. \A i \in 1..n : at[i] \in S
        BY <1>1, <1>5
    <2>2. at \in [1..n -> S]
        BY <1>1, <2>1 DEF SlotsFor
    <2>3. \A p \in S : \E i \in 1..n : at[i] = p
        BY <1>1, <1>5
    <2> QED BY <1>1, <1>2, <1>4, <2>2, <2>3 DEF Ascends, SlotsFor
<1>7. S \in SUBSET Int
    BY <1>1, <1>5, NodeIs
<1>8. \A i \in 1..n : t[i] = at[i]
    BY <1>4, <1>6, <1>7, AscendsOnce
<1>9. ASSUME NEW i \in 1..n
      PROVE  predict_position(x, x.key[t[i]]) = Clamp(model, vals[i][1], cap)
    <2> DEFINE c == predict(model, vals[i][1])
    <2>1. c \in Int
        BY PredictIs, KeysAre DEF ValuesOK, n
    <2>2. predict_position(x, x.key[t[i]]) = Maximum(Minimum(c, cap - 1), 0)
        BY <1>1, <1>8 DEF predict_position
    <2>3. Clamp(model, vals[i][1], cap) = Maximum(0, Minimum(cap - 1, c))
        BY DEF Clamp
    <2> HIDE DEF c
    <2> QED BY <1>2, <2>1, <2>2, <2>3 DEF Maximum, Minimum
<1>10. compute_expected_cost_of(x) = [i \in 1..n |-> <<t[i], predict_position(x, x.key[t[i]])>>]
    BY <1>4 DEF compute_expected_cost_of, t
<1>11. compute_expected_cost_of(x) = [i \in 1..n |-> <<at[i], Clamp(model, vals[i][1], cap)>>]
    BY <1>8, <1>9, <1>10
<1> QED BY <1>11 DEF x, at, cap, n

LEMMA CostIs ==
    ASSUME IInv
    PROVE  CostOfLayout
<1>1. NodeOK(node)
    BY DEF IInv
<1>2. SUFFICES ASSUME NEW model \in Models, NEW left \in Slots(node)
      PROVE  LET vals == Values(node, left, node.cap)
                 built == bulk_load_from_existing(node, left, node.cap, model)
             IN  /\ compute_expected_cost(vals, 6, model) = compute_expected_cost_of(built)
                 /\ compute_expected_cost_from_existing(node, left, node.cap, 6, model)
                        = compute_expected_cost_of(built)
    BY DEF CostOfLayout, build_model
<1> DEFINE vals == Values(node, left, node.cap)
           built == bulk_load_from_existing(node, left, node.cap, model)
           n == Len(vals)
           cap == Capacity(n, 6)
           at == Positions(vals, model, cap)
           cost == [i \in 1..n |-> <<at[i], Clamp(model, vals[i][1], cap)>>]
<1>3. left \in Int /\ node.cap \in Int
    BY <1>1, NodeIs
<1>4. ValuesOK(vals) /\ n = num_keys_in_range(node, left, node.cap)
    BY <1>1, <1>3, ValuesAre
<1>5. n \in Nat /\ cap \in Nat /\ n <= cap
    <2>1. n \in Nat /\ 6 \in {6, 7, 8}
        BY <1>4 DEF ValuesOK
    <2>2. cap \in Nat /\ n < cap
        BY <2>1, CapacityIs
    <2> HIDE DEF n, cap
    <2> QED BY <2>1, <2>2
<1>6. compute_expected_cost(vals, 6, model) = cost
    BY <1>4, <1>5, ImplicitIs, ZenonT(40) DEF compute_expected_cost
<1>7. compute_expected_cost_from_existing(node, left, node.cap, 6, model) = cost
    <2>1. compute_expected_cost_from_existing(node, left, node.cap, 6, model)
            = build_node_implicit_from_existing(node, left, node.cap, model, cap, n)
        BY <1>4 DEF compute_expected_cost_from_existing
    <2>2. build_node_implicit_from_existing(node, left, node.cap, model, cap, n) = cost
        <3> DEFINE top == node.cap
        <3>1. Len(Values(node, left, top)) <= cap /\ cap \in Nat /\ top \in Int
            BY <1>3, <1>5
        <3> HIDE DEF cap, top
        <3>2. build_node_implicit_from_existing(node, left, top, model, cap, Len(Values(node, left, top)))
                = [i \in 1..Len(Values(node, left, top)) |->
                     <<Positions(Values(node, left, top), model, cap)[i],
                       Clamp(model, Values(node, left, top)[i][1], cap)>>]
            BY <1>1, <1>3, <3>1, ImplicitFromExistingIs
        <3> QED BY <3>2 DEF top
    <2> QED BY <2>1, <2>2
<1>8. compute_expected_cost_of(built) = cost
    <2>1. built = Layout(vals, at, cap, model)
        BY <1>4 DEF bulk_load_from_existing
    <2>2. compute_expected_cost_of(Layout(vals, at, cap, model)) = cost
        BY <1>4, CostOfBuilt
    <2> QED BY <2>1, <2>2
<1> QED BY <1>6, <1>7, <1>8

-----------------------------------------------------------------------------
(* The payloads of sets of slots, in their order. *)

\* The payloads r of the slots S, in the order of the slots.
ListOf(S, r) == [i \in 1..Cardinality(S) |-> r[InOrder(S)[i]]]

\* A list that ascends and has all of a set has one place for each of its members.
LEMMA AscendsIf ==
    ASSUME NEW T \in SUBSET Int, NEW n \in Nat, NEW t \in [1..n -> T],
           \A i, j \in 1..n : i < j => t[i] < t[j],
           \A p \in T : \E i \in 1..n : t[i] = p
    PROVE  IsFiniteSet(T) /\ Cardinality(T) = n /\ Ascends(t, T)
<1>1. IsFiniteSet(1..n) /\ Cardinality(1..n) = n
    BY OneTo
<1>2. \A i, j \in 1..n : t[i] = t[j] => i = j
    <2>1. ASSUME NEW i \in 1..n, NEW j \in 1..n, t[i] = t[j] PROVE i = j
        <3>1. t[i] \in T /\ t[j] \in T /\ t[i] \in Int
            OBVIOUS
        <3>2. ~(t[i] < t[j]) /\ ~(t[j] < t[i])
            BY <2>1, <3>1
        <3> QED BY <3>2
    <2> QED BY <2>1
<1> DEFINE D == 1..n
<1>3. IsFiniteSet(D) /\ Cardinality(D) = n
    BY <1>1
<1>4. t \in [D -> T] /\ (\A i, j \in D : t[i] = t[j] => i = j) /\ \A p \in T : \E i \in D : t[i] = p
    BY <1>2
<1> HIDE DEF D
<1>5. t \in Surjection(D, T) /\ t \in Injection(D, T)
    BY <1>4 DEF Surjection, Injection, IsInjective
<1>6. IsFiniteSet(T) /\ Cardinality(T) = Cardinality(D)
    BY <1>3, <1>5, FS_Surjection
<1>7. Cardinality(T) = n
    BY <1>3, <1>6
<1> QED BY <1>6, <1>7 DEF Ascends

\* The list can be read in any such order.
LEMMA ListBy ==
    ASSUME NEW S \in SUBSET Int, IsFiniteSet(S), NEW s, Ascends(s, S), NEW r
    PROVE  ListOf(S, r) = [i \in 1..Cardinality(S) |-> r[s[i]]]
<1>1. \A i \in 1..Cardinality(S) : InOrder(S)[i] = s[i]
    BY InOrderIs, AscendsOnce
<1> QED BY <1>1 DEF ListOf

\* Slots that keep their order and their payloads have the same list.
LEMMA ListKept ==
    ASSUME NEW S \in SUBSET Int, IsFiniteSet(S), NEW T \in SUBSET Int, NEW f,
           \A p \in S : f[p] \in T, \A p, q \in S : p < q => f[p] < f[q],
           \A t \in T : \E p \in S : f[p] = t,
           NEW r, NEW rr, \A p \in S : rr[f[p]] = r[p]
    PROVE  IsFiniteSet(T) /\ ListOf(T, rr) = ListOf(S, r)
<1> DEFINE n == Cardinality(S)
           s == InOrder(S)
           t == [i \in 1..n |-> f[s[i]]]
<1>1. Ascends(s, S)
    BY InOrderIs
<1> HIDE DEF s
<1>2. /\ n \in Nat /\ s \in [1..n -> S] /\ (\A i, j \in 1..n : i < j => s[i] < s[j])
      /\ \A p \in S : \E i \in 1..n : s[i] = p
    BY <1>1 DEF Ascends
<1> HIDE DEF n
<1>3. t \in [1..n -> T]
    BY <1>2
<1>4. \A i, j \in 1..n : i < j => t[i] < t[j]
    BY <1>2
<1>5. \A p \in T : \E i \in 1..n : t[i] = p
    <2>1. ASSUME NEW q \in T PROVE \E i \in 1..n : t[i] = q
        <3>1. PICK p \in S : f[p] = q
            OBVIOUS
        <3>2. PICK i \in 1..n : s[i] = p
            BY <1>2
        <3> QED BY <3>1, <3>2
    <2> QED BY <2>1
<1>6. \A i \in 1..n : rr[t[i]] = r[s[i]]
    BY <1>2
<1> HIDE DEF t
<1>7. IsFiniteSet(T) /\ Cardinality(T) = n /\ Ascends(t, T)
    BY <1>2, <1>3, <1>4, <1>5, AscendsIf
<1>8. ListOf(T, rr) = [i \in 1..n |-> rr[t[i]]]
    BY <1>7, ListBy
<1>9. ListOf(S, r) = [i \in 1..n |-> r[s[i]]]
    BY <1>1, ListBy DEF n
<1> QED BY <1>6, <1>7, <1>8, <1>9

LEMMA ListOfNone ==
    ASSUME NEW r
    PROVE  ListOf({}, r) = <<>>
<1>1. Cardinality({}) = 0
    BY FS_EmptySet
<1>2. ListOf({}, r) = [i \in 1..0 |-> r[InOrder({})[i]]]
    BY <1>1 DEF ListOf
<1> QED BY <1>2

\* A slot behind all others appends its payload.
LEMMA ListGrows ==
    ASSUME NEW S \in SUBSET Int, IsFiniteSet(S), NEW pos \in Int, \A p \in S : p < pos, NEW r
    PROVE  ListOf(S \cup {pos}, r) = Append(ListOf(S, r), r[pos])
<1> DEFINE n == Cardinality(S)
           s == InOrder(S)
           t == [i \in 1..n + 1 |-> IF i <= n THEN s[i] ELSE pos]
           T == S \cup {pos}
<1>1. Ascends(s, S)
    BY InOrderIs
<1> HIDE DEF s
<1>2. /\ n \in Nat /\ s \in [1..n -> S] /\ (\A i, j \in 1..n : i < j => s[i] < s[j])
      /\ \A p \in S : \E i \in 1..n : s[i] = p
    BY <1>1 DEF Ascends
<1> HIDE DEF n
<1>3. t \in [1..n + 1 -> T] /\ T \in SUBSET Int /\ n + 1 \in Nat
    BY <1>2
<1>4. \A i \in 1..n + 1 : (i \in 1..n /\ t[i] = s[i] /\ s[i] \in S) \/ (i = n + 1 /\ t[i] = pos)
    BY <1>2
<1>5. ASSUME NEW i \in 1..n + 1, NEW j \in 1..n + 1, i < j PROVE t[i] < t[j]
    <2>1. i \in 1..n /\ t[i] = s[i] /\ s[i] \in S
        BY <1>2, <1>4, <1>5
    <2>2. (j \in 1..n /\ t[j] = s[j]) \/ t[j] = pos
        BY <1>4
    <2>3. s[i] < pos
        BY <2>1
    <2> HIDE DEF t
    <2> QED BY <1>2, <1>5, <2>1, <2>2, <2>3
<1>6. \A p \in T : \E i \in 1..n + 1 : t[i] = p
    <2>1. ASSUME NEW p \in S PROVE \E i \in 1..n + 1 : t[i] = p
        <3>1. PICK i \in 1..n : s[i] = p
            BY <1>2
        <3> QED BY <1>2, <3>1
    <2>2. \E i \in 1..n + 1 : t[i] = pos
        BY <1>2
    <2> QED BY <2>1, <2>2
<1> HIDE DEF t, T
<1>7. IsFiniteSet(T) /\ Cardinality(T) = n + 1 /\ Ascends(t, T)
    BY <1>3, <1>5, <1>6, AscendsIf
<1>8. ListOf(T, r) = [i \in 1..n + 1 |-> r[t[i]]]
    BY <1>7, ListBy
<1> DEFINE u == ListOf(S, r)
           V == {r[s[i]] : i \in 1..n}
<1>9. u = [i \in 1..n |-> r[s[i]]]
    <2>1. ListOf(S, r) = [i \in 1..Cardinality(S) |-> r[s[i]]]
        BY <1>1, ListBy
    <2> QED BY <2>1 DEF n
<1> HIDE DEF u
<1>10. u \in [1..n -> V]
    BY <1>9
<1> HIDE DEF V
<1>11. Len(u) = n
    BY <1>2, <1>10, LenIs
<1>12. Append(u, r[pos]) = [i \in 1..n + 1 |-> IF i <= n THEN u[i] ELSE r[pos]]
    BY <1>2, <1>10, <1>11
<1>13. \A i \in 1..n + 1 : r[t[i]] = IF i <= n THEN u[i] ELSE r[pos]
    BY <1>2, <1>4, <1>9
<1> QED BY <1>8, <1>12, <1>13 DEF u, T

\* Without the first slot the list has lost its head.
LEMMA ListShrinks ==
    ASSUME NEW S \in SUBSET Int, IsFiniteSet(S), NEW m \in S, \A p \in S : m <= p, NEW r
    PROVE  ListOf(S \ {m}, r) = Tail(ListOf(S, r)) /\ ListOf(S, r) # <<>>
<1> DEFINE n == Cardinality(S)
           s == InOrder(S)
           t == [i \in 1..n - 1 |-> s[i + 1]]
           T == S \ {m}
<1>1. Ascends(s, S)
    BY InOrderIs
<1> HIDE DEF s
<1>2. /\ n \in Nat /\ s \in [1..n -> S] /\ (\A i, j \in 1..n : i < j => s[i] < s[j])
      /\ \A p \in S : \E i \in 1..n : s[i] = p
    BY <1>1 DEF Ascends
<1> HIDE DEF n
<1>3. PICK a \in 1..n : s[a] = m
    BY <1>2
<1>4. a = 1 /\ n >= 1 /\ s[1] = m
    <2>1. n >= 1 /\ 1 \in 1..n /\ s[1] \in S
        BY <1>2, <1>3
    <2>2. s[1] \in Int /\ m \in Int /\ m <= s[1]
        BY <2>1
    <2>3. ~(1 < a)
        BY <1>2, <1>3, <2>1, <2>2
    <2> QED BY <1>3, <2>1, <2>3
<1>5. \A i \in 2..n : s[i] \in S /\ s[i] # m
    BY <1>2, <1>4
<1>6. t \in [1..n - 1 -> T] /\ T \in SUBSET Int /\ n - 1 \in Nat
    <2>1. \A i \in 1..n - 1 : i + 1 \in 2..n
        BY <1>2
    <2> QED BY <1>2, <1>4, <1>5, <2>1
<1>7. \A i, j \in 1..n - 1 : i < j => t[i] < t[j]
    <2>1. ASSUME NEW i \in 1..n - 1, NEW j \in 1..n - 1, i < j PROVE t[i] < t[j]
        <3>1. i + 1 \in 1..n /\ j + 1 \in 1..n /\ i + 1 < j + 1
            BY <1>2, <2>1
        <3>2. s[i + 1] < s[j + 1]
            BY <1>2, <3>1
        <3> QED BY <3>2
    <2> QED BY <2>1
<1>8. \A p \in T : \E i \in 1..n - 1 : t[i] = p
    <2>1. ASSUME NEW p \in T PROVE \E i \in 1..n - 1 : t[i] = p
        <3>1. PICK i \in 1..n : s[i] = p
            BY <1>2
        <3>2. i # 1
            BY <1>4, <3>1
        <3>3. i - 1 \in 1..n - 1 /\ (i - 1) + 1 = i
            BY <1>2, <3>2
        <3>4. t[i - 1] = p
            BY <3>1, <3>3
        <3> QED BY <3>3, <3>4
    <2> QED BY <2>1
<1>9. \A i \in 1..n - 1 : t[i] = s[i + 1] /\ i + 1 \in 1..n
    BY <1>2
<1> HIDE DEF t, T
<1>10. IsFiniteSet(T) /\ Cardinality(T) = n - 1 /\ Ascends(t, T)
    BY <1>6, <1>7, <1>8, AscendsIf
<1>11. ListOf(T, r) = [i \in 1..n - 1 |-> r[t[i]]]
    BY <1>10, ListBy
<1> DEFINE u == ListOf(S, r)
           V == {r[s[i]] : i \in 1..n}
<1>12. u = [i \in 1..n |-> r[s[i]]]
    <2>1. ListOf(S, r) = [i \in 1..Cardinality(S) |-> r[s[i]]]
        BY <1>1, ListBy
    <2> QED BY <2>1 DEF n
<1> HIDE DEF u
<1>13. u \in [1..n -> V]
    BY <1>12
<1> HIDE DEF V
<1>14. Len(u) = n /\ u \in Seq(V)
    BY <1>2, <1>13, LenIs
<1>15. u # <<>> /\ Tail(u) = [i \in 1..n - 1 |-> u[i + 1]]
    <2>1. u # <<>>
        BY <1>4, <1>14
    <2>2. Tail(u) = [i \in 1..Len(u) - 1 |-> u[i + 1]]
        <3>1. Tail(u) \in Seq(V)
            BY <1>14, <2>1
        <3>2. Len(Tail(u)) = Len(u) - 1
            BY <1>14, <2>1
        <3>3. \A i \in 1..Len(u) - 1 : Tail(u)[i] = u[i + 1]
            BY <1>14, <2>1
        <3> DEFINE v == Tail(u)
                   k == Len(u) - 1
        <3>4. v \in Seq(V) /\ Len(v) = k /\ \A i \in 1..k : v[i] = u[i + 1]
            BY <3>1, <3>2, <3>3
        <3> HIDE DEF v, k
        <3>5. v = [i \in 1..k |-> v[i]]
            BY <3>4
        <3>6. v = [i \in 1..k |-> u[i + 1]]
            BY <3>4, <3>5
        <3> QED BY <3>6 DEF v, k
    <2> QED BY <1>14, <2>1, <2>2
<1>16. \A i \in 1..n - 1 : r[t[i]] = u[i + 1]
    BY <1>9, <1>12
<1> QED BY <1>11, <1>15, <1>16 DEF u, T

LEMMA ListType ==
    ASSUME NEW S \in SUBSET Int, IsFiniteSet(S), NEW P, NEW r, \A p \in S : r[p] \in P
    PROVE  ListOf(S, r) \in Seq(P)
<1>1. Ascends(InOrder(S), S)
    BY InOrderIs
<1> DEFINE n == Cardinality(S)
<1>2. n \in Nat /\ \A i \in 1..n : r[InOrder(S)[i]] \in P
    BY <1>1 DEF Ascends
<1>3. ListOf(S, r) = [i \in 1..n |-> r[InOrder(S)[i]]]
    BY DEF ListOf
<1> HIDE DEF n
<1> QED BY <1>2, <1>3

-----------------------------------------------------------------------------
(* The lists of a node. *)

\* The filled slots with key k.
With(nd, k) == {p \in nd.bit : nd.key[p] = k}

\* For every key its payloads.
Lists(nd) == [k \in Keys |-> ListOf(With(nd, k), nd.pay)]

LEMMA WithIs ==
    ASSUME NEW nd, NodeOK(nd), NEW k
    PROVE  With(nd, k) \in SUBSET Int /\ IsFiniteSet(With(nd, k))
<1>1. IsFiniteSet(nd.bit) /\ nd.bit \in SUBSET Int
    BY NodeIs
<1>2. With(nd, k) \in SUBSET nd.bit
    BY DEF With
<1> QED BY <1>1, <1>2, FS_Subset

LEMMA ContentsAre ==
    ASSUME NEW nd, NodeOK(nd)
    PROVE  Lists(nd) = [k \in Keys |-> LET at == InOrder({p \in nd.bit : nd.key[p] = k})
                                      IN  [i \in 1..Len(at) |-> nd.pay[at[i]]]]
<1>1. ASSUME NEW k \in Keys
      PROVE  LET at == InOrder({p \in nd.bit : nd.key[p] = k})
             IN  [i \in 1..Len(at) |-> nd.pay[at[i]]] = ListOf(With(nd, k), nd.pay)
    <2> DEFINE S == With(nd, k)
               at == InOrder(S)
    <2>1. Ascends(at, S)
        BY WithIs, InOrderIs
    <2>2. S = {p \in nd.bit : nd.key[p] = k}
        BY DEF With
    <2>3. ListOf(S, nd.pay) = [i \in 1..Cardinality(S) |-> nd.pay[at[i]]]
        BY DEF ListOf
    <2> HIDE DEF S, at
    <2>4. Len(at) = Cardinality(S)
        BY <2>1, LenIs DEF Ascends
    <2>5. [i \in 1..Len(at) |-> nd.pay[at[i]]] = ListOf(S, nd.pay)
        BY <2>3, <2>4
    <2> QED BY <2>2, <2>5 DEF S, at
<1> QED BY <1>1 DEF Lists

\* f takes the slots D of nd to the filled slots of x, in order, with their keys
\* and payloads.
Carries(nd, x, f, D) ==
    /\ D \in SUBSET nd.bit
    /\ \A p \in D : f[p] \in x.bit /\ x.key[f[p]] = nd.key[p] /\ x.pay[f[p]] = nd.pay[p]
    /\ \A p, q \in D : p < q => f[p] < f[q]
    /\ \A q \in x.bit : \E p \in D : f[p] = q

\* Then a key whose slots are all in D keeps its list, one that has none there
\* loses it.
LEMMA ListsCarried ==
    ASSUME NEW nd, NodeOK(nd), NEW x, x.bit \in SUBSET Int, NEW f, NEW D, Carries(nd, x, f, D), NEW k
    PROVE  /\ With(nd, k) \in SUBSET D => ListOf(With(x, k), x.pay) = ListOf(With(nd, k), nd.pay)
           /\ With(nd, k) \cap D = {} => ListOf(With(x, k), x.pay) = <<>>
<1> DEFINE S == With(nd, k)
           T == With(x, k)
<1>1. /\ D \in SUBSET nd.bit
      /\ \A p \in D : f[p] \in x.bit /\ x.key[f[p]] = nd.key[p] /\ x.pay[f[p]] = nd.pay[p]
      /\ \A p, q \in D : p < q => f[p] < f[q]
      /\ \A q \in x.bit : \E p \in D : f[p] = q
    BY DEF Carries
<1>2. \A t \in T : \E p \in D : f[p] = t /\ p \in S
    BY <1>1 DEF With
<1>3. CASE S \in SUBSET D
    <2>1. \A p \in S : f[p] \in T
        BY <1>1, <1>3 DEF With
    <2>2. \A p, q \in S : p < q => f[p] < f[q]
        BY <1>1, <1>3
    <2>3. \A p \in S : x.pay[f[p]] = nd.pay[p]
        BY <1>1, <1>3
    <2>4. S \in SUBSET Int /\ IsFiniteSet(S)
        BY WithIs
    <2>5. T \in SUBSET Int
        BY DEF With
    <2>6. \A t \in T : \E p \in S : f[p] = t
        BY <1>2
    <2> HIDE DEF S, T
    <2>7. ListOf(T, x.pay) = ListOf(S, nd.pay)
        BY <2>1, <2>2, <2>3, <2>4, <2>5, <2>6, ListKept
    <2>8. CASE S \cap D = {}
        <3>1. T = {}
            BY <1>2, <2>8
        <3> QED BY <2>7, <3>1, ListOfNone DEF S, T
    <2> QED BY <2>7, <2>8 DEF S, T
<1>4. CASE S \cap D = {}
    <2>1. T = {}
        BY <1>2, <1>4
    <2>2. ListOf(T, x.pay) = <<>>
        BY <2>1, ListOfNone
    <2>3. CASE S \in SUBSET D
        BY <1>3, <2>3
    <2> QED BY <2>2, <2>3
<1> QED BY <1>3, <1>4

\* x has the lists of nd, without those of the keys K.
Without(nd, x, K) ==
    Lists(x) = [k \in Keys |-> IF k \in K THEN <<>> ELSE Lists(nd)[k]]

LEMMA WithoutIf ==
    ASSUME NEW nd, NodeOK(nd), NEW x, x.bit \in SUBSET Int, NEW f, NEW D, Carries(nd, x, f, D), NEW K,
           \A p \in nd.bit : p \in D <=> nd.key[p] \notin K
    PROVE  Without(nd, x, K)
<1>1. ASSUME NEW k \in Keys
      PROVE  ListOf(With(x, k), x.pay) = IF k \in K THEN <<>> ELSE ListOf(With(nd, k), nd.pay)
    <2>1. CASE k \in K
        <3>1. With(nd, k) \cap D = {}
            BY <2>1 DEF With, Carries
        <3> QED BY <2>1, <3>1, ListsCarried
    <2>2. CASE k \notin K
        <3>1. With(nd, k) \in SUBSET D
            BY <2>2 DEF With, Carries
        <3> QED BY <2>2, <3>1, ListsCarried
    <2> QED BY <2>1, <2>2
<1> QED BY <1>1 DEF Without, Lists

LEMMA WithoutNone ==
    ASSUME NEW nd, NEW x, NEW K, Without(nd, x, K), K \cap Keys = {}
    PROVE  Lists(x) = Lists(nd)
    BY DEF Without, Lists

-----------------------------------------------------------------------------
(* Loads and resizes carry all slots of a range. *)

\* Every slot has a payload, though that of a gap means nothing.
Paid(nd) == DOMAIN nd.pay = Slots(nd)

LEMMA LayoutPays ==
    ASSUME NEW vals, Len(vals) \in Nat, NEW cap \in Nat, NEW model, NEW at, SlotsFor(at, Len(vals), cap)
    PROVE  LET x == Layout(vals, at, cap, model)
           IN  Paid(x) /\ \A i \in 1..Len(vals) : x.pay[at[i]] = vals[i][2]
<1> DEFINE n == Len(vals)
           x == Layout(vals, at, cap, model)
           filled == {at[i] : i \in 1..n}
           Holds(p) == CHOOSE i \in 1..n : at[i] = p
<1>1. n \in Nat /\ DOMAIN at = 1..n /\ \A i \in 1..n : at[i] \in 0..cap - 1 /\ at[i] \in Int
    BY DEF SlotsFor
<1>2. \A i, j \in 1..n : i < j => at[i] < at[j]
    BY DEF SlotsFor
<1>3. /\ x.pay = [p \in 0..cap - 1 |-> IF p \in filled THEN vals[Holds(p)][2] ELSE Junk]
      /\ x.cap = cap
    <2>1. DOMAIN at = 1..Len(vals)
        BY <1>1
    <2> QED BY <2>1 DEF Layout
<1> HIDE DEF n, x
<1>4. ASSUME NEW i \in 1..n PROVE Holds(at[i]) = i
    <2>1. ASSUME NEW j \in 1..n, at[j] = at[i] PROVE j = i
        <3>1. ~(i < j) /\ ~(j < i)
            BY <1>1, <1>2, <2>1
        <3> QED BY <1>1, <3>1
    <2> QED BY <2>1
<1>5. \A i \in 1..n : x.pay[at[i]] = vals[i][2]
    <2>1. ASSUME NEW i \in 1..n PROVE x.pay[at[i]] = vals[i][2]
        <3>1. at[i] \in 0..cap - 1 /\ at[i] \in filled
            BY <1>1
        <3>2. x.pay[at[i]] = vals[Holds(at[i])][2]
            BY <1>3, <3>1
        <3> QED BY <1>4, <3>2
    <2> QED BY <2>1
<1>6. Paid(x)
    BY <1>3 DEF Paid, Slots
<1> QED BY <1>5, <1>6 DEF n, x

LEMMA BuildCarries ==
    ASSUME NEW nd, NodeOK(nd), NEW left \in Int, NEW right \in Int, NEW model \in Models, NEW d \in {6, 7, 8}
    PROVE  LET vals == Values(nd, left, right)
               cap == Capacity(Len(vals), d)
               x == Layout(vals, Positions(vals, model, cap), cap, model)
           IN  Paid(x) /\ \E f : Carries(nd, x, f, Within(nd, left, right))
<1> DEFINE vals == Values(nd, left, right)
           cap == Capacity(Len(vals), d)
           at == Positions(vals, model, cap)
           x == Layout(vals, at, cap, model)
           s == Iterate(nd, left, right)
           D == Within(nd, left, right)
           n == Cardinality(D)
           f == [p \in D |-> at[CHOOSE i \in 1..n : s[i] = p]]
<1>1. /\ ValuesOK(vals) /\ Len(vals) = n /\ Ascends(s, D)
      /\ \A i \in 1..n : vals[i] = <<nd.key[s[i]], nd.pay[s[i]]>>
    <2>1. ValuesOK(vals) /\ Len(vals) = n /\ Ascends(s, D)
        BY ValuesAre, Zenon
    <2>2. \A i \in 1..n : vals[i] = <<nd.key[s[i]], nd.pay[s[i]]>>
        BY ValuesAre, SMT
    <2> QED BY <2>1, <2>2
<1>2. /\ n \in Nat /\ s \in [1..n -> D] /\ (\A i, j \in 1..n : i < j => s[i] < s[j])
      /\ \A p \in D : \E i \in 1..n : s[i] = p
    BY <1>1 DEF Ascends
<1>3. D \in SUBSET nd.bit /\ \A p \in D : p \in Int
    BY NodeIs DEF Within
<1> HIDE DEF vals, s, D, n
<1>4. /\ x.bit = {at[i] : i \in 1..n} /\ SlotsFor(at, n, cap)
      /\ \A i \in 1..n : x.key[at[i]] = vals[i][1]
    BY <1>1, BuildIs, SMTT(20)
<1>5. cap \in Nat
    BY <1>1, <1>2, CapacityIs
<1> HIDE DEF cap, at
<1>6. Paid(x) /\ \A i \in 1..n : x.pay[at[i]] = vals[i][2]
    BY <1>1, <1>2, <1>4, <1>5, LayoutPays
<1> HIDE DEF x
<1>7. \A i, j \in 1..n : i < j => at[i] < at[j]
    BY <1>4 DEF SlotsFor
<1>8. ASSUME NEW i \in 1..n PROVE f[s[i]] = at[i]
    <2>1. ASSUME NEW j \in 1..n, s[j] = s[i] PROVE j = i
        <3>1. s[i] \in Int /\ s[j] \in Int
            BY <1>2, <1>3
        <3>2. ~(i < j) /\ ~(j < i)
            BY <1>2, <2>1, <3>1
        <3> QED BY <1>2, <3>2
    <2>2. (CHOOSE j \in 1..n : s[j] = s[i]) = i
        BY <2>1
    <2>3. s[i] \in D
        BY <1>2
    <2> QED BY <2>2, <2>3
<1> HIDE DEF f
<1>9. \A p \in D : f[p] \in x.bit /\ x.key[f[p]] = nd.key[p] /\ x.pay[f[p]] = nd.pay[p]
    <2>1. ASSUME NEW p \in D
          PROVE  f[p] \in x.bit /\ x.key[f[p]] = nd.key[p] /\ x.pay[f[p]] = nd.pay[p]
        <3>1. PICK i \in 1..n : s[i] = p
            BY <1>2
        <3>2. f[p] = at[i]
            BY <1>8, <3>1
        <3>3. vals[i][1] = nd.key[p] /\ vals[i][2] = nd.pay[p]
            BY <1>1, <3>1
        <3> QED BY <1>4, <1>6, <3>2, <3>3
    <2> QED BY <2>1
<1>10. \A p, q \in D : p < q => f[p] < f[q]
    <2>1. ASSUME NEW p \in D, NEW q \in D, p < q PROVE f[p] < f[q]
        <3>1. PICK i \in 1..n : s[i] = p
            BY <1>2
        <3>2. PICK j \in 1..n : s[j] = q
            BY <1>2
        <3>3. p \in Int /\ q \in Int
            BY <1>3
        <3>4. i < j
            BY <1>2, <2>1, <3>1, <3>2, <3>3
        <3> QED BY <1>7, <1>8, <3>1, <3>2, <3>4
    <2> QED BY <2>1
<1>11. \A q \in x.bit : \E p \in D : f[p] = q
    <2>1. ASSUME NEW q \in x.bit PROVE \E p \in D : f[p] = q
        <3>1. PICK i \in 1..n : q = at[i]
            BY <1>4
        <3> QED BY <1>2, <1>8, <3>1
    <2> QED BY <2>1
<1>12. Carries(nd, x, f, D)
    BY <1>3, <1>9, <1>10, <1>11 DEF Carries
<1> QED BY <1>6, <1>12 DEF vals, cap, at, x, D

\* A node built from a part has the lists of the keys in that part.
LEMMA PartHasLists ==
    ASSUME NEW nd, NodeOK(nd), NEW left \in Int, NEW right \in Int, NEW model \in Models, NEW K,
           \A p \in nd.bit : left <= p /\ p < right <=> nd.key[p] \notin K
    PROVE  LET x == bulk_load_from_existing(nd, left, right, model)
           IN  Paid(x) /\ Without(nd, x, K)
<1> DEFINE vals == Values(nd, left, right)
           cap == Capacity(Len(vals), 6)
           x == Layout(vals, Positions(vals, model, cap), cap, model)
           D == Within(nd, left, right)
<1>1. Paid(x) /\ \E f : Carries(nd, x, f, D)
    BY BuildCarries
<1>2. Len(vals) = num_keys_in_range(nd, left, right)
    BY ValuesAre
<1>3. x = bulk_load_from_existing(nd, left, right, model)
    BY <1>2 DEF bulk_load_from_existing
<1>4. x.bit \in SUBSET Int
    BY <1>3, BulkLoadFromExistingKeeps, NodeIs
<1>5. \A p \in nd.bit : p \in D <=> nd.key[p] \notin K
    BY NodeIs DEF Within
<1> HIDE DEF x, D
<1>6. Without(nd, x, K)
    BY <1>1, <1>4, <1>5, WithoutIf
<1> QED BY <1>1, <1>3, <1>6

LEMMA ResizeLists ==
    ASSUME NEW nd, NodeOK(nd), Paid(nd), NEW d \in {6, 7, 8}, NEW model \in Models
    PROVE  Paid(resize(nd, d, model)) /\ Lists(resize(nd, d, model)) = Lists(nd)
<1> DEFINE zero == 0
           top == nd.cap
           vals == Values(nd, zero, top)
           cap == Capacity(Len(vals), d)
           x == Layout(vals, Positions(vals, model, cap), cap, model)
           D == Within(nd, zero, top)
<1>1. CASE nd.n = 0
    BY <1>1 DEF resize
<1>2. CASE nd.n # 0
    <2>1. zero \in Int /\ top \in Int
        BY NodeIs
    <2>2. \A p \in nd.bit : p \in D
        BY NodeIs DEF Within
    <2>3. zero = 0 /\ top = nd.cap
        OBVIOUS
    <2>4. resize(nd, d, model) = Layout(Values(nd, 0, nd.cap),
             Positions(Values(nd, 0, nd.cap), model, Capacity(nd.n, d)), Capacity(nd.n, d), model)
        BY <1>2 DEF resize
    <2> HIDE DEF zero, top, D
    <2>5. Len(vals) = nd.n
        BY <2>1, <2>3, ValuesAre
    <2>6. resize(nd, d, model) = x
        BY <2>3, <2>4, <2>5
    <2>7. Paid(x) /\ \E f : Carries(nd, x, f, D)
        BY <2>1, BuildCarries DEF D
    <2>8. x.bit \in SUBSET Int
        BY <2>6, ResizeKeeps, NodeIs
    <2> HIDE DEF x
    <2>9. Without(nd, x, {})
        BY <2>2, <2>7, <2>8, WithoutIf
    <2>10. Lists(x) = Lists(nd)
        BY <2>9, WithoutNone
    <2> QED BY <2>6, <2>7, <2>10
<1> QED BY <1>1, <1>2

\* A load has payloads only.
LEMMA LoadTyped ==
    ASSUME NEW vals \in Loads, NEW model \in Models
    PROVE  LET x == bulk_load(vals, model)
           IN  Paid(x) /\ Lists(x) \in [Keys -> Seq(Payloads)]
<1> DEFINE cap == Capacity(Len(vals), 7)
           at == Positions(vals, model, cap)
           x == Layout(vals, at, cap, model)
           n == Len(vals)
<1>1. ValuesOK(vals) /\ \A i \in 1..n : vals[i][2] \in Payloads
    BY AlexDataNodeAssumption, SMTT(20) DEF ValuesOK
<1>2. x = bulk_load(vals, model)
    BY DEF bulk_load
<1>3. 7 \in {6, 7, 8} /\ n \in Nat
    BY <1>1 DEF ValuesOK
<1>4. x.bit = {at[i] : i \in 1..n} /\ SlotsFor(at, n, cap) /\ cap \in Nat /\ NodeOK(x)
    <2>1. x.bit = {at[i] : i \in 1..n} /\ SlotsFor(at, n, cap) /\ NodeOK(x)
        BY <1>1, <1>3, BuildIs
    <2>2. cap \in Nat
        BY <1>3, CapacityIs
    <2> QED BY <2>1, <2>2
<1> HIDE DEF cap, at
<1>5. Paid(x) /\ \A i \in 1..n : x.pay[at[i]] = vals[i][2]
    BY <1>3, <1>4, LayoutPays
<1> HIDE DEF x, n
<1>6. \A p \in x.bit : x.pay[p] \in Payloads
    BY <1>1, <1>4, <1>5
<1>7. ASSUME NEW k \in Keys PROVE ListOf(With(x, k), x.pay) \in Seq(Payloads)
    <2>1. \A p \in With(x, k) : x.pay[p] \in Payloads
        BY <1>6 DEF With
    <2> QED BY <1>4, <2>1, WithIs, ListType
<1> QED BY <1>2, <1>5, <1>7 DEF Lists

-----------------------------------------------------------------------------
(* An insert appends to the list of its key. *)

LEMMA InsertPays ==
    ASSUME NEW nd, DOMAIN nd = Fields, BitsOK(nd), Paid(nd), NEW pos \in Slots(nd), NEW k, NEW payload
    PROVE  LET x == insert_element_at(nd, k, payload, pos)
           IN  /\ Paid(x) /\ x.bit = nd.bit \cup {pos} /\ x.key[pos] = k /\ x.pay[pos] = payload
               /\ \A p \in nd.bit : p # pos => x.key[p] = nd.key[p] /\ x.pay[p] = nd.pay[p]
<1> DEFINE x == insert_element_at(nd, k, payload, pos)
           from == InsertFrom(nd, pos)
<1>1. /\ x.bit = nd.bit \cup {pos} /\ x.cap = nd.cap
      /\ x.key = [p \in Slots(nd) |-> IF p \in from..pos THEN k ELSE nd.key[p]]
    BY InsertFields DEF SameFrame
<1>2. x.pay = [nd.pay EXCEPT ![pos] = payload]
    BY DEF insert_element_at, Fields
<1>3. nd.cap \in Nat /\ pos \in Nat /\ \A p \in nd.bit : p \in Slots(nd) /\ p \in Nat
    BY DEF BitsOK, Slots
<1>4. from \in Nat /\ from <= pos /\ \A p \in nd.bit : p < pos => p < from
    BY <1>3, InsertFromIs
<1> HIDE DEF x, from
<1>5. x.key[pos] = k
    BY <1>1, <1>3, <1>4
<1>6. Paid(x) /\ x.pay[pos] = payload
    BY <1>1, <1>2 DEF Paid, Slots
<1>7. ASSUME NEW p \in nd.bit, p # pos PROVE x.key[p] = nd.key[p] /\ x.pay[p] = nd.pay[p]
    <2>1. p \notin from..pos
        BY <1>3, <1>4, <1>7
    <2> QED BY <1>1, <1>2, <1>3, <1>7, <2>1 DEF Paid
<1> QED BY <1>1, <1>5, <1>6, <1>7 DEF x

\* x has the slots of nd, moved by f, and one more at pos, behind those that have
\* its key already.
Adds(nd, x, f, pos) ==
    /\ x.bit \in SUBSET Int /\ pos \in x.bit
    /\ \A p \in nd.bit : /\ f[p] \in x.bit /\ f[p] # pos
                         /\ x.key[f[p]] = nd.key[p] /\ x.pay[f[p]] = nd.pay[p]
    /\ \A p, q \in nd.bit : p < q => f[p] < f[q]
    /\ \A q \in x.bit : q # pos => \E p \in nd.bit : f[p] = q
    /\ \A p \in nd.bit : nd.key[p] = x.key[pos] => f[p] < pos

Appended(nd, x, k, payload) == Lists(x) = [Lists(nd) EXCEPT ![k] = Append(@, payload)]

LEMMA ListAdded ==
    ASSUME NEW nd, NodeOK(nd), NEW x, DOMAIN x = Fields, NEW f, NEW pos, Adds(nd, x, f, pos),
           NEW k \in Keys, x.key[pos] = k, NEW payload, x.pay[pos] = payload
    PROVE  Appended(nd, x, k, payload)
<1> DEFINE y == [x EXCEPT !.bit = x.bit \ {pos}]
<1>1. y.bit = x.bit \ {pos} /\ y.key = x.key /\ y.pay = x.pay
    BY DEF Fields
<1> HIDE DEF y
<1>2. Carries(nd, y, f, nd.bit)
    BY <1>1 DEF Carries, Adds
<1>3. y.bit \in SUBSET Int /\ pos \in Int /\ pos \in x.bit
    BY <1>1 DEF Adds
<1>4. ASSUME NEW j PROVE ListOf(With(y, j), x.pay) = ListOf(With(nd, j), nd.pay)
    <2>1. With(nd, j) \in SUBSET nd.bit
        BY DEF With
    <2> QED BY <1>1, <1>2, <1>3, <2>1, ListsCarried
<1>5. ASSUME NEW j \in Keys, j # k PROVE ListOf(With(x, j), x.pay) = ListOf(With(nd, j), nd.pay)
    <2>1. With(x, j) = With(y, j)
        BY <1>1, <1>5 DEF With
    <2> QED BY <1>4, <2>1
<1>6. ListOf(With(x, k), x.pay) = Append(ListOf(With(nd, k), nd.pay), payload)
    <2> DEFINE S == With(y, k)
    <2>1. With(x, k) = S \cup {pos}
        BY <1>1, <1>3 DEF With
    <2>2. S \in SUBSET Int
        BY <1>3 DEF With
    <2>3. \A s \in S : \E p \in With(nd, k) : f[p] = s
        BY <1>1 DEF With, Adds
    <2>4. \A s \in S : s < pos
        BY <2>3 DEF With, Adds
    <2>5. IsFiniteSet(S)
        <3>1. With(nd, k) \in SUBSET Int /\ IsFiniteSet(With(nd, k))
            BY WithIs
        <3>2. \A p \in With(nd, k) : f[p] \in S
            BY <1>1 DEF With, Adds
        <3>3. \A p, q \in With(nd, k) : p < q => f[p] < f[q]
            BY DEF With, Adds
        <3>4. \A p \in With(nd, k) : x.pay[f[p]] = nd.pay[p]
            BY DEF With, Adds
        <3> HIDE DEF S
        <3> QED BY <2>2, <2>3, <3>1, <3>2, <3>3, <3>4, ListKept
    <2> HIDE DEF S
    <2>6. ListOf(S \cup {pos}, x.pay) = Append(ListOf(S, x.pay), x.pay[pos])
        BY <1>3, <2>2, <2>4, <2>5, ListGrows
    <2> QED BY <1>4, <2>1, <2>6 DEF S
<1> QED BY <1>5, <1>6 DEF Appended, Lists

LEMMA GapLists ==
    ASSUME NEW nd, NodeOK(nd), Paid(nd), NEW k \in Keys, NEW payload,
           NEW u, IsBound(nd, UpperSide(nd, k), u),
           NEW pos \in Gaps(nd), u <= pos
    PROVE  LET x == insert_element_at(nd, k, payload, pos)
           IN  Paid(x) /\ Appended(nd, x, k, payload)
<1> DEFINE x == insert_element_at(nd, k, payload, pos)
           f == [p \in nd.bit |-> p]
<1>1. /\ BitsOK(nd) /\ DOMAIN nd = Fields /\ pos \in Slots(nd) /\ pos \notin nd.bit /\ pos \in Int
      /\ nd.bit \in SUBSET Int
    BY NodeIs DEF NodeOK, Gaps
<1>2. /\ Paid(x) /\ x.bit = nd.bit \cup {pos} /\ x.key[pos] = k /\ x.pay[pos] = payload
      /\ \A p \in nd.bit : p # pos => x.key[p] = nd.key[p] /\ x.pay[p] = nd.pay[p]
    BY <1>1, InsertPays
<1>3. DOMAIN x = Fields
    BY <1>1, InsertFields DEF SameFrame
<1> HIDE DEF x
<1>4. \A p \in nd.bit : nd.key[p] = k => f[p] < pos
    <2>1. ASSUME NEW p \in nd.bit, nd.key[p] = k PROVE p < pos
        <3>1. p \in Slots(nd) /\ p \in Int /\ u \in Int /\ k \in Int
            BY UpperIs, NodeIs
        <3>2. p < u
            BY <2>1, <3>1, UpperIs
        <3> QED BY <1>1, <3>1, <3>2
    <2> QED BY <2>1
<1>5. \A p \in nd.bit : /\ f[p] \in x.bit /\ f[p] # pos
                        /\ x.key[f[p]] = nd.key[p] /\ x.pay[f[p]] = nd.pay[p]
    BY <1>1, <1>2
<1>6. \A p, q \in nd.bit : p < q => f[p] < f[q]
    OBVIOUS
<1>7. \A q \in x.bit : q # pos => \E p \in nd.bit : f[p] = q
    BY <1>2
<1> HIDE DEF f
<1>8. Adds(nd, x, f, pos)
    BY <1>1, <1>2, <1>4, <1>5, <1>6, <1>7 DEF Adds
<1> QED BY <1>2, <1>3, <1>8, ListAdded DEF x

\* The slots of nd, moved by f, leave the slot at free; those before u are before it.
Frees(nd, y, f, at, u) ==
    /\ \A p \in nd.bit : /\ f[p] \in y.bit /\ f[p] # at
                         /\ y.key[f[p]] = nd.key[p] /\ y.pay[f[p]] = nd.pay[p]
    /\ \A p, q \in nd.bit : p < q => f[p] < f[q]
    /\ \A q \in y.bit : q # at => \E p \in nd.bit : f[p] = q
    /\ \A p \in nd.bit : p < u => f[p] < at

LEMMA RightFrees ==
    ASSUME NEW nd, NodeOK(nd), NEW u \in Nat, NEW gap \in Gaps(nd), u < gap,
           \A p \in Slots(nd) : u <= p /\ p < gap => p \in nd.bit
    PROVE  \E f : Frees(nd, Moved(nd, gap, u), f, u, u)
<1> DEFINE y == Moved(nd, gap, u)
           f == [p \in nd.bit |-> IF u <= p /\ p < gap THEN p + 1 ELSE p]
<1>1. /\ nd.cap \in Nat /\ Slots(nd) = 0..nd.cap - 1 /\ gap \in Slots(nd) /\ gap \in Int /\ gap \notin nd.bit
      /\ \A p \in nd.bit : p \in Int /\ p \in Slots(nd)
    BY NodeIs DEF Gaps
<1>2. /\ y.bit = nd.bit \cup {gap} /\ y.key = MovedBy(nd, nd.key, gap, u)
      /\ y.pay = MovedBy(nd, nd.pay, gap, u)
    BY MovedFields DEF NodeOK
<1> HIDE DEF y
<1>3. \A q \in Slots(nd) :
         /\ u < q /\ q <= gap => y.key[q] = nd.key[q - 1] /\ y.pay[q] = nd.pay[q - 1]
         /\ q <= u \/ gap < q => y.key[q] = nd.key[q] /\ y.pay[q] = nd.pay[q]
    BY <1>1, <1>2 DEF MovedBy
<1>4. \A p \in nd.bit : f[p] = IF u <= p /\ p < gap THEN p + 1 ELSE p
    OBVIOUS
<1> HIDE DEF f
<1>5. ASSUME NEW p \in nd.bit
      PROVE  /\ f[p] \in y.bit /\ f[p] # u /\ (p < u => f[p] < u)
             /\ y.key[f[p]] = nd.key[p] /\ y.pay[f[p]] = nd.pay[p]
    <2>1. CASE u <= p /\ p < gap
        <3>1. f[p] = p + 1 /\ p + 1 \in Slots(nd) /\ (p + 1) - 1 = p /\ u < p + 1 /\ p + 1 <= gap
            BY <1>1, <1>4, <2>1
        <3>2. p + 1 = gap \/ p + 1 \in nd.bit
            BY <1>1, <2>1, <3>1
        <3> QED BY <1>1, <1>2, <1>3, <2>1, <3>1, <3>2
    <2>2. CASE ~(u <= p /\ p < gap)
        <3>1. f[p] = p /\ p # gap /\ p # u /\ p \in Slots(nd) /\ (p <= u \/ gap < p)
            BY <1>1, <1>4, <2>2
        <3> QED BY <1>1, <1>2, <1>3, <3>1
    <2> QED BY <2>1, <2>2
<1>6. \A p, q \in nd.bit : p < q => f[p] < f[q]
    BY <1>1, <1>4
<1>7. ASSUME NEW q \in y.bit, q # u PROVE \E p \in nd.bit : f[p] = q
    <2>1. q \in Int /\ q \in Slots(nd)
        BY <1>1, <1>2
    <2>2. CASE u < q /\ q <= gap
        <3>1. q - 1 \in nd.bit /\ u <= q - 1 /\ q - 1 < gap /\ (q - 1) + 1 = q
            BY <1>1, <2>1, <2>2
        <3> QED BY <1>4, <3>1
    <2>3. CASE ~(u < q /\ q <= gap)
        <3>1. q \in nd.bit /\ ~(u <= q /\ q < gap)
            BY <1>1, <1>2, <1>7, <2>1, <2>3
        <3> QED BY <1>4, <3>1
    <2> QED BY <2>2, <2>3
<1>8. Frees(nd, y, f, u, u)
    BY <1>5, <1>6, <1>7 DEF Frees
<1> QED BY <1>8 DEF y

LEMMA LeftFrees ==
    ASSUME NEW nd, NodeOK(nd), NEW u \in Nat, NEW gap \in Gaps(nd), gap < u, u <= nd.cap,
           \A p \in Slots(nd) : gap < p /\ p < u => p \in nd.bit
    PROVE  \E f : Frees(nd, Moved(nd, gap, u), f, u - 1, u)
<1> DEFINE y == Moved(nd, gap, u)
           f == [p \in nd.bit |-> IF gap < p /\ p < u THEN p - 1 ELSE p]
<1>1. /\ nd.cap \in Nat /\ Slots(nd) = 0..nd.cap - 1 /\ gap \in Slots(nd) /\ gap \in Int /\ gap \notin nd.bit
      /\ \A p \in nd.bit : p \in Int /\ p \in Slots(nd)
    BY NodeIs DEF Gaps
<1>2. /\ y.bit = nd.bit \cup {gap} /\ y.key = MovedBy(nd, nd.key, gap, u)
      /\ y.pay = MovedBy(nd, nd.pay, gap, u)
    BY MovedFields DEF NodeOK
<1> HIDE DEF y
<1>3. \A q \in Slots(nd) :
         /\ gap <= q /\ q < u - 1 => y.key[q] = nd.key[q + 1] /\ y.pay[q] = nd.pay[q + 1]
         /\ q < gap \/ u - 1 <= q => y.key[q] = nd.key[q] /\ y.pay[q] = nd.pay[q]
    BY <1>1, <1>2 DEF MovedBy
<1>4. \A p \in nd.bit : f[p] = IF gap < p /\ p < u THEN p - 1 ELSE p
    OBVIOUS
<1> HIDE DEF f
<1>5. ASSUME NEW p \in nd.bit
      PROVE  /\ f[p] \in y.bit /\ f[p] # u - 1 /\ (p < u => f[p] < u - 1)
             /\ y.key[f[p]] = nd.key[p] /\ y.pay[f[p]] = nd.pay[p]
    <2>1. CASE gap < p /\ p < u
        <3>1. f[p] = p - 1 /\ p - 1 \in Slots(nd) /\ (p - 1) + 1 = p /\ p - 1 < u - 1 /\ gap <= p - 1
            BY <1>1, <1>4, <2>1
        <3>2. p - 1 = gap \/ p - 1 \in nd.bit
            BY <1>1, <2>1, <3>1
        <3> QED BY <1>1, <1>2, <1>3, <2>1, <3>1, <3>2
    <2>2. CASE ~(gap < p /\ p < u)
        <3>1. f[p] = p /\ p # gap /\ p # u - 1 /\ p \in Slots(nd) /\ (p < gap \/ u - 1 <= p)
            BY <1>1, <1>4, <2>2
        <3> QED BY <1>1, <1>2, <1>3, <2>2, <3>1
    <2> QED BY <2>1, <2>2
<1>6. \A p, q \in nd.bit : p < q => f[p] < f[q]
    BY <1>1, <1>4
<1>7. ASSUME NEW q \in y.bit, q # u - 1 PROVE \E p \in nd.bit : f[p] = q
    <2>1. q \in Int /\ q \in Slots(nd)
        BY <1>1, <1>2
    <2>2. CASE gap <= q /\ q < u - 1
        <3>1. q + 1 \in nd.bit /\ gap < q + 1 /\ q + 1 < u /\ (q + 1) - 1 = q
            BY <1>1, <2>1, <2>2
        <3> QED BY <1>4, <3>1
    <2>3. CASE ~(gap <= q /\ q < u - 1)
        <3>1. q \in nd.bit /\ ~(gap < q /\ q < u)
            BY <1>1, <1>2, <1>7, <2>1, <2>3
        <3> QED BY <1>4, <3>1
    <2> QED BY <2>2, <2>3
<1>8. Frees(nd, y, f, u - 1, u)
    BY <1>5, <1>6, <1>7 DEF Frees
<1> QED BY <1>8 DEF y

LEMMA ShiftLists ==
    ASSUME NEW nd, NodeOK(nd), Paid(nd), Gaps(nd) # {}, NEW k \in Keys, NEW payload,
           NEW u, IsBound(nd, UpperSide(nd, k), u), u = nd.cap \/ u \in nd.bit
    PROVE  LET x == insert_using_shifts(nd, k, payload, u)
           IN  Paid(x) /\ Appended(nd, x, k, payload)
<1> DEFINE g == closest_gap(nd, u)
           y == Moved(nd, g, u)
           at == IF g >= u THEN u ELSE u - 1
           x == insert_using_shifts(nd, k, payload, u)
           p == Minimum(u, nd.cap - 1)
<1>1. /\ u \in Nat /\ u <= nd.cap /\ BitsOK(nd) /\ nd.cap \in Nat /\ nd.cap >= 1
      /\ Slots(nd) = 0..nd.cap - 1
    BY UpperIs, NodeIs
<1>2. p \in Slots(nd) /\ Nearest(nd, p, g)
    BY <1>1, ClosestGapIs
<1>3. x = insert_element_at(y, k, payload, at)
    BY ShiftsAre
<1>4. p \in Int /\ (u < nd.cap => p = u) /\ (u = nd.cap => p = u - 1)
    BY <1>1 DEF Minimum
<1> HIDE DEF g, x, p
<1>5. g \in Gaps(nd) /\ g \in Slots(nd) /\ g \notin nd.bit /\ g \in Int
    BY <1>1, <1>2 DEF Nearest, Gaps
<1>6. /\ DOMAIN y = Fields /\ y.bit = nd.bit \cup {g} /\ y.cap = nd.cap /\ DOMAIN y.pay = Slots(nd)
    <2>1. DOMAIN nd = Fields
        BY DEF NodeOK
    <2>2. SameFrame(nd, y) /\ y.bit = nd.bit \cup {g} /\ y.pay = MovedBy(nd, nd.pay, g, u)
        BY <2>1, MovedFields
    <2> HIDE DEF y
    <2> QED BY <2>2 DEF SameFrame, MovedBy
<1>7. at \in y.bit /\ at \in Slots(nd) /\ \E f : Frees(nd, y, f, at, u)
    <2>1. CASE g >= u
        <3>1. u < nd.cap /\ u \in nd.bit /\ u < g /\ p = u /\ at = u
            BY <1>1, <1>4, <1>5, <2>1
        <3>2. \A q \in Slots(nd) : u <= q /\ q < g => q \in nd.bit
            BY <1>1, <1>2, <1>5, <3>1, FilledUpToGap
        <3>3. \E f : Frees(nd, y, f, u, u)
            BY <1>1, <1>5, <3>1, <3>2, RightFrees
        <3> QED BY <1>1, <1>6, <3>1, <3>3
    <2>2. CASE ~(g >= u)
        <3>1. g < u /\ at = u - 1
            BY <1>1, <1>5, <2>2
        <3>2. \A q \in Slots(nd) : g < q /\ q < u => q \in nd.bit
            <4>1. ASSUME NEW q \in Slots(nd), g < q, q < u PROVE q \in nd.bit
                <5>1. q <= p
                    BY <1>1, <1>4, <4>1
                <5> QED BY <1>1, <1>2, <1>5, <4>1, <5>1, FilledUpToGap
            <4> QED BY <4>1
        <3>3. \E f : Frees(nd, y, f, u - 1, u)
            BY <1>1, <1>5, <3>1, <3>2, LeftFrees
        <3>4. u - 1 \in Slots(nd)
            BY <1>1, <1>5, <3>1
        <3>5. u - 1 \in y.bit
            BY <1>1, <1>5, <1>6, <3>1, <3>2, <3>4
        <3> QED BY <3>1, <3>3, <3>4, <3>5
    <2> QED BY <2>1, <2>2
<1> HIDE DEF y, at
<1>8. PICK f : Frees(nd, y, f, at, u)
    BY <1>7
<1>9. BitsOK(y) /\ Paid(y) /\ Slots(y) = Slots(nd) /\ y.bit \in SUBSET Int
    BY <1>1, <1>5, <1>6 DEF BitsOK, Paid, Slots
<1>10. /\ Paid(x) /\ x.bit = y.bit \cup {at} /\ x.key[at] = k /\ x.pay[at] = payload
       /\ \A q \in y.bit : q # at => x.key[q] = y.key[q] /\ x.pay[q] = y.pay[q]
    BY <1>3, <1>6, <1>7, <1>9, InsertPays
<1>11. DOMAIN x = Fields /\ x.bit = y.bit
    <2>1. DOMAIN x = Fields
        BY <1>3, <1>6, InsertFields DEF SameFrame
    <2> QED BY <1>7, <1>10, <2>1
<1>12. \A q \in nd.bit : nd.key[q] = k => q < u
    <2>1. ASSUME NEW q \in nd.bit, nd.key[q] = k PROVE q < u
        <3>1. q \in Slots(nd) /\ q \in Int /\ u \in Int /\ k \in Int
            BY <1>1, UpperIs, NodeIs
        <3> QED BY <2>1, <3>1, UpperIs
    <2> QED BY <2>1
<1>13. Adds(nd, x, f, at)
    <2>1. /\ \A q \in nd.bit : /\ f[q] \in y.bit /\ f[q] # at
                               /\ y.key[f[q]] = nd.key[q] /\ y.pay[f[q]] = nd.pay[q]
          /\ \A q, r \in nd.bit : q < r => f[q] < f[r]
          /\ \A q \in y.bit : q # at => \E r \in nd.bit : f[r] = q
          /\ \A q \in nd.bit : q < u => f[q] < at
        BY <1>8 DEF Frees
    <2>2. \A q \in nd.bit : /\ f[q] \in x.bit /\ f[q] # at
                            /\ x.key[f[q]] = nd.key[q] /\ x.pay[f[q]] = nd.pay[q]
        BY <1>10, <1>11, <2>1
    <2> QED BY <1>7, <1>9, <1>10, <1>11, <1>12, <2>1, <2>2 DEF Adds
<1> QED BY <1>10, <1>11, <1>13, ListAdded DEF x

LEMMA PutLists ==
    ASSUME NEW nd, NodeOK(nd), Paid(nd), nd.n < nd.cap, NEW k \in Keys, NEW payload
    PROVE  LET x == PutElement(nd, k, payload)
           IN  Paid(x) /\ Appended(nd, x, k, payload)
<1> DEFINE pos == find_insert_position(nd, k)[1]
           direct == pos < nd.cap /\ ~check_exists(nd, Minimum(pos, nd.cap - 1))
           put == IF direct THEN insert_element_at(nd, k, payload, pos)
                  ELSE insert_using_shifts(nd, k, payload, pos)
           x == [put EXCEPT !.n = nd.n + 1]
<1>1. PICK u : IsBound(nd, UpperSide(nd, k), u)
    BY BoundsOf
<1>2. /\ u \in Nat /\ u <= nd.cap /\ nd.cap \in Nat /\ Slots(nd) = 0..nd.cap - 1 /\ BitsOK(nd)
    BY <1>1, UpperIs, NodeIs
<1>3. \/ pos = u
      \/ pos \in Gaps(nd) /\ u <= pos /\ \A r \in nd.bit : r < u \/ r > pos
    BY <1>1, InsertPositionIs
<1>4. PutElement(nd, k, payload) = x
    BY DEF PutElement
<1> HIDE DEF pos
<1>5. pos \in Nat /\ (pos < nd.cap => Minimum(pos, nd.cap - 1) = pos)
    BY <1>2, <1>3 DEF Gaps, Minimum
<1>6. Paid(put) /\ DOMAIN put = Fields /\ Appended(nd, put, k, payload)
    <2>1. CASE direct
        <3>1. pos \in Gaps(nd) /\ u <= pos
            BY <1>2, <1>3, <1>5, <2>1 DEF Gaps, check_exists
        <3>2. put = insert_element_at(nd, k, payload, pos)
            BY <2>1
        <3> HIDE DEF put, direct, x
        <3>3. DOMAIN put = Fields
            <4>1. DOMAIN nd = Fields
                BY DEF NodeOK
            <4> QED BY <3>2, <4>1, InsertFields DEF SameFrame
        <3>4. /\ Paid(insert_element_at(nd, k, payload, pos))
              /\ Appended(nd, insert_element_at(nd, k, payload, pos), k, payload)
            BY <1>1, <3>1, GapLists
        <3> QED BY <3>2, <3>3, <3>4
    <2>2. CASE ~direct
        <3>1. pos = u /\ (u = nd.cap \/ u \in nd.bit)
            BY <1>2, <1>3, <1>5, <2>2 DEF Gaps, check_exists
        <3>2. put = insert_using_shifts(nd, k, payload, u)
            BY <2>2, <3>1
        <3>3. Gaps(nd) # {}
            BY RoomIs
        <3> HIDE DEF put
        <3>4. DOMAIN put = Fields
            BY <1>1, <3>1, <3>2, <3>3, ShiftsKeep DEF SameFrame
        <3> QED BY <1>1, <3>1, <3>2, <3>3, <3>4, ShiftLists
    <2> QED BY <2>1, <2>2
<1> HIDE DEF put
<1>7. x.bit = put.bit /\ x.key = put.key /\ x.pay = put.pay /\ x.cap = put.cap
    BY <1>6 DEF Fields
<1> HIDE DEF x
<1>8. Paid(x) /\ Lists(x) = Lists(put)
    BY <1>6, <1>7 DEF Paid, Slots, Lists, With
<1> QED BY <1>4, <1>6, <1>8 DEF Appended

-----------------------------------------------------------------------------
(* Deletes take keys away, or the oldest payload of one. *)

\* The filled slots that clearing lo..hi leaves.
Outside(nd, lo, hi) == nd.bit \ (lo..hi)

LEMMA ClearedCarries ==
    ASSUME NEW nd, NodeOK(nd), Paid(nd), NEW lo \in Int, NEW hi \in Int
    PROVE  LET x == Cleared(nd, lo, hi)
               D == Outside(nd, lo, hi)
           IN  /\ Paid(x) /\ x.bit = D /\ x.pay = nd.pay /\ \E f : Carries(nd, x, f, D)
               /\ \A p \in D : x.key[p] = nd.key[p]
<1> DEFINE x == Cleared(nd, lo, hi)
           D == nd.bit \ (lo..hi)
<1>1. DOMAIN nd = Fields
    BY DEF NodeOK
<1>2. /\ x.cap = nd.cap /\ x.bit = D
      /\ x.key = [p \in Slots(nd) |-> IF p \in lo..hi THEN KeyAfter(nd, hi + 1) ELSE nd.key[p]]
    BY <1>1 DEF Cleared, Fields
<1>3. x.pay = nd.pay
    BY <1>1 DEF Cleared, Fields
<1> HIDE DEF x
<1>4. \A p \in D : p \in nd.bit /\ x.key[p] = nd.key[p]
    <2>1. \A p \in D : p \in nd.bit /\ p \notin lo..hi /\ p \in Slots(nd)
        BY NodeIs
    <2> QED BY <1>2, <2>1
<1>5. Paid(x)
    BY <1>2, <1>3 DEF Paid, Slots
<1> HIDE DEF D
<1>6. Carries(nd, x, [p \in D |-> p], D)
    BY <1>2, <1>3, <1>4 DEF Carries
<1>7. Cleared(nd, lo, hi) = x /\ Outside(nd, lo, hi) = D
    BY DEF x, D, Outside
<1> QED BY <1>2, <1>3, <1>4, <1>5, <1>6, <1>7

\* A contraction makes no difference.
LEMMA UnsetLists ==
    ASSUME NEW nd, NodeOK(nd), Paid(nd), NEW hi \in Slots(nd), NEW lo \in Nat, NEW model \in Models,
           lo > hi \/ lo = 0 \/ lo - 1 \in nd.bit
    PROVE  /\ Paid(Unset(nd, lo, hi, model))
           /\ Lists(Unset(nd, lo, hi, model)) = Lists(Cleared(nd, lo, hi))
<1>1. NodeOK(Cleared(nd, lo, hi)) /\ Paid(Cleared(nd, lo, hi))
    <2>1. lo \in Int /\ hi \in Int
        BY NodeIs
    <2> QED BY <2>1, ClearedKeeps, ClearedCarries
<1>2. 8 \in {6, 7, 8}
    OBVIOUS
<1>3. /\ Paid(resize(Cleared(nd, lo, hi), 8, model))
      /\ Lists(resize(Cleared(nd, lo, hi), 8, model)) = Lists(Cleared(nd, lo, hi))
    BY <1>1, <1>2, ResizeLists
<1> QED BY <1>1, <1>3, UnsetIs

\* lo..hi has the filled slots with these keys.
Covers(nd, lo, hi, K) == \A p \in nd.bit : p \in lo..hi <=> nd.key[p] \in K

LEMMA ClearedWithout ==
    ASSUME NEW nd, NodeOK(nd), Paid(nd), NEW lo \in Int, NEW hi \in Int, NEW K, Covers(nd, lo, hi, K)
    PROVE  Without(nd, Cleared(nd, lo, hi), K)
<1> DEFINE x == Cleared(nd, lo, hi)
           D == Outside(nd, lo, hi)
<1>1. x.bit = D /\ \E f : Carries(nd, x, f, D)
    BY ClearedCarries
<1>2. x.bit \in SUBSET Int
    BY <1>1, NodeIs DEF Outside
<1>3. \A p \in nd.bit : p \in D <=> nd.key[p] \notin K
    BY DEF Covers, Outside
<1> HIDE DEF x, D
<1>4. Without(nd, x, K)
    BY <1>1, <1>2, <1>3, WithoutIf
<1> QED BY <1>4 DEF x

LEMMA UnsetWithout ==
    ASSUME NEW nd, NodeOK(nd), Paid(nd), NEW hi \in Slots(nd), NEW lo \in Nat, NEW model \in Models,
           lo > hi \/ lo = 0 \/ lo - 1 \in nd.bit, NEW K, Covers(nd, lo, hi, K)
    PROVE  Paid(Unset(nd, lo, hi, model)) /\ Without(nd, Unset(nd, lo, hi, model), K)
<1>1. lo \in Int /\ hi \in Int
    BY NodeIs
<1>2. Without(nd, Cleared(nd, lo, hi), K)
    BY <1>1, ClearedWithout
<1> QED BY <1>2, UnsetLists DEF Without

\* Nothing to take away.
LEMMA NothingWithout ==
    ASSUME NEW nd, NodeOK(nd), NEW K, \A p \in nd.bit : nd.key[p] \notin K
    PROVE  Without(nd, nd, K)
<1> DEFINE D == nd.bit
           f == [p \in D |-> p]
<1>1. Carries(nd, nd, f, D)
    BY DEF Carries
<1>2. nd.bit \in SUBSET Int /\ \A p \in nd.bit : p \in D <=> nd.key[p] \notin K
    BY NodeIs
<1> HIDE DEF f, D
<1> QED BY <1>1, <1>2, WithoutIf

LEMMA EraseLists ==
    ASSUME NEW nd, NodeOK(nd), Paid(nd), NEW key \in Keys, NEW model \in Models
    PROVE  Paid(erase(nd, key, model)) /\ Without(nd, erase(nd, key, model), {key})
<1>1. CASE erase(nd, key, model) = nd /\ \A p \in nd.bit : nd.key[p] # key
    <2>1. \A p \in nd.bit : nd.key[p] \notin {key}
        BY <1>1
    <2> QED BY <1>1, <2>1, NothingWithout
<1>2. ASSUME NEW hi \in Slots(nd), NEW lo \in Nat,
             erase(nd, key, model) = Unset(nd, lo, hi, model), lo = 0 \/ lo - 1 \in nd.bit,
             \A p \in nd.bit : p \in lo..hi <=> nd.key[p] = key
      PROVE  Paid(erase(nd, key, model)) /\ Without(nd, erase(nd, key, model), {key})
    <2>1. Covers(nd, lo, hi, {key})
        BY <1>2 DEF Covers
    <2> QED BY <1>2, <2>1, UnsetWithout
<1> QED BY <1>1, <1>2, EraseIs, SMTT(20)

LEMMA EraseRangeLists ==
    ASSUME NEW nd, NodeOK(nd), Paid(nd), NEW start \in Keys, NEW finish \in Keys,
           NEW inclusive \in BOOLEAN, NEW model \in Models
    PROVE  LET x == erase_range(nd, start, finish, inclusive, model)
           IN  Paid(x) /\ Without(nd, x, {k \in Keys : InRange(k, start, finish, inclusive)})
<1> DEFINE x == erase_range(nd, start, finish, inclusive, model)
           K == {k \in Keys : InRange(k, start, finish, inclusive)}
<1>1. \A p \in nd.bit : nd.key[p] \in K <=> InRange(nd.key[p], start, finish, inclusive)
    BY NodeIs
<1>2. \/ x = nd /\ \A p \in nd.bit : ~InRange(nd.key[p], start, finish, inclusive)
      \/ \E hi \in Slots(nd), lo \in Nat :
            /\ x = Unset(nd, lo, hi, model) /\ (lo > hi \/ lo = 0 \/ lo - 1 \in nd.bit)
            /\ \A p \in nd.bit : p \in lo..hi <=> InRange(nd.key[p], start, finish, inclusive)
    BY EraseRangeIs
<1> HIDE DEF x, K
<1>3. CASE x = nd /\ \A p \in nd.bit : ~InRange(nd.key[p], start, finish, inclusive)
    BY <1>1, <1>3, NothingWithout DEF x, K
<1>4. ASSUME NEW hi \in Slots(nd), NEW lo \in Nat,
             x = Unset(nd, lo, hi, model), lo > hi \/ lo = 0 \/ lo - 1 \in nd.bit,
             \A p \in nd.bit : p \in lo..hi <=> InRange(nd.key[p], start, finish, inclusive)
      PROVE  Paid(x) /\ Without(nd, x, K)
    <2>1. Covers(nd, lo, hi, K)
        BY <1>1, <1>4 DEF Covers
    <2> QED BY <1>4, <2>1, UnsetWithout
<1> QED BY <1>2, <1>3, <1>4 DEF x, K

\* Key k has lost its oldest payload.
Shortened(nd, x, k) == Lists(nd)[k] # <<>> /\ Lists(x) = [Lists(nd) EXCEPT ![k] = Tail(@)]

LEMMA EraseOneLists ==
    ASSUME NEW nd, NodeOK(nd), Paid(nd), NEW key \in Keys, NEW model \in Models,
           NEW x \in erase_one(nd, key, {}, model)
    PROVE  Paid(x) /\ ((Lists(nd)[key] = <<>> /\ x = nd) \/ Shortened(nd, x, key))
<1>1. CASE x = nd /\ \A p \in nd.bit : nd.key[p] # key
    <2>1. With(nd, key) = {}
        BY <1>1 DEF With
    <2>2. Lists(nd)[key] = <<>>
        BY <2>1, ListOfNone DEF Lists
    <2> QED BY <1>1, <2>2
<1>2. ASSUME NEW pos \in nd.bit, NEW lo \in Nat,
             x = Unset(nd, lo, pos, model), lo = 0 \/ lo - 1 \in nd.bit,
             nd.key[pos] = key, \A p \in nd.bit : nd.key[p] = key => pos <= p,
             \A p \in nd.bit : p \in lo..pos <=> p = pos
      PROVE  Paid(x) /\ Shortened(nd, x, key)
    <2> DEFINE y == Cleared(nd, lo, pos)
               D == Outside(nd, lo, pos)
    <2>1. pos \in Slots(nd) /\ pos \in Int /\ lo \in Int
        BY NodeIs
    <2>2. Paid(x) /\ Lists(x) = Lists(y)
        BY <1>2, <2>1, UnsetLists
    <2>3. /\ y.bit = D /\ y.pay = nd.pay /\ \E f : Carries(nd, y, f, D)
          /\ \A p \in D : y.key[p] = nd.key[p]
        BY <2>1, ClearedCarries
    <2>4. D = nd.bit \ {pos}
        BY <1>2 DEF Outside
    <2>5. y.bit \in SUBSET Int
        BY <2>3, <2>4, NodeIs
    <2> HIDE DEF y, D
    <2>6. ASSUME NEW k \in Keys, k # key PROVE ListOf(With(y, k), y.pay) = ListOf(With(nd, k), nd.pay)
        <3>1. With(nd, k) \in SUBSET D
            BY <1>2, <2>4, <2>6 DEF With
        <3> QED BY <2>3, <2>5, <3>1, ListsCarried
    <2> DEFINE S == With(nd, key)
    <2>7. With(y, key) = S \ {pos}
        BY <2>3, <2>4 DEF With
    <2>8. S \in SUBSET Int /\ IsFiniteSet(S)
        BY WithIs
    <2>9. pos \in S /\ \A p \in S : pos <= p
        BY <1>2 DEF With
    <2> HIDE DEF S
    <2>10. ListOf(S \ {pos}, nd.pay) = Tail(ListOf(S, nd.pay)) /\ ListOf(S, nd.pay) # <<>>
        BY <2>8, <2>9, ListShrinks
    <2>11. /\ ListOf(With(y, key), y.pay) = Tail(ListOf(With(nd, key), nd.pay))
           /\ ListOf(With(nd, key), nd.pay) # <<>>
        BY <2>3, <2>7, <2>10 DEF S
    <2>12. Lists(y) = [Lists(nd) EXCEPT ![key] = Tail(@)] /\ Lists(nd)[key] # <<>>
        BY <2>6, <2>11 DEF Lists
    <2> QED BY <2>2, <2>12 DEF Shortened
<1> QED BY <1>1, <1>2, EraseOneIs

-----------------------------------------------------------------------------
(* The refinement. *)

MInv == IInv /\ Paid(node)

LEMMA ContentsListed ==
    /\ NodeOK(node) => Contents = Lists(node)
    /\ NodeOK(node') => Contents' = Lists(node')
<1>1. NodeOK(node) => Contents = Lists(node)
    BY ContentsAre DEF Contents
<1>2. NodeOK(node') => Contents' = Lists(node')
    BY ContentsAre DEF Contents
<1> QED BY <1>1, <1>2

\* What a step does, in terms of the lists.
Refines == [Abstract!Next]_<<Contents, pending>>

LEMMA EmptyIs ==
    ASSUME NodeOK(node), NodeOK(node'), NEW K, Without(node, node', K)
    PROVE  Contents' = Abstract!Empty(K)
<1>1. Contents = Lists(node) /\ Contents' = Lists(node')
    BY ContentsListed
<1> QED BY <1>1 DEF Without, Abstract!Empty

\* insert, at the first and at a further attempt.
LEMMA InsertRefines ==
    ASSUME MInv, Insert
    PROVE  Paid(node') /\ (NodeOK(node') => Refines)
<1> DEFINE key == pending.key
           payload == pending.payload
<1>1. NodeOK(node) /\ Paid(node) /\ CallOK(pending) /\ 6 \in {6, 7, 8}
    BY DEF MInv, IInv
<1>2. pending.op = "insert" /\ key \in Keys /\ payload \in Payloads /\ insert(key, payload)
    BY <1>1 DEF Insert, CallOK, NoCall
<1> HIDE DEF key, payload
<1>3. CASE /\ Full(node) => node.n * 10 <= MaxSlots * 6
           /\ \E nd \in IF Full(node) THEN {resize(node, 6, model) : model \in build_model}
                        ELSE {node} :
                 node' = PutElement(nd, key, payload)
           /\ fail' = 0 /\ pending' = NoCall
    <2>1. PICK nd \in IF Full(node) THEN {resize(node, 6, model) : model \in build_model} ELSE {node} :
              node' = PutElement(nd, key, payload)
        BY <1>3
    <2>2. node.n \in Nat /\ node.cap \in Nat /\ node.expand \in Int /\ node.expand >= 1
          /\ node.expand <= node.cap * 10
        BY <1>1, NodeIs DEF NodeOK
    <2>3. NodeOK(nd) /\ Paid(nd) /\ nd.n < nd.cap /\ Lists(nd) = Lists(node)
        <3>1. CASE Full(node)
            <4>1. PICK model \in Models : nd = resize(node, 6, model)
                BY <2>1, <3>1 DEF build_model
            <4>2. node.n > 0
                BY <2>2, <3>1 DEF Full
            <4>3. NodeOK(nd) /\ nd.n < nd.cap
                BY <1>1, <4>1, <4>2, ResizeKeeps
            <4> QED BY <1>1, <4>1, <4>3, ResizeLists
        <3>2. CASE ~Full(node)
            <4>1. nd = node
                BY <2>1, <3>2
            <4>2. node.n < node.cap
                BY <2>2, <3>2 DEF Full
            <4> QED BY <1>1, <4>1, <4>2
        <3> QED BY <3>1, <3>2
    <2>4. Paid(PutElement(nd, key, payload)) /\ Appended(nd, PutElement(nd, key, payload), key, payload)
        BY <1>2, <2>3, PutLists
    <2>5. Paid(node') /\ Appended(node, node', key, payload)
        BY <2>1, <2>3, <2>4 DEF Appended
    <2>6. ASSUME NodeOK(node') PROVE Contents' = [Contents EXCEPT ![key] = Append(@, payload)]
        BY <1>1, <2>5, <2>6, ContentsListed DEF Appended
    <2>7. ASSUME NodeOK(node') PROVE Abstract!Insert
        BY <1>2, <1>3, <2>6, <2>7 DEF Abstract!Insert, Abstract!Returned, NoCall, key, payload
    <2> QED BY <2>5, <2>7 DEF Refines, Abstract!Next
<1>4. CASE fail' \in FailFlags(node) /\ UNCHANGED <<node, pending>>
    BY <1>1, <1>4, ContentsListed DEF Refines
<1> QED BY <1>2, <1>3, <1>4 DEF insert

\* A split leaves the side of the pending key.
LEMMA SplitRefines ==
    ASSUME MInv, NEW mid \in Keys, Split(mid)
    PROVE  Paid(node') /\ (NodeOK(node') => Refines)
<1> DEFINE b == lower_bound(node, mid)
           L == {k \in Keys : k < mid}
           R == {k \in Keys : k >= mid}
           top == node.cap
           zero == 0
<1>1. NodeOK(node) /\ Paid(node) /\ pending.op = "insert" /\ pending' = pending
    BY DEF MInv, IInv, Split
<1>2. PICK model \in Models :
          node' = IF pending.key < mid THEN bulk_load_from_existing(node, zero, b, model)
                  ELSE bulk_load_from_existing(node, b, top, model)
    BY DEF Split, build_model
<1>3. b \in Int /\ top \in Int /\ zero \in Int
    BY <1>1, BoundsFound, NodeIs DEF IsBound
<1>4. \A p \in Slots(node) : node.key[p] < mid <=> p < b
    BY <1>1, BoundsFound DEF IsBound, LowerSide
<1>5. \A p \in node.bit : /\ p \in Int /\ zero <= p /\ p < top
                          /\ node.key[p] \in Keys /\ p \in Slots(node)
    BY <1>1, NodeIs
<1> HIDE DEF b, top, zero
<1>6. \A p \in node.bit : zero <= p /\ p < b <=> node.key[p] \notin R
    BY <1>3, <1>4, <1>5, KeysAre
<1>7. \A p \in node.bit : b <= p /\ p < top <=> node.key[p] \notin L
    BY <1>3, <1>4, <1>5, KeysAre
<1>8. CASE pending.key < mid
    <2>1. Paid(node') /\ Without(node, node', R)
        <3> HIDE DEF R
        <3> QED BY <1>1, <1>2, <1>3, <1>6, <1>8, PartHasLists
    <2>2. ASSUME NodeOK(node') PROVE Abstract!Split
        <3>1. Contents' = Abstract!Empty(R)
            BY <1>1, <2>1, <2>2, EmptyIs
        <3> QED BY <1>1, <1>8, <3>1 DEF Abstract!Split
    <2> QED BY <2>1, <2>2 DEF Refines, Abstract!Next
<1>9. CASE ~(pending.key < mid)
    <2>1. Paid(node') /\ Without(node, node', L)
        <3> HIDE DEF L
        <3> QED BY <1>1, <1>2, <1>3, <1>7, <1>9, PartHasLists
    <2>2. ASSUME NodeOK(node') PROVE Abstract!Split
        <3>1. Contents' = Abstract!Empty(L)
            BY <1>1, <2>1, <2>2, EmptyIs
        <3> QED BY <1>1, <1>9, <3>1 DEF Abstract!Split
    <2> QED BY <2>1, <2>2 DEF Refines, Abstract!Next
<1> QED BY <1>8, <1>9

\* The deletes.
LEMMA DeleteRefines ==
    ASSUME PastEnd = {{}}, MInv, EraseOne \/ Erase \/ EraseRange
    PROVE  Paid(node') /\ (NodeOK(node') => Refines)
<1> DEFINE key == pending.key
           finish == pending.finish
           inclusive == pending.inclusive
<1>1. /\ NodeOK(node) /\ Paid(node) /\ CallOK(pending) /\ pending'.op = "none"
      /\ NodeOK(node') => Contents = Lists(node) /\ Contents' = Lists(node')
    BY ContentsListed DEF MInv, IInv, EraseOne, Erase, EraseRange, Deleted, NoCall
<1>2. CASE EraseOne
    <2>1. pending.op = "erase_one" /\ key \in Keys
        BY <1>1, <1>2 DEF EraseOne, Deleted, CallOK, NoCall
    <2>2. PICK model \in Models : node' \in erase_one(node, key, {}, model)
        BY <1>2 DEF EraseOne, build_model
    <2> HIDE DEF key
    <2>3. Paid(node') /\ ((Lists(node)[key] = <<>> /\ node' = node) \/ Shortened(node, node', key))
        BY <1>1, <2>1, <2>2, EraseOneLists
    <2>4. ASSUME NodeOK(node')
          PROVE  Contents' = IF Contents[key] = <<>> THEN Contents ELSE [Contents EXCEPT ![key] = Tail(@)]
        BY <1>1, <2>3, <2>4 DEF Shortened
    <2>5. NodeOK(node') => Abstract!EraseOne
        BY <1>1, <2>1, <2>4 DEF Abstract!EraseOne, Abstract!Returned, key
    <2> QED BY <2>3, <2>5 DEF Refines, Abstract!Next
<1>3. CASE Erase
    <2>1. pending.op = "erase" /\ key \in Keys
        BY <1>1, <1>3 DEF Erase, Deleted, CallOK, NoCall
    <2>2. PICK model \in Models : node' = erase(node, key, model)
        BY <1>3 DEF Erase, build_model
    <2> HIDE DEF key
    <2>3. Paid(node') /\ Without(node, node', {key})
        BY <1>1, <2>1, <2>2, EraseLists
    <2>4. NodeOK(node') => Contents' = Abstract!Empty({key})
        BY <1>1, <2>3, EmptyIs
    <2>5. NodeOK(node') => Abstract!Erase
        BY <1>1, <2>1, <2>4 DEF Abstract!Erase, Abstract!Returned, key
    <2> QED BY <2>3, <2>5 DEF Refines, Abstract!Next
<1>4. CASE EraseRange
    <2>1. pending.op = "erase_range" /\ key \in Keys /\ finish \in Keys /\ inclusive \in BOOLEAN
        BY <1>1, <1>4 DEF EraseRange, Deleted, CallOK, NoCall
    <2>2. PICK model \in Models : node' = erase_range(node, key, finish, inclusive, model)
        BY <1>4 DEF EraseRange, build_model
    <2> HIDE DEF key, finish, inclusive
    <2> DEFINE K == {k \in Keys : InRange(k, key, finish, inclusive)}
    <2>3. Paid(node') /\ Without(node, node', K)
        BY <1>1, <2>1, <2>2, EraseRangeLists
    <2>4. K = {k \in Keys : Abstract!InRange(k)}
        BY DEF InRange, Abstract!InRange, key, finish, inclusive
    <2> HIDE DEF K
    <2>5. NodeOK(node') => Contents' = Abstract!Empty(K)
        BY <1>1, <2>3, EmptyIs
    <2>6. NodeOK(node') => Abstract!EraseRange
        BY <1>1, <2>1, <2>4, <2>5 DEF Abstract!EraseRange, Abstract!Returned
    <2> QED BY <2>3, <2>6 DEF Refines, Abstract!Next
<1> QED BY <1>2, <1>3, <1>4

LEMMA NextRefines ==
    ASSUME PastEnd = {{}}, MInv, [Next]_vars
    PROVE  MInv' /\ Refines
<1>1. NodeOK(node) /\ Paid(node) /\ IInv /\ 6 \in {6, 7, 8}
    BY DEF MInv, IInv
<1>2. IInv' /\ NodeOK(node')
    BY <1>1, NextOK DEF IInv
<1>3. ASSUME Paid(node') PROVE MInv'
    BY <1>2, <1>3 DEF MInv, Paid, Slots
<1>4. ASSUME NEW request, CallOK(request), Call(request) PROVE MInv' /\ Refines
    <2>1. Contents' = Contents /\ Paid(node')
        BY <1>1, <1>4, ContentsListed DEF Call
    <2>2. CASE request = NoCall
        BY <1>3, <1>4, <2>1, <2>2 DEF Refines, Call
    <2>3. CASE request # NoCall
        <3>1. pending.op = "none" /\ pending'.op # "none" /\ pending'.key \in Keys
            BY <1>4, <2>3 DEF Call, CallOK, NoCall
        <3>2. Abstract!Call
            BY <2>1, <3>1 DEF Abstract!Call
        <3> QED BY <1>3, <2>1, <3>2 DEF Refines, Abstract!Next
    <2> QED BY <2>2, <2>3
<1>5. CASE \E request : CallOK(request) /\ Call(request)
    BY <1>4, <1>5
<1>6. CASE Insert
    BY <1>2, <1>3, <1>6, InsertRefines
<1>7. CASE Retrain
    <2>1. PICK model \in Models : node' = resize(node, 6, model)
        BY <1>7 DEF Retrain, build_model
    <2>2. Paid(resize(node, 6, model)) /\ Lists(resize(node, 6, model)) = Lists(node)
        BY <1>1, ResizeLists
    <2>3. Contents' = Contents /\ pending' = pending
        BY <1>1, <1>2, <1>7, <2>1, <2>2, ContentsListed DEF Retrain
    <2> QED BY <1>3, <2>1, <2>2, <2>3 DEF Refines
<1>8. ASSUME NEW mid \in Keys, Split(mid) PROVE MInv' /\ Refines
    BY <1>2, <1>3, <1>8, SplitRefines
<1>9. CASE EraseOne \/ Erase \/ EraseRange
    BY <1>2, <1>3, <1>9, DeleteRefines
<1>10. CASE UNCHANGED vars
    <2>1. Contents' = Contents /\ pending' = pending /\ Paid(node')
        BY <1>1, <1>10, ContentsListed DEF vars
    <2> QED BY <1>3, <2>1 DEF Refines
<1> QED BY <1>5, <1>6, <1>7, <1>8, <1>9, <1>10, CallsAre DEF Next

-----------------------------------------------------------------------------
(* The theorems.  With PastEnd = {{}} the memory behind the bitmap is zero. *)

\* Across any sequence of inserts, shifts, expansions, contractions, splits and
\* deletes the slots stay sorted, gaps keep the key of the next filled slot, and
\* num_keys_ counts the filled ones (validate_structure, alex_nodes.h:2613).
THEOREM NodeStaysValid ==
    ASSUME PastEnd = {{}}
    PROVE  Spec => []ValidStructure
<1>1. IInv => ValidStructure
    BY StructureIs
<1> QED BY <1>1, Inductive, PTL

\* Exponential search from any slot finds the bounds of every key, the lookups
\* answer with the filled slots, and closest_gap finds a gap that none is nearer
\* than, for any width of a word.
THEOREM NodeSearchesExact ==
    ASSUME PastEnd = {{}}
    PROVE  Spec => []SearchesExact
<1>1. IInv => SearchesExact
    BY SearchIs, ClosestIs DEF SearchesExact
<1> QED BY <1>1, Inductive, PTL

\* The slots a cost is computed from before a node exists are the slots its keys
\* get, for any keys and any linear model.
THEOREM NodeCostOfLayout ==
    ASSUME PastEnd = {{}}
    PROVE  Spec => []CostOfLayout
<1>1. IInv => CostOfLayout
    BY CostIs
<1> QED BY <1>1, Inductive, PTL

\* A data node of ALEX is a multimap: a call adds, removes or leaves exactly the
\* pairs that its kind and its arguments say, when it returns; a retraining, a
\* resize or a refused insert changes no pair, and a split none of the side that
\* stays; pairs with equal keys keep their order of insertion
\* (alex_nodes.h:1888-2490).
THEOREM NodeImplementsMultimap ==
    ASSUME PastEnd = {{}}
    PROVE  Spec => ImplementsMultimap
<1>1. Init => MInv /\ Contents \in [Keys -> Seq(Payloads)] /\ pending.op = "none"
    <2> SUFFICES ASSUME Init PROVE MInv /\ Contents \in [Keys -> Seq(Payloads)] /\ pending.op = "none"
        OBVIOUS
    <2>1. PICK vals \in Loads, model \in Models : node = bulk_load(vals, model)
        BY DEF Init, build_model
    <2>2. Paid(node) /\ Lists(node) \in [Keys -> Seq(Payloads)]
        BY <2>1, LoadTyped
    <2>3. IInv /\ NodeOK(node) /\ pending.op = "none"
        BY InitOK DEF IInv, Init, NoCall
    <2> QED BY <2>2, <2>3, ContentsListed DEF MInv
<1>2. MInv /\ [Next]_vars => MInv' /\ [Abstract!Next]_<<Contents, pending>>
    BY NextRefines DEF Refines
<1> QED BY <1>1, <1>2, PTL DEF Spec, ImplementsMultimap, Abstract!Spec
=============================================================================
