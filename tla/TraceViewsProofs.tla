-------------------------- MODULE TraceViewsProofs ---------------------------
(***************************************************************************)
(* What the views of a trace show, for any spans, exports, searches and    *)
(* lists of values, and any number of rows.                                *)
(***************************************************************************)
EXTENDS TraceViews, FiniteSetTheorems, WellFoundedInduction, TLAPS

-----------------------------------------------------------------------------
(* Numbers.                                                                  *)

\* Induction, in the form of sets.
LEMMA AllNumbers ==
    ASSUME NEW S, 0 \in S, \A n \in Nat : n \in S => n + 1 \in S
    PROVE  Nat \subseteq S
<1> DEFINE T == Nat \ S
<1> SUFFICES ASSUME T # {}
             PROVE  FALSE
  OBVIOUS
<1>1. PICK x \in T : \A y \in T : ~(<<y, x>> \in OpToRel(<, Nat))
  <2>1. T \subseteq Nat
    OBVIOUS
  <2> HIDE DEF T
  <2> QED
    BY <2>1, NatLessThanWellFounded, WFMin, Zenon
<1>2. \A y \in T : ~(y < x)
  BY <1>1 DEF OpToRel
<1>3. x \in Nat /\ x # 0
  OBVIOUS
<1>4. x - 1 \in Nat /\ x - 1 < x /\ (x - 1) + 1 = x
  BY <1>3
<1>5. x - 1 \in S
  BY <1>2, <1>4
<1> QED
  BY <1>4, <1>5

\* Numbers have a least one.
LEMMA LeastNumber ==
    ASSUME NEW S \in SUBSET Nat, S # {}
    PROVE  \E least \in S : \A x \in S : least <= x
<1>1. PICK x \in S : \A y \in S : ~(<<y, x>> \in OpToRel(<, Nat))
  BY NatLessThanWellFounded, WFMin, Zenon
<1>2. S \subseteq Nat
  OBVIOUS
<1>3. \A y \in S : ~(y < x)
  BY <1>1, <1>2 DEF OpToRel
<1>4. \A y \in S : x <= y
  BY <1>2, <1>3
<1> QED
  BY <1>4

LEMMA MinIs ==
    ASSUME NEW S \in SUBSET Nat, S # {}
    PROVE  Min(S) \in S /\ \A x \in S : Min(S) <= x
<1>1. \E x \in S : \A y \in S : x <= y
  BY LeastNumber
<1> QED
  BY <1>1, Zenon DEF Min

\* Numbers that do not exceed some number have a greatest one.
LEMMA MaxIs ==
    ASSUME NEW S \in SUBSET Nat, S # {}, NEW n \in Nat, \A x \in S : x <= n
    PROVE  Max(S) \in S /\ \A x \in S : x <= Max(S)
<1> DEFINE T == {n - x : x \in S}
<1>0. S \subseteq Nat
  OBVIOUS
<1>1. T \in SUBSET Nat /\ T # {}
  <2>1. \A x \in S : n - x \in Nat
    BY <1>0
  <2> QED
    BY <2>1
<1>2. PICK least \in T : \A y \in T : least <= y
  <2> HIDE DEF T
  <2> QED
    BY <1>1, LeastNumber
<1>3. PICK x \in S : least = n - x
  OBVIOUS
<1>4. \A y \in S : x >= y
  <2> SUFFICES ASSUME NEW y \in S
               PROVE  x >= y
    OBVIOUS
  <2>1. least <= n - y
    BY <1>2
  <2>2. x \in Nat /\ y \in Nat
    BY <1>0
  <2> QED
    BY <1>3, <2>1, <2>2
<1>5. Max(S) \in S /\ \A y \in S : Max(S) >= y
  BY <1>4, Zenon DEF Max
<1> QED
  BY <1>5

\* What a recursion over numbers comes to.
Recurs(f, D, first, step, k) ==
    f \in [0 .. k -> D] /\ f[0] = first /\ \A n \in 1 .. k : f[n] = step[f[n - 1]]

LEMMA Recursion ==
    ASSUME NEW D, NEW first \in D, NEW step \in [D -> D], NEW k \in Nat
    PROVE  \E f : Recurs(f, D, first, step, k)
<1> DEFINE Is(f, m) == f[0] = first /\ \A n \in 1 .. m : f[n] = step[f[n - 1]]
           Good == {m \in Nat : \E f \in [0 .. m -> D] : Is(f, m)}
<1>1. 0 \in Good
  <2> DEFINE f == [n \in 0 .. 0 |-> first]
  <2>1. f \in [0 .. 0 -> D] /\ Is(f, 0)
    OBVIOUS
  <2> QED
    BY <2>1
<1>2. \A m \in Nat : m \in Good => m + 1 \in Good
  <2> SUFFICES ASSUME NEW m \in Nat, NEW f \in [0 .. m -> D], Is(f, m)
               PROVE  \E g \in [0 .. m + 1 -> D] : Is(g, m + 1)
    OBVIOUS
  <2> DEFINE g == [n \in 0 .. m + 1 |-> IF n = m + 1 THEN step[f[m]] ELSE f[n]]
  <2>1. f[m] \in D
    OBVIOUS
  <2>2. step[f[m]] \in D
    BY <2>1
  <2>3. \A n \in 0 .. m : n \in 0 .. m + 1 /\ n # m + 1
    OBVIOUS
  <2>4. \A n \in 0 .. m : g[n] = f[n]
    BY <2>3
  <2>5. g \in [0 .. m + 1 -> D]
    BY <2>2
  <2>6. g[0] = first
    BY <2>4
  <2>7. \A n \in 1 .. m + 1 : g[n] = step[g[n - 1]]
    <3> SUFFICES ASSUME NEW n \in 1 .. m + 1
                 PROVE  g[n] = step[g[n - 1]]
      OBVIOUS
    <3>1. g[n - 1] = f[n - 1]
      BY <2>4
    <3>2. CASE n = m + 1
      BY <3>1, <3>2
    <3>3. CASE n # m + 1
      <4>1. n \in 1 .. m /\ n \in 0 .. m
        BY <3>3
      <4>2. g[n] = f[n]
        BY <2>4, <4>1
      <4> QED
        BY <3>1, <4>1, <4>2
    <3> QED
      BY <3>2, <3>3
  <2> QED
    BY <2>5, <2>6, <2>7
<1> HIDE DEF Good
<1>3. Nat \subseteq Good
  BY <1>1, <1>2, AllNumbers
<1> QED
  BY <1>3 DEF Good, Recurs

-----------------------------------------------------------------------------
(* Orders.                                                                   *)

\* What InOrder makes of the orders of n items: those of n + 1.
Longer(seqs, items, key) ==
    UNION {{Append(seq, item) : item \in Least(items \ ToSet(seq), key)} : seq \in seqs}

ChainOfOrders(orders, items, key) ==
    orders = [n \in 0 .. Cardinality(items) |->
                 IF n = 0 THEN {<<>>} ELSE Longer(orders[n - 1], items, key)]

LEMMA OrdersExist ==
    ASSUME NEW items, IsFiniteSet(items), NEW key
    PROVE  \E orders : ChainOfOrders(orders, items, key)
<1> DEFINE N == Cardinality(items)
           D == SUBSET Seq(items)
           step == [seqs \in D |-> Longer(seqs, items, key)]
<1>1. N \in Nat
  BY FS_CardinalityType
<1>2. {<<>>} \in D
  OBVIOUS
<1>3. step \in [D -> D]
  <2> SUFFICES ASSUME NEW seqs \in D
               PROVE  Longer(seqs, items, key) \subseteq Seq(items)
    BY Zenon
  <2> SUFFICES ASSUME NEW seq \in seqs, NEW item \in Least(items \ ToSet(seq), key)
               PROVE  Append(seq, item) \in Seq(items)
    <3>1. \A x \in Longer(seqs, items, key) :
             \E seq \in seqs : \E item \in Least(items \ ToSet(seq), key) : x = Append(seq, item)
      BY DEF Longer
    <3> QED
      BY <3>1
  <2>1. seq \in Seq(items) /\ item \in items
    BY DEF Least
  <2> QED
    BY <2>1
<1> HIDE DEF D, step, N
<1>4. PICK f \in [0 .. N -> D] : f[0] = {<<>>} /\ \A n \in 1 .. N : f[n] = step[f[n - 1]]
  <2>1. PICK first : first = {<<>>}
    OBVIOUS
  <2>2. first \in D
    BY <1>2, <2>1
  <2>3. \E f : Recurs(f, D, first, step, N)
    BY <1>1, <1>3, <2>2, Recursion
  <2> QED
    BY <2>1, <2>3 DEF Recurs
<1>5. \A n \in 1 .. N : f[n] = Longer(f[n - 1], items, key)
  <2> SUFFICES ASSUME NEW n \in 1 .. N
               PROVE  f[n] = Longer(f[n - 1], items, key)
    OBVIOUS
  <2>1. n - 1 \in 0 .. N
    BY <1>1
  <2>2. f[n - 1] \in D
    BY <2>1
  <2>3. step[f[n - 1]] = Longer(f[n - 1], items, key)
    BY <2>2 DEF step
  <2> QED
    BY <1>4, <2>3
<1>6. \A n \in 0 .. N : f[n] = IF n = 0 THEN {<<>>} ELSE Longer(f[n - 1], items, key)
  <2>1. \A n \in 0 .. N : n = 0 \/ n \in 1 .. N
    BY <1>1
  <2> QED
    BY <1>4, <1>5, <2>1, Zenon
<1>7. f = [n \in 0 .. N |-> IF n = 0 THEN {<<>>} ELSE Longer(f[n - 1], items, key)]
  BY <1>6, Zenon
<1> QED
  BY <1>7, Zenon DEF ChainOfOrders, N

LEMMA OrdersChain ==
    ASSUME NEW items, IsFiniteSet(items), NEW key
    PROVE  \E orders : /\ ChainOfOrders(orders, items, key)
                       /\ InOrder(items, key) = orders[Cardinality(items)]
<1> DEFINE orders == CHOOSE f : ChainOfOrders(f, items, key)
<1>1. ChainOfOrders(orders, items, key)
  BY OrdersExist, Zenon
<1>2. InOrder(items, key) = orders[Cardinality(items)]
  BY Zenon DEF InOrder, ChainOfOrders, Longer
<1> QED
  BY <1>1, <1>2

\* An order of n items: those with the least keys, in the order of their keys.
Ordered(seq, items, key, n) ==
    /\ seq \in Seq(items) /\ Len(seq) = n
    /\ \A i, j \in 1 .. n : seq[i] = seq[j] => i = j
    /\ \A i, j \in 1 .. n : i < j => key[seq[i]] <= key[seq[j]]
    /\ \A i \in 1 .. n : \A item \in items \ ToSet(seq) : key[seq[i]] <= key[item]

LEMMA LeastExists ==
    ASSUME NEW items, items # {}, NEW key, \A item \in items : key[item] \in Nat
    PROVE  Least(items, key) # {}
<1> DEFINE S == {key[item] : item \in items}
<1>1. S \in SUBSET Nat /\ S # {}
  OBVIOUS
<1>2. PICK least \in S : \A x \in S : least <= x
  <2> HIDE DEF S
  <2> QED
    BY <1>1, LeastNumber
<1>3. PICK item \in items : least = key[item]
  OBVIOUS
<1>4. item \in Least(items, key)
  BY <1>2, <1>3 DEF Least
<1> QED
  BY <1>4

LEMMA AppendOrdered ==
    ASSUME NEW items, NEW key, \A item \in items : key[item] \in Nat, NEW n \in Nat, NEW seq,
           Ordered(seq, items, key, n), NEW item \in Least(items \ ToSet(seq), key)
    PROVE  Ordered(Append(seq, item), items, key, n + 1)
<1> DEFINE next == Append(seq, item)
<1>1. /\ seq \in Seq(items) /\ Len(seq) = n
      /\ item \in items \ ToSet(seq)
      /\ \A other \in items \ ToSet(seq) : key[item] <= key[other]
  BY DEF Ordered, Least
<1>2. next \in Seq(items) /\ Len(next) = n + 1 /\ next[n + 1] = item
  BY <1>1
<1>3. \A i \in 1 .. n : next[i] = seq[i] /\ seq[i] \in items /\ seq[i] \in ToSet(seq)
  BY <1>1 DEF ToSet
<1>4. \A i \in 1 .. n + 1 : i \in 1 .. n \/ i = n + 1
  OBVIOUS
<1>5. \A i, j \in 1 .. n + 1 : next[i] = next[j] => i = j
  BY <1>1, <1>2, <1>3, <1>4 DEF Ordered
<1>6. \A i \in 1 .. n : key[seq[i]] <= key[item]
  BY <1>1 DEF Ordered
<1>7. \A i, j \in 1 .. n + 1 : i < j => key[next[i]] <= key[next[j]]
  <2> SUFFICES ASSUME NEW i \in 1 .. n + 1, NEW j \in 1 .. n + 1, i < j
               PROVE  key[next[i]] <= key[next[j]]
    OBVIOUS
  <2>1. i \in 1 .. n /\ (j \in 1 .. n \/ j = n + 1)
    OBVIOUS
  <2> HIDE DEF next
  <2> QED
    BY <1>2, <1>3, <1>6, <2>1 DEF Ordered
<1>8. \A other \in items \ ToSet(next) : other \in items \ ToSet(seq)
  <2> SUFFICES ASSUME NEW other \in ToSet(seq)
               PROVE  other \in ToSet(next)
    OBVIOUS
  <2>1. PICK i \in 1 .. n : other = seq[i]
    BY <1>1 DEF ToSet
  <2>2. other = next[i] /\ i \in 1 .. n + 1
    <3> HIDE DEF next
    <3>1. next[i] = seq[i]
      BY <1>3
    <3> QED
      BY <2>1, <3>1
  <2>3. DOMAIN next = 1 .. n + 1
    BY <1>2
  <2> QED
    BY <2>2, <2>3, Zenon DEF ToSet
<1>9. \A i \in 1 .. n + 1 : \A other \in items \ ToSet(next) : key[next[i]] <= key[other]
  <2> SUFFICES ASSUME NEW i \in 1 .. n + 1, NEW other \in items \ ToSet(next)
               PROVE  key[next[i]] <= key[other]
    OBVIOUS
  <2>1. other \in items \ ToSet(seq)
    BY <1>8
  <2> HIDE DEF next
  <2> QED
    BY <1>1, <1>2, <1>3, <1>4, <2>1 DEF Ordered
<1> HIDE DEF next
<1>10. Ordered(next, items, key, n + 1)
  BY <1>2, <1>5, <1>7, <1>9 DEF Ordered
<1> QED
  BY <1>10 DEF next

LEMMA OrdersOrdered ==
    ASSUME NEW items, IsFiniteSet(items), NEW key, \A item \in items : key[item] \in Nat,
           NEW orders, ChainOfOrders(orders, items, key)
    PROVE  \A n \in 0 .. Cardinality(items) :
              /\ orders[n] # {}
              /\ \A seq \in orders[n] : Ordered(seq, items, key, n)
<1> DEFINE N == Cardinality(items)
           Good == {n \in Nat : n <= N => /\ orders[n] # {}
                                          /\ \A seq \in orders[n] : Ordered(seq, items, key, n)}
<1>1. N \in Nat
  BY FS_CardinalityType
<1>2. orders[0] = {<<>>} /\ \A n \in 1 .. N : orders[n] = Longer(orders[n - 1], items, key)
  <2>1. \A n \in 0 .. N : orders[n] = IF n = 0 THEN {<<>>} ELSE Longer(orders[n - 1], items, key)
    BY Zenon DEF ChainOfOrders
  <2>2. 0 \in 0 .. N /\ \A n \in 1 .. N : n \in 0 .. N /\ n # 0
    BY <1>1
  <2> HIDE DEF N
  <2> QED
    BY <2>1, <2>2, Zenon
<1>3. 0 \in Good
  <2>1. Ordered(<<>>, items, key, 0)
    BY DEF Ordered
  <2> QED
    BY <1>2, <2>1
<1>4. \A n \in Nat : n \in Good => n + 1 \in Good
  <2> SUFFICES ASSUME NEW n \in Nat, n \in Good, n + 1 <= N
               PROVE  /\ orders[n + 1] # {}
                      /\ \A seq \in orders[n + 1] : Ordered(seq, items, key, n + 1)
    OBVIOUS
  <2>1. orders[n] # {} /\ \A seq \in orders[n] : Ordered(seq, items, key, n)
    BY <1>1
  <2>2. n + 1 \in 1 .. N /\ (n + 1) - 1 = n
    BY <1>1
  <2>3. orders[n + 1] = Longer(orders[n], items, key)
    BY <1>2, <2>2
  <2>4. \A seq \in orders[n] : Least(items \ ToSet(seq), key) # {}
    <3> SUFFICES ASSUME NEW seq \in orders[n]
                 PROVE  items \ ToSet(seq) # {}
      <4>1. \A rest : rest \subseteq items => \A item \in rest : key[item] \in Nat
        OBVIOUS
      <4>2. \A seq \in orders[n] : items \ ToSet(seq) \subseteq items
        OBVIOUS
      <4> HIDE DEF N, Good
      <4> QED
        BY <4>1, <4>2, LeastExists
    <3> SUFFICES ASSUME items \subseteq ToSet(seq)
                 PROVE  FALSE
      OBVIOUS
    <3>1. seq \in Seq(items) /\ Len(seq) = n
      BY <2>1 DEF Ordered
    <3>2. seq \in [1 .. n -> items] /\ ToSet(seq) = {seq[i] : i \in 1 .. n}
      BY <3>1 DEF ToSet
    <3>3. \A item \in items : \E i \in 1 .. n : seq[i] = item
      BY <3>2
    <3>4. seq \in Surjection(1 .. n, items)
      BY <3>2, <3>3 DEF Surjection
    <3>5. IsFiniteSet(1 .. n) /\ Cardinality(1 .. n) = n
      BY FS_Interval
    <3>6. Cardinality(items) <= Cardinality(1 .. n)
      BY <3>4, <3>5, FS_Surjection
    <3> QED
      BY <1>1, <3>5, <3>6
  <2>5. orders[n + 1] # {}
    <3>1. PICK seq \in orders[n] : TRUE
      BY <2>1
    <3>2. PICK item \in Least(items \ ToSet(seq), key) : TRUE
      BY <2>4
    <3>3. Append(seq, item) \in {Append(seq, next) : next \in Least(items \ ToSet(seq), key)}
      BY <3>2, Zenon
    <3>4. Append(seq, item) \in Longer(orders[n], items, key)
      BY <3>1, <3>3, Zenon DEF Longer
    <3> QED
      BY <2>3, <3>4, Zenon
  <2>6. ASSUME NEW next \in orders[n + 1]
        PROVE  Ordered(next, items, key, n + 1)
    <3>1. PICK seq \in orders[n] : \E item \in Least(items \ ToSet(seq), key) : next = Append(seq, item)
      BY <2>3 DEF Longer
    <3>2. PICK item \in Least(items \ ToSet(seq), key) : next = Append(seq, item)
      BY <3>1
    <3>3. Ordered(seq, items, key, n)
      BY <2>1
    <3> HIDE DEF N, Good
    <3>4. Ordered(Append(seq, item), items, key, n + 1)
      BY <3>3, AppendOrdered
    <3> QED
      BY <3>2, <3>4
  <2> QED
    BY <2>5, <2>6
<1> HIDE DEF Good
<1>5. Nat \subseteq Good
  BY <1>3, <1>4, AllNumbers
<1> QED
  BY <1>1, <1>5 DEF Good

\* An order of all items.
IsOrder(seq, items, key) ==
    /\ Ordered(seq, items, key, Cardinality(items))
    /\ ToSet(seq) = items

LEMMA InOrderIs ==
    ASSUME NEW items, IsFiniteSet(items), NEW key, \A item \in items : key[item] \in Nat
    PROVE  /\ InOrder(items, key) # {}
           /\ \A seq \in InOrder(items, key) : IsOrder(seq, items, key)
<1> DEFINE N == Cardinality(items)
<1>1. PICK orders : ChainOfOrders(orders, items, key) /\ InOrder(items, key) = orders[N]
  BY OrdersChain
<1>2. N \in Nat /\ N \in 0 .. N
  BY FS_CardinalityType
<1>3. orders[N] # {} /\ \A seq \in orders[N] : Ordered(seq, items, key, N)
  <2> HIDE DEF N
  <2> QED
    BY <1>1, <1>2, OrdersOrdered DEF N
<1>4. ASSUME NEW seq, Ordered(seq, items, key, N)
      PROVE  ToSet(seq) = items
  <2>1. /\ seq \in [1 .. N -> items] /\ ToSet(seq) = {seq[i] : i \in 1 .. N}
        /\ \A i, j \in 1 .. N : seq[i] = seq[j] => i = j
    BY <1>2, <1>4 DEF Ordered, ToSet
  <2>2. seq \in Injection(1 .. N, items)
    BY <2>1 DEF Injection, IsInjective
  <2>3. IsFiniteSet(1 .. N) /\ Cardinality(1 .. N) = N
    BY <1>2, FS_Interval
  <2>4. seq \in Surjection(1 .. N, items)
    BY <2>2, <2>3, FS_Injection
  <2> QED
    BY <2>1, <2>4 DEF Surjection
<1> QED
  BY <1>1, <1>3, <1>4 DEF IsOrder

\* The positions of a subsequence: it takes them all, in their order.
Places(at, positions, seq, only) ==
    LET N == Cardinality(positions)
    IN  /\ N \in Nat /\ at \in [1 .. N -> positions]
        /\ \A i, j \in 1 .. N : i < j => at[i] < at[j]
        /\ \A p \in positions : \E i \in 1 .. N : at[i] = p
        /\ only = [i \in 1 .. N |-> seq[at[i]]]

LEMMA OnlyIs ==
    ASSUME NEW X, NEW seq \in Seq(X), NEW positions \in SUBSET (1 .. Len(seq))
    PROVE  \E at : Places(at, positions, seq, Only(seq, positions))
<1> DEFINE key == [i \in positions |-> i]
           N == Cardinality(positions)
           at == CHOOSE order \in InOrder(positions, key) : TRUE
<1>1. IsFiniteSet(positions) /\ N \in Nat
  <2>1. Len(seq) \in Nat
    OBVIOUS
  <2>2. IsFiniteSet(1 .. Len(seq))
    BY <2>1, FS_Interval
  <2> QED
    BY <2>2, FS_Subset, FS_CardinalityType
<1>2. \A p \in positions : key[p] = p /\ p \in Nat
  OBVIOUS
<1>3. at \in InOrder(positions, key) /\ IsOrder(at, positions, key)
  <2> HIDE DEF key
  <2>1. InOrder(positions, key) # {} /\ \A order \in InOrder(positions, key) : IsOrder(order, positions, key)
    BY <1>1, <1>2, InOrderIs
  <2> QED
    BY <2>1
<1>4. Only(seq, positions) = [i \in DOMAIN at |-> seq[at[i]]]
  BY Zenon DEF Only
<1> HIDE DEF at, key, N
<1>5. /\ at \in [1 .. N -> positions] /\ ToSet(at) = positions
      /\ \A i, j \in 1 .. N : at[i] = at[j] => i = j
      /\ \A i, j \in 1 .. N : i < j => key[at[i]] <= key[at[j]]
  BY <1>1, <1>3 DEF IsOrder, Ordered, N
<1>6. \A i, j \in 1 .. N : i < j => at[i] < at[j]
  <2> SUFFICES ASSUME NEW i \in 1 .. N, NEW j \in 1 .. N, i < j
               PROVE  at[i] < at[j]
    OBVIOUS
  <2>1. at[i] \in positions /\ at[j] \in positions
    BY <1>5
  <2>2. key[at[i]] = at[i] /\ key[at[j]] = at[j] /\ at[i] \in Nat /\ at[j] \in Nat
    BY <1>2, <2>1
  <2>3. key[at[i]] <= key[at[j]]
    BY <1>5
  <2>4. at[i] # at[j]
    <3>1. i # j
      BY <1>1
    <3> QED
      BY <1>5, <3>1
  <2> QED
    BY <2>2, <2>3, <2>4
<1>7. \A p \in positions : \E i \in 1 .. N : at[i] = p
  BY <1>5 DEF ToSet
<1>8. Only(seq, positions) = [i \in 1 .. N |-> seq[at[i]]]
  BY <1>4, <1>5
<1>9. Places(at, positions, seq, Only(seq, positions))
  BY <1>1, <1>5, <1>6, <1>7, <1>8, Zenon DEF Places, N
<1> QED
  BY <1>9

-----------------------------------------------------------------------------
(* Times.                                                                    *)

LEMMA Quotient ==
    ASSUME NEW a \in Nat, NEW b \in Nat \ {0}
    PROVE  /\ a \div b \in Nat
           /\ (a \div b) * b <= a /\ a < (a \div b) * b + b
<1>1. a = b * (a \div b) + (a % b) /\ a % b \in 0 .. b - 1 /\ a \div b \in Int
  BY SMT
<1> DEFINE q == a \div b
           r == a % b
<1>2. q \in Int /\ r \in 0 .. b - 1 /\ a = b * q + r
  BY <1>1
<1> HIDE DEF q, r
<1>3. b * q = q * b
  BY <1>2
<1>4. q >= 0
  <2> SUFFICES ASSUME q <= -1
               PROVE  FALSE
    BY <1>2
  <2>1. b * q <= -b
    BY <1>2
  <2> QED
    BY <1>2, <2>1
<1>5. q * b <= a /\ a < q * b + b
  BY <1>2, <1>3
<1> QED
  BY <1>2, <1>4, <1>5 DEF q

-----------------------------------------------------------------------------
(* Rows.                                                                     *)

Spans == UNION Batches

\* The rows that may ever be stored.
AnyRow == {RowOf(span, copy) : span \in Spans, copy \in Nat}

LEMMA SpanIs ==
    ASSUME NEW span \in Spans
    PROVE  /\ span \in Span /\ span.id \in Ids /\ span.id # Nothing
           /\ SpanWith(span.id) = span
           /\ span.start \in Nat /\ span.end \in Nat
<1>1. span \in Span /\ span.id \in Ids /\ span.id # Nothing
  BY TraceAssumption DEF Spans, Ids
<1>2. SpanWith(span.id) \in Spans /\ SpanWith(span.id).id = span.id
  BY Zenon DEF SpanWith, Spans
<1>3. SpanWith(span.id) = span
  BY <1>2, TraceAssumption DEF Spans
<1> QED
  BY <1>1, <1>3 DEF Span

\* A row tells what its span is.
TellsOf(row) ==
    /\ row.span \in Spans /\ row.copy \in Nat
    /\ row.tenant = row.span.tenant /\ row.trace = row.span.trace
    /\ row.id = row.span.id /\ row.parent = row.span.parent
    /\ row.service = row.span.service /\ row.failed = row.span.failed
    /\ row.timestamp = row.span.start \div Milli
    /\ row.duration = row.span.end - row.span.start
    /\ row = RowOf(row.span, row.copy)

LEMMA RowIs ==
    ASSUME NEW row \in AnyRow
    PROVE  /\ TellsOf(row)
           /\ row.span = SpanWith(row.id)
           /\ row.id \in Ids /\ row.id # Nothing /\ row.trace \in Traces
           /\ row.parent \in Ids \cup {Nothing}
           /\ row.timestamp \in Nat /\ row.duration \in Int
<1>1. PICK span \in Spans, copy \in Nat : row = RowOf(span, copy)
  BY DEF AnyRow
<1>2. TellsOf(row)
  BY <1>1 DEF RowOf, TellsOf
<1>3. row.span = span /\ row.id = span.id
  BY <1>1 DEF RowOf
<1>4. /\ span \in Span /\ span.id \in Ids /\ span.id # Nothing /\ SpanWith(span.id) = span
      /\ span.start \in Nat /\ span.end \in Nat
  BY SpanIs
<1>5. row.timestamp = span.start \div Milli /\ row.duration = span.end - span.start
  BY <1>1 DEF RowOf
<1>6. row.timestamp \in Nat /\ row.duration \in Int
  BY <1>4, <1>5, Quotient, TraceAssumption
<1>7. span.trace \in Traces /\ span.parent \in Ids \cup {Nothing}
  BY <1>4 DEF Span
<1> QED
  BY <1>2, <1>3, <1>4, <1>6, <1>7 DEF TellsOf

\* The rows of the exports that were stored as often as s says.
RowsStored(s) == UNION {{RowOf(span, copy) : span \in batch, copy \in 1 .. s[batch]} : batch \in Batches}

LEMMA RowStored ==
    ASSUME NEW s, NEW row
    PROVE  row \in RowsStored(s) <=>
               \E batch \in Batches : \E span \in batch : \E copy \in 1 .. s[batch] : row = RowOf(span, copy)
  BY DEF RowsStored

LEMMA RowsAreStored == Rows = RowsStored(stored)
  BY DEF Rows, RowsStored

Counted(s) == s \in [Batches -> Nat] /\ IsFiniteSet(RowsStored(s)) /\ \E n \in Nat : \A batch \in Batches : s[batch] <= n

LEMMA CountedRows ==
    ASSUME NEW s, Counted(s)
    PROVE  RowsStored(s) \subseteq AnyRow
<1> SUFFICES ASSUME NEW row \in RowsStored(s)
             PROVE  row \in AnyRow
  OBVIOUS
<1>1. PICK batch \in Batches : \E span \in batch : \E copy \in 1 .. s[batch] : row = RowOf(span, copy)
  BY RowStored
<1>2. PICK span \in batch, copy \in 1 .. s[batch] : row = RowOf(span, copy)
  BY <1>1
<1>3. span \in Spans
  BY DEF Spans
<1>4. copy \in Nat
  BY DEF Counted
<1> QED
  BY <1>2, <1>3, <1>4 DEF AnyRow

\* One more copy of an export.
LEMMA OneMore ==
    ASSUME NEW s, Counted(s), NEW batch \in Batches,
           NEW t \in [Batches -> Nat], t[batch] = s[batch] + 1,
           \A b \in Batches \ {batch} : t[b] = s[b]
    PROVE  Counted(t) /\ RowsStored(s) \subseteq RowsStored(t)
<1>1. s \in [Batches -> Nat]
  BY DEF Counted
<1> DEFINE new == {RowOf(span, t[batch]) : span \in batch}
<1>2. RowsStored(t) \subseteq RowsStored(s) \cup new
  <2> SUFFICES ASSUME NEW row \in RowsStored(t), row \notin new
               PROVE  row \in RowsStored(s)
    OBVIOUS
  <2>1. PICK b \in Batches : \E span \in b : \E copy \in 1 .. t[b] : row = RowOf(span, copy)
    BY RowStored
  <2>2. PICK span \in b, copy \in 1 .. t[b] : row = RowOf(span, copy)
    BY <2>1
  <2>3. copy \in 1 .. s[b]
    <3>1. CASE b # batch
      BY <1>1, <3>1
    <3>2. CASE b = batch
      <4>1. copy # t[batch]
        BY <2>2, <3>2
      <4> QED
        BY <1>1, <3>2, <4>1
    <3> QED
      BY <3>1, <3>2
  <2> HIDE DEF new
  <2> QED
    BY <2>2, <2>3, RowStored
<1>3. RowsStored(s) \subseteq RowsStored(t)
  <2> SUFFICES ASSUME NEW row \in RowsStored(s)
               PROVE  row \in RowsStored(t)
    OBVIOUS
  <2>1. PICK b \in Batches : \E span \in b : \E copy \in 1 .. s[b] : row = RowOf(span, copy)
    BY RowStored
  <2>2. PICK span \in b, copy \in 1 .. s[b] : row = RowOf(span, copy)
    BY <2>1
  <2>3. copy \in 1 .. t[b]
    BY <1>1
  <2> QED
    BY <2>2, <2>3, RowStored
<1>4. IsFiniteSet(RowsStored(t))
  <2>1. IsFiniteSet(batch)
    BY TraceAssumption
  <2>2. IsFiniteSet(new)
    <3> DEFINE f == [span \in batch |-> RowOf(span, t[batch])]
    <3>1. f \in Surjection(batch, new)
      BY DEF Surjection
    <3> HIDE DEF f, new
    <3> QED
      BY <2>1, <3>1, FS_Surjection
  <2>3. IsFiniteSet(RowsStored(s) \cup new)
    <3> HIDE DEF new
    <3> QED
      BY <2>2, FS_Union DEF Counted
  <2> HIDE DEF new
  <2> QED
    BY <1>2, <2>3, FS_Subset
<1>5. \E n \in Nat : \A b \in Batches : t[b] <= n
  <2>1. PICK n \in Nat : \A b \in Batches : s[b] <= n
    BY DEF Counted
  <2>2. \A b \in Batches : t[b] <= n + 1
    BY <1>1, <2>1
  <2> QED
    BY <2>2
<1> QED
  BY <1>1, <1>3, <1>4, <1>5 DEF Counted

-----------------------------------------------------------------------------
(* The lists of a trace.                                                     *)

Named(seq, name) == {i \in DOMAIN seq : ServiceName(seq[i]) = name}

\* A list has the spans of one service, each from a place of its own.
ListOf(list, seq, name, at) ==
    LET N == Cardinality(Named(seq, name))
    IN  /\ N \in Nat /\ at \in [1 .. N -> Named(seq, name)]
        /\ \A i, j \in 1 .. N : at[i] = at[j] => i = j
        /\ \A p \in Named(seq, name) : \E i \in 1 .. N : at[i] = p
        /\ list = [i \in 1 .. N |-> TraceSpan(seq[at[i]])]

LEMMA BatchIs ==
    ASSUME NEW X, NEW seq \in Seq(X)
    PROVE  /\ DOMAIN BatchesOf(seq) = {ServiceName(seq[i]) : i \in DOMAIN seq}
           /\ \A name \in DOMAIN BatchesOf(seq) : \E at : ListOf(BatchesOf(seq)[name], seq, name, at)
<1>1. DOMAIN BatchesOf(seq) = {ServiceName(seq[i]) : i \in DOMAIN seq}
  BY Zenon DEF BatchesOf
<1>2. ASSUME NEW name \in DOMAIN BatchesOf(seq)
      PROVE  \E at : ListOf(BatchesOf(seq)[name], seq, name, at)
  <2> DEFINE N == Cardinality(Named(seq, name))
  <2>1. Named(seq, name) \in SUBSET (1 .. Len(seq))
    BY DEF Named
  <2>0. PICK at : Places(at, Named(seq, name), seq, Only(seq, Named(seq, name)))
    BY <2>1, OnlyIs
  <2>2. /\ N \in Nat /\ at \in [1 .. N -> Named(seq, name)]
        /\ \A i, j \in 1 .. N : i < j => at[i] < at[j]
        /\ \A p \in Named(seq, name) : \E i \in 1 .. N : at[i] = p
        /\ Only(seq, Named(seq, name)) = [i \in 1 .. N |-> seq[at[i]]]
    BY <2>0, Zenon DEF Places
  <2>3. BatchesOf(seq)[name] = [i \in DOMAIN Only(seq, Named(seq, name)) |->
                                    TraceSpan(Only(seq, Named(seq, name))[i])]
    BY <1>1, <1>2, Zenon DEF BatchesOf, Named
  <2> DEFINE only == Only(seq, Named(seq, name))
  <2>4. DOMAIN only = 1 .. N /\ \A i \in 1 .. N : only[i] = seq[at[i]]
    BY <2>2, Zenon
  <2> HIDE DEF only
  <2>5. BatchesOf(seq)[name] = [i \in DOMAIN only |-> TraceSpan(only[i])]
    BY <2>3 DEF only
  <2>6. BatchesOf(seq)[name] = [i \in 1 .. N |-> TraceSpan(seq[at[i]])]
    BY <2>4, <2>5, Zenon
  <2>7. \A i, j \in 1 .. N : at[i] = at[j] => i = j
    <3> SUFFICES ASSUME NEW i \in 1 .. N, NEW j \in 1 .. N, at[i] = at[j]
                 PROVE  i = j
      OBVIOUS
    <3>1. at[i] \in Nat /\ at[j] \in Nat
      BY <2>1, <2>2
    <3>2. i < j => at[i] < at[j]
      BY <2>2
    <3>3. j < i => at[j] < at[i]
      BY <2>2
    <3> QED
      BY <2>2, <3>1, <3>2, <3>3
  <2> HIDE DEF N
  <2>8. N \in Nat /\ \A p \in Named(seq, name) : \E i \in 1 .. N : at[i] = p
    BY <2>2
  <2>9. ListOf(BatchesOf(seq)[name], seq, name, at)
    BY <2>2, <2>6, <2>7, <2>8, Zenon DEF ListOf, N
  <2> QED
    BY <2>9
<1> QED
  BY <1>1, <1>2

ListedIn(batches) == UNION {ToSet(batches[name]) : name \in DOMAIN batches}

LEMMA ListedRows ==
    ASSUME NEW X, NEW seq \in Seq(X)
    PROVE  ListedIn(BatchesOf(seq)) = {TraceSpan(seq[i]) : i \in DOMAIN seq}
<1>1. /\ DOMAIN BatchesOf(seq) = {ServiceName(seq[i]) : i \in DOMAIN seq}
      /\ \A name \in DOMAIN BatchesOf(seq) : \E at : ListOf(BatchesOf(seq)[name], seq, name, at)
  BY BatchIs
<1>2. ASSUME NEW shown \in ListedIn(BatchesOf(seq))
      PROVE  \E i \in DOMAIN seq : shown = TraceSpan(seq[i])
  <2>1. PICK name \in DOMAIN BatchesOf(seq) : shown \in ToSet(BatchesOf(seq)[name])
    BY <1>2 DEF ListedIn
  <2>2. PICK list : list = BatchesOf(seq)[name]
    OBVIOUS
  <2>3. PICK at : ListOf(list, seq, name, at)
    BY <1>1, <2>2
  <2>4. PICK i \in DOMAIN list : shown = list[i]
    BY <2>1, <2>2 DEF ToSet
  <2>5. shown = TraceSpan(seq[at[i]]) /\ at[i] \in Named(seq, name)
    BY <2>3, <2>4 DEF ListOf
  <2> QED
    BY <2>5 DEF Named
<1>3. ASSUME NEW i \in DOMAIN seq
      PROVE  TraceSpan(seq[i]) \in ListedIn(BatchesOf(seq))
  <2>1. PICK name : name = ServiceName(seq[i])
    OBVIOUS
  <2>2. name \in DOMAIN BatchesOf(seq) /\ i \in Named(seq, name)
    BY <1>1, <2>1 DEF Named
  <2>3. PICK list : list = BatchesOf(seq)[name]
    OBVIOUS
  <2>4. PICK at : ListOf(list, seq, name, at)
    BY <1>1, <2>2, <2>3
  <2>5. PICK j \in DOMAIN list : at[j] = i /\ list[j] = TraceSpan(seq[i])
    BY <2>2, <2>4 DEF ListOf
  <2>6. TraceSpan(seq[i]) \in ToSet(list)
    BY <2>5, Zenon DEF ToSet
  <2> QED
    BY <2>2, <2>3, <2>6 DEF ListedIn
<1> QED
  BY <1>2, <1>3

-----------------------------------------------------------------------------
(* The walk of the outline.                                                  *)

Offspring(seq, id) == {i \in 1 .. Len(seq) : seq[i].parent = id}

\* The calls that a span leads to: one per row, in the order of the rows.
CallsOf(calls, seq, id, at) ==
    LET N == Cardinality(Offspring(seq, id))
    IN  /\ N \in Nat /\ at \in [1 .. N -> Offspring(seq, id)]
        /\ \A i, j \in 1 .. N : i < j => at[i] < at[j]
        /\ \A p \in Offspring(seq, id) : \E i \in 1 .. N : at[i] = p
        /\ calls = [i \in 1 .. N |-> seq[at[i]].id]

LEMMA ChildrenAre ==
    ASSUME NEW X, NEW seq \in Seq(X), NEW id
    PROVE  \E at : CallsOf(Children(seq, id), seq, id, at)
<1> DEFINE N == Cardinality(Offspring(seq, id))
<1>1. Offspring(seq, id) \in SUBSET (1 .. Len(seq))
  BY DEF Offspring
<1>0. PICK at : Places(at, Offspring(seq, id), seq, Only(seq, Offspring(seq, id)))
  BY <1>1, OnlyIs
<1>2. /\ N \in Nat /\ at \in [1 .. N -> Offspring(seq, id)]
      /\ \A i, j \in 1 .. N : i < j => at[i] < at[j]
      /\ \A p \in Offspring(seq, id) : \E i \in 1 .. N : at[i] = p
      /\ Only(seq, Offspring(seq, id)) = [i \in 1 .. N |-> seq[at[i]]]
  BY <1>0, Zenon DEF Places
<1> DEFINE only == Only(seq, Offspring(seq, id))
<1>3. Children(seq, id) = [i \in DOMAIN only |-> only[i].id]
  <2>1. DOMAIN seq = 1 .. Len(seq)
    OBVIOUS
  <2>2. Offspring(seq, id) = {i \in DOMAIN seq : seq[i].parent = id}
    BY <2>1, Zenon DEF Offspring
  <2> QED
    BY <2>2, Zenon DEF Children
<1>4. DOMAIN only = 1 .. N /\ \A i \in 1 .. N : only[i] = seq[at[i]]
  BY <1>2, Zenon
<1> HIDE DEF only, N
<1>5. Children(seq, id) = [i \in 1 .. N |-> seq[at[i]].id]
  BY <1>3, <1>4, Zenon
<1>6. N \in Nat /\ \A p \in Offspring(seq, id) : \E i \in 1 .. N : at[i] = p
  BY <1>2
<1>7. \A i, j \in 1 .. N : i < j => at[i] < at[j]
  BY <1>2
<1>8. CallsOf(Children(seq, id), seq, id, at)
  BY <1>2, <1>5, <1>6, <1>7, Zenon DEF CallsOf, N
<1> QED
  BY <1>8

LEMMA ChildrenTyped ==
    ASSUME NEW seq \in Seq(AnyRow), NEW id
    PROVE  /\ Children(seq, id) \in Seq(Ids)
           /\ Len(Children(seq, id)) = Cardinality(Offspring(seq, id))
<1>1. PICK calls : calls = Children(seq, id)
  OBVIOUS
<1>2. PICK at : CallsOf(calls, seq, id, at)
  BY <1>1, ChildrenAre
<1> DEFINE N == Cardinality(Offspring(seq, id))
<1>3. N \in Nat /\ at \in [1 .. N -> Offspring(seq, id)] /\ calls = [i \in 1 .. N |-> seq[at[i]].id]
  BY <1>2 DEF CallsOf
<1>4. \A i \in Offspring(seq, id) : seq[i] \in AnyRow
  BY DEF Offspring
<1>5. \A i \in Offspring(seq, id) : seq[i].id \in Ids
  BY <1>4, RowIs
<1>6. calls \in [1 .. N -> Ids]
  BY <1>3, <1>5
<1> QED
  BY <1>1, <1>3, <1>6

Walks == [visited : Seq(Ids), calls : Seq(Ids)]

FirstCalls(seq) == [visited |-> <<>>, calls |-> Children(seq, Nothing)]

NextCall(seq, before) ==
    LET id == Head(before.calls)
    IN  IF before.calls = <<>> THEN before
        ELSE IF id \in ToSet(before.visited)
        THEN [before EXCEPT !.calls = Tail(@)]
        ELSE [visited |-> Append(before.visited, id),
              calls   |-> Children(seq, id) \o Tail(before.calls)]

LEMMA NextCallTyped ==
    ASSUME NEW seq \in Seq(AnyRow), NEW before \in Walks
    PROVE  NextCall(seq, before) \in Walks
<1>1. CASE before.calls = <<>>
  BY <1>1, Zenon DEF NextCall
<1>2. CASE before.calls # <<>>
  <2> DEFINE id == Head(before.calls)
  <2>1. id \in Ids /\ Tail(before.calls) \in Seq(Ids) /\ before.visited \in Seq(Ids)
    BY <1>2 DEF Walks
  <2>2. Children(seq, id) \in Seq(Ids)
    BY ChildrenTyped
  <2>3. Append(before.visited, id) \in Seq(Ids) /\ Children(seq, id) \o Tail(before.calls) \in Seq(Ids)
    BY <2>1, <2>2
  <2>4. CASE id \in ToSet(before.visited)
    <3>1. NextCall(seq, before) = [before EXCEPT !.calls = Tail(@)]
      BY <1>2, <2>4, Zenon DEF NextCall
    <3> QED
      BY <2>1, <3>1 DEF Walks
  <2>5. CASE id \notin ToSet(before.visited)
    <3>1. NextCall(seq, before) = [visited |-> Append(before.visited, id),
                                   calls   |-> Children(seq, id) \o Tail(before.calls)]
      BY <1>2, <2>5, Zenon DEF NextCall
    <3> QED
      BY <2>3, <3>1 DEF Walks
  <2> QED
    BY <2>4, <2>5
<1> QED
  BY <1>1, <1>2

ChainOfCalls(walk, seq) ==
    walk = [n \in 0 .. Len(seq) |-> IF n = 0 THEN FirstCalls(seq) ELSE NextCall(seq, walk[n - 1])]

LEMMA WalkExists ==
    ASSUME NEW seq \in Seq(AnyRow)
    PROVE  \E walk : ChainOfCalls(walk, seq)
<1> DEFINE N == Len(seq)
           step == [before \in Walks |-> NextCall(seq, before)]
<1>1. N \in Nat
  OBVIOUS
<1>2. PICK first : first = FirstCalls(seq)
  OBVIOUS
<1>3. first \in Walks
  <2>1. Children(seq, Nothing) \in Seq(Ids)
    BY ChildrenTyped
  <2> QED
    BY <1>2, <2>1 DEF FirstCalls, Walks
<1>4. step \in [Walks -> Walks]
  BY NextCallTyped
<1> HIDE DEF step, N
<1>5. PICK f : Recurs(f, Walks, first, step, N)
  BY <1>1, <1>3, <1>4, Recursion
<1>6. \A n \in 1 .. N : f[n] = NextCall(seq, f[n - 1])
  <2> SUFFICES ASSUME NEW n \in 1 .. N
               PROVE  f[n] = NextCall(seq, f[n - 1])
    OBVIOUS
  <2>1. n - 1 \in 0 .. N
    BY <1>1
  <2>2. f[n - 1] \in Walks
    BY <1>5, <2>1 DEF Recurs
  <2>3. step[f[n - 1]] = NextCall(seq, f[n - 1])
    BY <2>2 DEF step
  <2> QED
    BY <1>5, <2>3 DEF Recurs
<1>7. \A n \in 0 .. N : f[n] = IF n = 0 THEN first ELSE NextCall(seq, f[n - 1])
  <2>1. \A n \in 0 .. N : n = 0 \/ n \in 1 .. N
    BY <1>1
  <2>2. f[0] = first
    BY <1>5 DEF Recurs
  <2> QED
    BY <1>6, <2>1, <2>2, Zenon
<1>8. f \in [0 .. N -> Walks]
  BY <1>5 DEF Recurs
<1>9. f = [n \in 0 .. N |-> IF n = 0 THEN FirstCalls(seq) ELSE NextCall(seq, f[n - 1])]
  BY <1>2, <1>7, <1>8, Zenon
<1> QED
  BY <1>9, Zenon DEF ChainOfCalls, N

\* The walk, step by step.
IsWalk(walk, seq) ==
    /\ \A n \in 0 .. Len(seq) : walk[n] \in Walks
    /\ walk[0] = FirstCalls(seq)
    /\ \A n \in 1 .. Len(seq) : walk[n] = NextCall(seq, walk[n - 1])

LEMMA WalkIs ==
    ASSUME NEW seq \in Seq(AnyRow)
    PROVE  \E walk : IsWalk(walk, seq) /\ Visited(seq) = walk[Len(seq)].visited
<1> DEFINE N == Len(seq)
           walk == CHOOSE w : ChainOfCalls(w, seq)
<1>1. N \in Nat
  OBVIOUS
<1>2. ChainOfCalls(walk, seq)
  BY WalkExists, Zenon
<1>3. Visited(seq) = walk[N].visited
  BY Zenon DEF Visited, ChainOfCalls, FirstCalls, NextCall
<1> HIDE DEF walk, N
<1>4. \A n \in 0 .. N : walk[n] = IF n = 0 THEN FirstCalls(seq) ELSE NextCall(seq, walk[n - 1])
  BY <1>2, Zenon DEF ChainOfCalls, N
<1>5. walk[0] = FirstCalls(seq) /\ \A n \in 1 .. N : walk[n] = NextCall(seq, walk[n - 1])
  <2>1. 0 \in 0 .. N /\ \A n \in 1 .. N : n \in 0 .. N /\ n # 0
    BY <1>1
  <2> QED
    BY <1>4, <2>1, Zenon
<1> DEFINE Good == {n \in Nat : n <= N => walk[n] \in Walks}
<1>6. 0 \in Good
  <2>1. Children(seq, Nothing) \in Seq(Ids)
    BY ChildrenTyped
  <2>2. FirstCalls(seq) \in Walks
    BY <2>1 DEF FirstCalls, Walks
  <2> QED
    BY <1>5, <2>2
<1>7. \A n \in Nat : n \in Good => n + 1 \in Good
  <2> SUFFICES ASSUME NEW n \in Nat, n \in Good, n + 1 <= N
               PROVE  walk[n + 1] \in Walks
    OBVIOUS
  <2>1. n + 1 \in 1 .. N /\ (n + 1) - 1 = n /\ walk[n] \in Walks
    BY <1>1
  <2>2. walk[n + 1] = NextCall(seq, walk[n])
    BY <1>5, <2>1
  <2> QED
    BY <2>1, <2>2, NextCallTyped
<1> HIDE DEF Good
<1>8. Nat \subseteq Good
  BY <1>6, <1>7, AllNumbers
<1>9. \A n \in 0 .. N : walk[n] \in Walks
  BY <1>1, <1>8 DEF Good
<1>10. IsWalk(walk, seq)
  BY <1>5, <1>9, Zenon DEF IsWalk, N
<1> QED
  BY <1>3, <1>10 DEF N

LEMMA Joined ==
    ASSUME NEW S, NEW s \in Seq(S), NEW t \in Seq(S)
    PROVE  /\ Len(s \o t) = Len(s) + Len(t)
           /\ \A m \in 1 .. Len(s) : (s \o t)[m] = s[m]
           /\ \A m \in Len(s) + 1 .. Len(s) + Len(t) : (s \o t)[m] = t[m - Len(s)]
  OBVIOUS

Among(x, seq) == \E i \in 1 .. Len(seq) : seq[i] = x

LEMMA AmongIs ==
    ASSUME NEW S, NEW seq \in Seq(S)
    PROVE  \A x : Among(x, seq) <=> x \in ToSet(seq)
  BY DEF Among, ToSet

\* A call of a span that was visited before.
Drops(before, after) ==
    /\ Len(before.calls) > 0
    /\ Among(before.calls[1], before.visited)
    /\ after.visited = before.visited
    /\ Len(after.calls) = Len(before.calls) - 1
    /\ \A m \in 1 .. Len(after.calls) : after.calls[m] = before.calls[m + 1]

\* A call of a span that is visited now, and calls its children first.
Visits(seq, before, after, at) ==
    LET called == before.calls[1]
        L == Cardinality(Offspring(seq, called))
        V == Len(before.visited)
    IN  /\ Len(before.calls) > 0
        /\ ~Among(called, before.visited)
        /\ Len(after.visited) = V + 1 /\ after.visited[V + 1] = called
        /\ \A i \in 1 .. V : after.visited[i] = before.visited[i]
        /\ L \in Nat /\ at \in [1 .. L -> Offspring(seq, called)]
        /\ \A i, j \in 1 .. L : i < j => at[i] < at[j]
        /\ \A p \in Offspring(seq, called) : \E i \in 1 .. L : at[i] = p
        /\ Len(after.calls) = L + Len(before.calls) - 1
        /\ \A m \in 1 .. L : after.calls[m] = seq[at[m]].id
        /\ \A m \in L + 1 .. Len(after.calls) : after.calls[m] = before.calls[m - L + 1]

LEMMA NextCallIs ==
    ASSUME NEW seq \in Seq(AnyRow), NEW before \in Walks, NEW after, after = NextCall(seq, before)
    PROVE  \/ Len(before.calls) = 0 /\ after = before
           \/ Drops(before, after)
           \/ \E at : Visits(seq, before, after, at)
<1>1. before.visited \in Seq(Ids) /\ before.calls \in Seq(Ids)
  BY DEF Walks
<1>2. CASE before.calls = <<>>
  <2>1. Len(before.calls) = 0
    BY <1>2
  <2> QED
    BY <1>2, <2>1, Zenon DEF NextCall
<1>3. CASE before.calls # <<>>
  <2>1. Len(before.calls) > 0
    BY <1>1, <1>3
  <2>2. PICK called : called = Head(before.calls)
    OBVIOUS
  <2>3. PICK rest : rest = Tail(before.calls)
    OBVIOUS
  <2>4. /\ called = before.calls[1] /\ rest \in Seq(Ids) /\ Len(rest) = Len(before.calls) - 1
        /\ \A m \in 1 .. Len(rest) : rest[m] = before.calls[m + 1]
    BY <1>1, <1>3, <2>2, <2>3
  <2>5. CASE called \in ToSet(before.visited)
    <3>1. after = [before EXCEPT !.calls = rest]
      BY <1>3, <2>2, <2>3, <2>5, Zenon DEF NextCall
    <3>2. after.visited = before.visited /\ after.calls = rest
      BY <3>1 DEF Walks
    <3>3. Among(called, before.visited)
      BY <1>1, <2>5, AmongIs
    <3>4. Drops(before, after)
      BY <2>1, <2>4, <3>2, <3>3 DEF Drops
    <3> QED
      BY <3>4
  <2>6. CASE called \notin ToSet(before.visited)
    <3>1. PICK new : new = Children(seq, called)
      OBVIOUS
    <3>2. after = [visited |-> Append(before.visited, called), calls |-> new \o rest]
      BY <1>3, <2>2, <2>3, <2>6, <3>1, Zenon DEF NextCall
    <3>3. after.visited = Append(before.visited, called) /\ after.calls = new \o rest
      BY <3>2
    <3>4. PICK at : CallsOf(new, seq, called, at)
      BY <3>1, ChildrenAre
    <3> DEFINE L == Cardinality(Offspring(seq, called))
    <3>5. /\ L \in Nat /\ at \in [1 .. L -> Offspring(seq, called)]
          /\ \A i, j \in 1 .. L : i < j => at[i] < at[j]
          /\ \A p \in Offspring(seq, called) : \E i \in 1 .. L : at[i] = p
          /\ new = [i \in 1 .. L |-> seq[at[i]].id]
      BY <3>4, Zenon DEF CallsOf
    <3>6. new \in Seq(Ids)
      BY <3>1, ChildrenTyped
    <3> HIDE DEF L
    <3>7. Len(new) = L /\ \A m \in 1 .. L : new[m] = seq[at[m]].id
      BY <3>5, <3>6
    <3>8. /\ Len(after.calls) = L + Len(rest)
          /\ \A m \in 1 .. L : after.calls[m] = new[m]
          /\ \A m \in L + 1 .. L + Len(rest) : after.calls[m] = rest[m - L]
      <4>1. Len(new) = L
        BY <3>7
      <4>2. rest \in Seq(Ids)
        BY <2>4
      <4>3. PICK both : both = new \o rest
        OBVIOUS
      <4>4. Len(both) = Len(new) + Len(rest)
        BY <3>6, <4>2, <4>3, Joined
      <4>5. \A m \in 1 .. Len(new) : both[m] = new[m]
        BY <3>6, <4>2, <4>3, Joined
      <4>6. \A m \in Len(new) + 1 .. Len(new) + Len(rest) : both[m] = rest[m - Len(new)]
        BY <3>6, <4>2, <4>3, Joined
      <4>7. after.calls = both
        BY <3>3, <4>3
      <4> QED
        BY <4>1, <4>4, <4>5, <4>6, <4>7, Zenon
    <3>9. \A m \in L + 1 .. Len(after.calls) : after.calls[m] = before.calls[m - L + 1]
      <4> SUFFICES ASSUME NEW m \in L + 1 .. Len(after.calls)
                   PROVE  after.calls[m] = before.calls[m - L + 1]
        OBVIOUS
      <4>1. Len(rest) \in Nat
        BY <2>4
      <4>2. m - L \in 1 .. Len(rest) /\ m \in L + 1 .. L + Len(rest)
        BY <3>5, <3>8, <4>1
      <4> QED
        BY <2>4, <3>8, <4>2
    <3>10. /\ Len(after.visited) = Len(before.visited) + 1
           /\ after.visited[Len(before.visited) + 1] = called
           /\ \A i \in 1 .. Len(before.visited) : after.visited[i] = before.visited[i]
      <4>1. called \in Ids
        BY <1>1, <1>3, <2>2
      <4> QED
        BY <1>1, <3>3, <4>1
    <3>11. Len(after.calls) = L + Len(before.calls) - 1
      <4>1. Len(before.calls) \in Nat
        BY <1>1
      <4> QED
        BY <2>4, <3>5, <3>8, <4>1
    <3>12. \A m \in 1 .. L : after.calls[m] = seq[at[m]].id
      BY <3>7, <3>8
    <3>13. ~Among(called, before.visited)
      BY <1>1, <2>6, AmongIs
    <3>14. Visits(seq, before, after, at)
      BY <2>1, <2>4, <3>13, <3>5, <3>9, <3>10, <3>11, <3>12, Zenon DEF Visits, L
    <3> QED
      BY <3>14
  <2> QED
    BY <2>5, <2>6
<1> QED
  BY <1>2, <1>3

-----------------------------------------------------------------------------
(* The walk reaches what a root leads to.                                    *)

IdsIn(seq) == {seq[i].id : i \in 1 .. Len(seq)}

ParentOf(id) == SpanWith(id).parent

LEMMA RootedLeast ==
    ASSUME NEW ids, NEW tree \in SUBSET ids,
           \A child \in ids : ParentOf(child) \in tree \cup {Nothing} => child \in tree
    PROVE  Rooted(ids) \subseteq tree
  BY Zenon DEF Rooted, ParentOf

LEMMA RootedIn ==
    ASSUME NEW ids
    PROVE  Rooted(ids) \subseteq ids
  BY DEF Rooted

LEMMA RootedDown ==
    ASSUME NEW ids, NEW id \in ids, ParentOf(id) \in Rooted(ids) \cup {Nothing}
    PROVE  id \in Rooted(ids)
<1> SUFFICES ASSUME NEW tree \in SUBSET ids,
                    \A child \in ids : ParentOf(child) \in tree \cup {Nothing} => child \in tree
             PROVE  id \in tree
  BY Zenon DEF Rooted, ParentOf
<1>1. Rooted(ids) \subseteq tree
  BY RootedLeast
<1> QED
  BY <1>1

LEMMA RootedUp ==
    ASSUME NEW ids, NEW id \in Rooted(ids)
    PROVE  ParentOf(id) \in Rooted(ids) \cup {Nothing}
<1> DEFINE tree == {x \in Rooted(ids) : ParentOf(x) \in Rooted(ids) \cup {Nothing}}
<1>1. tree \in SUBSET ids
  BY RootedIn
<1>2. \A child \in ids : ParentOf(child) \in tree \cup {Nothing} => child \in tree
  <2> SUFFICES ASSUME NEW child \in ids, ParentOf(child) \in tree \cup {Nothing}
               PROVE  child \in tree
    OBVIOUS
  <2>1. ParentOf(child) \in Rooted(ids) \cup {Nothing}
    OBVIOUS
  <2>2. child \in Rooted(ids)
    BY <2>1, RootedDown
  <2> QED
    BY <2>1, <2>2
<1> HIDE DEF tree
<1>3. Rooted(ids) \subseteq tree
  BY <1>1, <1>2, RootedLeast
<1> QED
  BY <1>3 DEF tree

\* What is visited and called is rooted; the parents come first, and no child
\* of what was visited is missed.
Reached(seq, walk) ==
    /\ \A i \in 1 .. Len(walk.visited) : walk.visited[i] \in Rooted(IdsIn(seq))
    /\ \A m \in 1 .. Len(walk.calls) : walk.calls[m] \in Rooted(IdsIn(seq))
    /\ \A i, j \in 1 .. Len(walk.visited) : walk.visited[i] = walk.visited[j] => i = j
    /\ \A p \in 1 .. Len(seq) :
          seq[p].parent = Nothing \/ Among(seq[p].parent, walk.visited) =>
              Among(seq[p].id, walk.visited) \/ Among(seq[p].id, walk.calls)

LEMMA SequenceRows ==
    ASSUME NEW seq \in Seq(AnyRow), NEW i \in 1 .. Len(seq)
    PROVE  /\ seq[i] \in AnyRow /\ seq[i].id \in IdsIn(seq) /\ seq[i].id # Nothing
           /\ ParentOf(seq[i].id) = seq[i].parent
           /\ seq[i].parent \in Ids \cup {Nothing}
<1>1. seq[i] \in AnyRow
  OBVIOUS
<1>2. TellsOf(seq[i]) /\ seq[i].span = SpanWith(seq[i].id) /\ seq[i].id # Nothing
      /\ seq[i].parent \in Ids \cup {Nothing}
  BY <1>1, RowIs
<1>3. ParentOf(seq[i].id) = seq[i].parent
  BY <1>2 DEF TellsOf, ParentOf
<1>4. seq[i].id \in IdsIn(seq)
  BY DEF IdsIn
<1> QED
  BY <1>1, <1>2, <1>3, <1>4

LEMMA CalledAreRooted ==
    ASSUME NEW seq \in Seq(AnyRow), NEW id \in Rooted(IdsIn(seq)) \cup {Nothing},
           NEW p \in Offspring(seq, id)
    PROVE  seq[p].id \in Rooted(IdsIn(seq)) /\ ParentOf(seq[p].id) = id
<1>1. p \in 1 .. Len(seq) /\ seq[p].parent = id
  BY DEF Offspring
<1>2. seq[p].id \in IdsIn(seq) /\ ParentOf(seq[p].id) = id
  BY <1>1, SequenceRows
<1> QED
  BY <1>2, RootedDown

LEMMA ReachedFirst ==
    ASSUME NEW seq \in Seq(AnyRow)
    PROVE  Reached(seq, FirstCalls(seq))
<1>1. PICK calls : calls = Children(seq, Nothing)
  OBVIOUS
<1>2. PICK at : CallsOf(calls, seq, Nothing, at)
  BY <1>1, ChildrenAre
<1>3. PICK walk : walk = FirstCalls(seq)
  OBVIOUS
<1>4. walk.visited = <<>> /\ walk.calls = calls
  BY <1>1, <1>3 DEF FirstCalls
<1> DEFINE N == Cardinality(Offspring(seq, Nothing))
<1>5. /\ N \in Nat /\ at \in [1 .. N -> Offspring(seq, Nothing)]
      /\ \A p \in Offspring(seq, Nothing) : \E i \in 1 .. N : at[i] = p
      /\ calls = [i \in 1 .. N |-> seq[at[i]].id]
  BY <1>2, Zenon DEF CallsOf
<1> HIDE DEF N
<1>6. Len(calls) = N /\ \A i \in 1 .. N : calls[i] = seq[at[i]].id
  BY <1>5
<1>7. Len(walk.visited) = 0
  BY <1>4
<1>8. \A i \in 1 .. Len(walk.visited) : FALSE
  BY <1>7
<1>9. \A m \in 1 .. Len(walk.calls) : walk.calls[m] \in Rooted(IdsIn(seq))
  <2> SUFFICES ASSUME NEW m \in 1 .. N
               PROVE  calls[m] \in Rooted(IdsIn(seq))
    BY <1>4, <1>6
  <2>1. at[m] \in Offspring(seq, Nothing)
    BY <1>5
  <2>2. seq[at[m]].id \in Rooted(IdsIn(seq))
    BY <2>1, CalledAreRooted
  <2> QED
    BY <1>6, <2>2
<1>10. ASSUME NEW p \in 1 .. Len(seq), seq[p].parent = Nothing
       PROVE  Among(seq[p].id, walk.calls)
  <2>1. PICK i \in 1 .. N : at[i] = p
    BY <1>5, <1>10 DEF Offspring
  <2> QED
    BY <1>4, <1>6, <2>1 DEF Among
<1>11. \A x : ~Among(x, walk.visited)
  BY <1>8, Zenon DEF Among
<1>12. Reached(seq, walk)
  BY <1>8, <1>9, <1>10, <1>11, Zenon DEF Reached
<1> QED
  BY <1>3, <1>12

LEMMA LengthsOf ==
    ASSUME NEW walk \in Walks
    PROVE  Len(walk.visited) \in Nat /\ Len(walk.calls) \in Nat
  BY DEF Walks

LEMMA ReachedDrops ==
    ASSUME NEW seq \in Seq(AnyRow), NEW before \in Walks, NEW after \in Walks,
           Reached(seq, before), Drops(before, after)
    PROVE  Reached(seq, after)
<1>1. /\ Len(before.calls) \in Nat /\ Len(after.calls) = Len(before.calls) - 1
      /\ \A m \in 1 .. Len(after.calls) : after.calls[m] = before.calls[m + 1]
      /\ after.visited = before.visited /\ Among(before.calls[1], before.visited)
  BY LengthsOf DEF Drops
<1>2. \A m \in 1 .. Len(after.calls) : after.calls[m] \in Rooted(IdsIn(seq))
  <2> SUFFICES ASSUME NEW m \in 1 .. Len(after.calls)
               PROVE  after.calls[m] \in Rooted(IdsIn(seq))
    OBVIOUS
  <2>1. m + 1 \in 1 .. Len(before.calls)
    BY <1>1
  <2> QED
    BY <1>1, <2>1 DEF Reached
<1>3. \A x : Among(x, before.calls) => Among(x, after.visited) \/ Among(x, after.calls)
  <2> SUFFICES ASSUME NEW x, Among(x, before.calls), ~Among(x, after.visited)
               PROVE  Among(x, after.calls)
    OBVIOUS
  <2>1. PICK m \in 1 .. Len(before.calls) : before.calls[m] = x
    BY DEF Among
  <2>2. m # 1
    BY <1>1, <2>1
  <2>3. m - 1 \in 1 .. Len(after.calls) /\ (m - 1) + 1 = m
    BY <1>1, <2>2
  <2>4. after.calls[m - 1] = x
    BY <1>1, <2>1, <2>3
  <2> QED
    BY <2>3, <2>4 DEF Among
<1> QED
  BY <1>1, <1>2, <1>3, Zenon DEF Reached

\* The places of what is called after a visit.
LEMMA VisitedCalls ==
    ASSUME NEW seq \in Seq(AnyRow), NEW before \in Walks, NEW after \in Walks, NEW at,
           Visits(seq, before, after, at)
    PROVE  LET called == before.calls[1]
               L == Cardinality(Offspring(seq, called))
           IN  /\ \A m \in 1 .. L : m \in 1 .. Len(after.calls)
               /\ \A m \in 1 .. Len(after.calls) :
                     \/ m \in 1 .. L /\ at[m] \in Offspring(seq, called)
                                     /\ after.calls[m] = seq[at[m]].id
                     \/ /\ m \in L + 1 .. Len(after.calls)
                        /\ m - L + 1 \in 2 .. Len(before.calls)
                        /\ after.calls[m] = before.calls[m - L + 1]
<1> DEFINE called == before.calls[1]
           L == Cardinality(Offspring(seq, called))
<1>1. /\ L \in Nat /\ at \in [1 .. L -> Offspring(seq, called)]
      /\ Len(after.calls) = L + Len(before.calls) - 1
      /\ \A m \in 1 .. L : after.calls[m] = seq[at[m]].id
      /\ \A m \in L + 1 .. Len(after.calls) : after.calls[m] = before.calls[m - L + 1]
      /\ Len(before.calls) > 0
  BY Zenon DEF Visits
<1>2. Len(before.calls) \in Nat
  BY LengthsOf
<1> HIDE DEF L, called
<1>3. \A m \in 1 .. L : m \in 1 .. Len(after.calls)
  BY <1>1, <1>2
<1>4. ASSUME NEW m \in 1 .. Len(after.calls)
      PROVE  \/ m \in 1 .. L /\ at[m] \in Offspring(seq, called)
                             /\ after.calls[m] = seq[at[m]].id
             \/ /\ m \in L + 1 .. Len(after.calls)
                /\ m - L + 1 \in 2 .. Len(before.calls)
                /\ after.calls[m] = before.calls[m - L + 1]
  <2>1. CASE m \in 1 .. L
    BY <1>1, <2>1
  <2>2. CASE m \notin 1 .. L
    <3>1. m \in L + 1 .. Len(after.calls) /\ m - L + 1 \in 2 .. Len(before.calls)
      BY <1>1, <1>2, <2>2
    <3> QED
      BY <1>1, <3>1
  <2> QED
    BY <2>1, <2>2
<1> QED
  BY <1>3, <1>4 DEF L, called

LEMMA VisitedAmong ==
    ASSUME NEW seq \in Seq(AnyRow), NEW before \in Walks, NEW after \in Walks, NEW at,
           Visits(seq, before, after, at)
    PROVE  /\ \A x : Among(x, after.visited) <=> Among(x, before.visited) \/ x = before.calls[1]
           /\ \A x : Among(x, before.calls) => Among(x, after.visited) \/ Among(x, after.calls)
           /\ \A p \in Offspring(seq, before.calls[1]) : Among(seq[p].id, after.calls)
<1> DEFINE called == before.calls[1]
           L == Cardinality(Offspring(seq, called))
           V == Len(before.visited)
<1>1. /\ L \in Nat /\ at \in [1 .. L -> Offspring(seq, called)]
      /\ Len(after.calls) = L + Len(before.calls) - 1
      /\ \A p \in Offspring(seq, called) : \E i \in 1 .. L : at[i] = p
      /\ \A m \in 1 .. L : after.calls[m] = seq[at[m]].id
      /\ \A m \in L + 1 .. Len(after.calls) : after.calls[m] = before.calls[m - L + 1]
      /\ Len(before.calls) > 0
      /\ Len(after.visited) = V + 1 /\ after.visited[V + 1] = called
      /\ \A i \in 1 .. V : after.visited[i] = before.visited[i]
  BY Zenon DEF Visits
<1>2. V \in Nat /\ Len(before.calls) \in Nat
  BY LengthsOf
<1> HIDE DEF L, called, V
<1>3. \A x : Among(x, after.visited) <=> Among(x, before.visited) \/ x = called
  <2>1. ASSUME NEW x, Among(x, after.visited)
        PROVE  Among(x, before.visited) \/ x = called
    <3>1. PICK i \in 1 .. V + 1 : after.visited[i] = x
      BY <1>1, <2>1 DEF Among
    <3>2. i = V + 1 \/ i \in 1 .. V
      BY <1>2
    <3> QED
      BY <1>1, <3>1, <3>2 DEF Among, V
  <2>2. ASSUME NEW x, Among(x, before.visited) \/ x = called
        PROVE  Among(x, after.visited)
    <3>1. PICK i \in 1 .. V + 1 : after.visited[i] = x
      <4>1. V + 1 \in 1 .. V + 1 /\ \A i \in 1 .. V : i \in 1 .. V + 1
        BY <1>2
      <4> QED
        BY <1>1, <2>2, <4>1 DEF Among, V
    <3> QED
      BY <1>1, <3>1 DEF Among
  <2> QED
    BY <2>1, <2>2
<1>4. \A x : Among(x, before.calls) => Among(x, after.visited) \/ Among(x, after.calls)
  <2> SUFFICES ASSUME NEW x, Among(x, before.calls), ~Among(x, after.visited)
               PROVE  Among(x, after.calls)
    OBVIOUS
  <2>1. PICK k \in 1 .. Len(before.calls) : before.calls[k] = x
    BY DEF Among
  <2>2. k # 1
    BY <1>3, <2>1 DEF called
  <2>3. PICK m : m = L + k - 1
    OBVIOUS
  <2>4. m \in L + 1 .. Len(after.calls) /\ m \in 1 .. Len(after.calls) /\ m - L + 1 = k
    BY <1>1, <1>2, <2>2, <2>3
  <2>5. after.calls[m] = x
    BY <1>1, <2>1, <2>4
  <2> QED
    BY <2>4, <2>5 DEF Among
<1>5. ASSUME NEW p \in Offspring(seq, called)
      PROVE  Among(seq[p].id, after.calls)
  <2>1. PICK i \in 1 .. L : at[i] = p
    BY <1>1
  <2>2. i \in 1 .. Len(after.calls) /\ after.calls[i] = seq[p].id
    BY <1>1, <1>2, <2>1
  <2> QED
    BY <2>2 DEF Among
<1> QED
  BY <1>3, <1>4, <1>5 DEF called

LEMMA ReachedVisits ==
    ASSUME NEW seq \in Seq(AnyRow), NEW before \in Walks, NEW after \in Walks, NEW at,
           Reached(seq, before), Visits(seq, before, after, at)
    PROVE  Reached(seq, after)
<1> DEFINE V == Len(before.visited)
<1>1. PICK called : called = before.calls[1]
  OBVIOUS
<1>2. V \in Nat /\ Len(before.calls) \in Nat
  BY LengthsOf
<1>3. /\ Len(before.calls) > 0 /\ ~Among(called, before.visited)
      /\ Len(after.visited) = V + 1 /\ after.visited[V + 1] = called
      /\ \A i \in 1 .. V : after.visited[i] = before.visited[i]
  BY <1>1, Zenon DEF Visits
<1>4. called \in Rooted(IdsIn(seq))
  <2>1. 1 \in 1 .. Len(before.calls)
    BY <1>2, <1>3
  <2> QED
    BY <1>1, <2>1 DEF Reached
<1>5. \A i \in 1 .. V + 1 : i \in 1 .. V \/ i = V + 1
  BY <1>2
<1> HIDE DEF V
<1>6. \A i \in 1 .. Len(after.visited) : after.visited[i] \in Rooted(IdsIn(seq))
  BY <1>3, <1>4, <1>5 DEF Reached, V
<1>7. \A i, j \in 1 .. Len(after.visited) : after.visited[i] = after.visited[j] => i = j
  BY <1>3, <1>5 DEF Reached, V, Among
<1>8. \A m \in 1 .. Len(after.calls) : after.calls[m] \in Rooted(IdsIn(seq))
  <2> SUFFICES ASSUME NEW m \in 1 .. Len(after.calls)
               PROVE  after.calls[m] \in Rooted(IdsIn(seq))
    OBVIOUS
  <2> DEFINE L == Cardinality(Offspring(seq, called))
  <2>1. \/ at[m] \in Offspring(seq, called) /\ after.calls[m] = seq[at[m]].id
        \/ m - L + 1 \in 2 .. Len(before.calls) /\ after.calls[m] = before.calls[m - L + 1]
    BY <1>1, VisitedCalls
  <2>2. CASE at[m] \in Offspring(seq, called) /\ after.calls[m] = seq[at[m]].id
    BY <1>4, <2>2, CalledAreRooted
  <2> HIDE DEF L
  <2>3. CASE m - L + 1 \in 2 .. Len(before.calls) /\ after.calls[m] = before.calls[m - L + 1]
    <3>1. m - L + 1 \in 1 .. Len(before.calls)
      BY <2>3
    <3> QED
      BY <2>3, <3>1 DEF Reached
  <2> QED
    BY <2>1, <2>2, <2>3
<1>9. ASSUME NEW p \in 1 .. Len(seq), seq[p].parent = Nothing \/ Among(seq[p].parent, after.visited)
      PROVE  Among(seq[p].id, after.visited) \/ Among(seq[p].id, after.calls)
  <2>1. /\ \A x : Among(x, after.visited) <=> Among(x, before.visited) \/ x = called
        /\ \A x : Among(x, before.calls) => Among(x, after.visited) \/ Among(x, after.calls)
        /\ \A q \in Offspring(seq, called) : Among(seq[q].id, after.calls)
    BY <1>1, VisitedAmong
  <2>2. CASE seq[p].parent = called
    <3>1. p \in Offspring(seq, called)
      BY <2>2 DEF Offspring
    <3> QED
      BY <2>1, <3>1
  <2>3. CASE seq[p].parent # called
    <3>1. Among(seq[p].id, before.visited) \/ Among(seq[p].id, before.calls)
      BY <1>9, <2>1, <2>3 DEF Reached
    <3> QED
      BY <2>1, <3>1
  <2> QED
    BY <2>2, <2>3
<1> QED
  BY <1>6, <1>7, <1>8, <1>9, Zenon DEF Reached

\* The rows that no call was made for: children of spans yet to be visited.
Unlisted(seq, walk) ==
    {p \in 1 .. Len(seq) : seq[p].parent # Nothing /\ ~Among(seq[p].parent, walk.visited)}

\* A walk has a step for each of its calls.
InBudget(seq, walk, n) ==
    Len(walk.calls) = 0 \/ n + Len(walk.calls) + Cardinality(Unlisted(seq, walk)) <= Len(seq)

LEMMA RowsFinite ==
    ASSUME NEW seq \in Seq(AnyRow), NEW positions \in SUBSET (1 .. Len(seq))
    PROVE  IsFiniteSet(positions) /\ Cardinality(positions) \in Nat
<1>1. IsFiniteSet(1 .. Len(seq))
  BY FS_Interval
<1> QED
  BY <1>1, FS_Subset, FS_CardinalityType

LEMMA TwoParts ==
    ASSUME NEW seq \in Seq(AnyRow), NEW S \in SUBSET (1 .. Len(seq)), NEW T \in SUBSET (1 .. Len(seq)),
           S \cap T = {}
    PROVE  Cardinality(S \cup T) = Cardinality(S) + Cardinality(T)
<1>1. IsFiniteSet(S) /\ IsFiniteSet(T) /\ Cardinality(S) \in Nat /\ Cardinality(T) \in Nat
  BY RowsFinite
<1>2. Cardinality(S \cup T) = Cardinality(S) + Cardinality(T) - Cardinality(S \cap T)
  BY <1>1, FS_Union
<1>3. Cardinality(S \cap T) = 0
  BY FS_EmptySet
<1> QED
  BY <1>1, <1>2, <1>3

LEMMA BudgetFirst ==
    ASSUME NEW seq \in Seq(AnyRow), NEW walk, walk = FirstCalls(seq)
    PROVE  InBudget(seq, walk, 0)
<1> DEFINE S == Offspring(seq, Nothing)
           T == Unlisted(seq, walk)
<1>1. walk.visited = <<>> /\ walk.calls = Children(seq, Nothing)
  BY DEF FirstCalls
<1>2. Len(walk.calls) = Cardinality(S)
  BY <1>1, ChildrenTyped
<1>3. \A x : ~Among(x, walk.visited)
  BY <1>1 DEF Among
<1>4. S \in SUBSET (1 .. Len(seq)) /\ T \in SUBSET (1 .. Len(seq)) /\ S \cap T = {}
      /\ S \cup T = 1 .. Len(seq)
  BY <1>3 DEF Offspring, Unlisted
<1> HIDE DEF S, T
<1>5. Cardinality(S \cup T) = Cardinality(S) + Cardinality(T)
  BY <1>4, TwoParts
<1>6. Cardinality(1 .. Len(seq)) = Len(seq)
  <2>1. PICK n \in Nat : n = Len(seq)
    OBVIOUS
  <2>2. Cardinality(1 .. n) = n
    BY FS_Interval
  <2> QED
    BY <2>1, <2>2
<1>7. Cardinality(S) \in Nat /\ Cardinality(T) \in Nat
  BY <1>4, RowsFinite
<1>8. 0 + Len(walk.calls) + Cardinality(T) <= Len(seq)
  <2>1. Cardinality(S) + Cardinality(T) = Len(seq)
    BY <1>4, <1>5, <1>6
  <2> QED
    BY <1>2, <1>7, <2>1
<1> QED
  BY <1>8 DEF InBudget, T

LEMMA BudgetDrops ==
    ASSUME NEW seq \in Seq(AnyRow), NEW before \in Walks, NEW after \in Walks, NEW n \in Nat,
           InBudget(seq, before, n), Drops(before, after)
    PROVE  InBudget(seq, after, n + 1)
<1>1. /\ Len(before.calls) \in Nat /\ Len(before.calls) > 0
      /\ Len(after.calls) = Len(before.calls) - 1 /\ after.visited = before.visited
  BY LengthsOf DEF Drops
<1>2. PICK c : c = Cardinality(Unlisted(seq, before))
  OBVIOUS
<1>3. c = Cardinality(Unlisted(seq, after))
  BY <1>1, <1>2, Zenon DEF Unlisted
<1>4. Unlisted(seq, before) \in SUBSET (1 .. Len(seq)) /\ Len(seq) \in Nat
  BY DEF Unlisted
<1>5. c \in Nat
  BY <1>2, <1>4, RowsFinite
<1>6. n + Len(before.calls) + c <= Len(seq)
  BY <1>1, <1>2 DEF InBudget
<1>7. n + 1 + Len(after.calls) + c <= Len(seq)
  <2>1. PICK k \in Nat : k = Len(before.calls)
    BY <1>1
  <2>2. PICK N \in Nat : N = Len(seq)
    BY <1>4
  <2>3. Len(after.calls) = k - 1 /\ n + k + c <= N
    BY <1>1, <1>6, <2>1, <2>2
  <2>4. n + 1 + (k - 1) + c <= N
    BY <1>5, <2>3
  <2> QED
    BY <2>2, <2>3, <2>4
<1> QED
  BY <1>3, <1>7 DEF InBudget

LEMMA BudgetVisits ==
    ASSUME NEW seq \in Seq(AnyRow), NEW before \in Walks, NEW after \in Walks, NEW n \in Nat, NEW at,
           InBudget(seq, before, n), Reached(seq, before), Visits(seq, before, after, at)
    PROVE  InBudget(seq, after, n + 1)
<1>1. PICK called : called = before.calls[1]
  OBVIOUS
<1> DEFINE S == Offspring(seq, called)
           T == Unlisted(seq, after)
<1>2. /\ Len(before.calls) \in Nat /\ Len(before.calls) > 0
      /\ ~Among(called, before.visited)
      /\ Len(after.calls) = Cardinality(S) + Len(before.calls) - 1
  BY <1>1, LengthsOf, Zenon DEF Visits
<1>3. called # Nothing
  <2>1. 1 \in 1 .. Len(before.calls)
    BY <1>2
  <2>2. called \in IdsIn(seq)
    BY <1>1, <2>1, RootedIn DEF Reached
  <2>3. PICK i \in 1 .. Len(seq) : called = seq[i].id
    BY <2>2 DEF IdsIn
  <2> QED
    BY <2>3, SequenceRows
<1>4. \A x : Among(x, after.visited) <=> Among(x, before.visited) \/ x = called
  BY <1>1, VisitedAmong
<1>5. S \in SUBSET (1 .. Len(seq)) /\ T \in SUBSET (1 .. Len(seq)) /\ S \cap T = {}
      /\ S \cup T = Unlisted(seq, before)
  BY <1>2, <1>3, <1>4 DEF Offspring, Unlisted
<1>6. n + Len(before.calls) + Cardinality(Unlisted(seq, before)) <= Len(seq)
  BY <1>2 DEF InBudget
<1> HIDE DEF S, T
<1>7. Cardinality(S \cup T) = Cardinality(S) + Cardinality(T)
  BY <1>5, TwoParts
<1>8. Cardinality(S) \in Nat /\ Cardinality(T) \in Nat /\ Len(seq) \in Nat
  BY <1>5, RowsFinite
<1>9. n + 1 + Len(after.calls) + Cardinality(T) <= Len(seq)
  <2>1. PICK k \in Nat : k = Len(before.calls)
    BY <1>2
  <2>2. PICK N \in Nat : N = Len(seq)
    BY <1>8
  <2>3. PICK s \in Nat : s = Cardinality(S)
    BY <1>8
  <2>4. PICK t \in Nat : t = Cardinality(T)
    BY <1>8
  <2>5. Len(after.calls) = s + k - 1
    BY <1>2, <2>1, <2>3
  <2>6. n + k + (s + t) <= N
    BY <1>5, <1>6, <1>7, <2>1, <2>2, <2>3, <2>4
  <2>7. n + 1 + (s + k - 1) + t <= N
    BY <2>6
  <2> QED
    BY <2>2, <2>4, <2>5, <2>7
<1> QED
  BY <1>9 DEF InBudget, T

LEMMA WalkReaches ==
    ASSUME NEW seq \in Seq(AnyRow), NEW walk, IsWalk(walk, seq)
    PROVE  \A n \in 0 .. Len(seq) : Reached(seq, walk[n]) /\ InBudget(seq, walk[n], n)
<1> DEFINE N == Len(seq)
           Good == {n \in Nat : n <= N => Reached(seq, walk[n]) /\ InBudget(seq, walk[n], n)}
<1>1. N \in Nat
  OBVIOUS
<1>2. 0 \in Good
  <2>1. walk[0] = FirstCalls(seq)
    BY DEF IsWalk
  <2> QED
    BY <2>1, ReachedFirst, BudgetFirst
<1>3. \A n \in Nat : n \in Good => n + 1 \in Good
  <2> SUFFICES ASSUME NEW n \in Nat, n \in Good, n + 1 <= N
               PROVE  Reached(seq, walk[n + 1]) /\ InBudget(seq, walk[n + 1], n + 1)
    OBVIOUS
  <2>1. n \in 0 .. N /\ n + 1 \in 1 .. N /\ n + 1 \in 0 .. N /\ (n + 1) - 1 = n
    BY <1>1
  <2>2. PICK before : before = walk[n]
    OBVIOUS
  <2>3. PICK after : after = walk[n + 1]
    OBVIOUS
  <2>4. after = NextCall(seq, before) /\ before \in Walks /\ after \in Walks
    BY <2>1, <2>2, <2>3, Zenon DEF IsWalk
  <2>5. Reached(seq, before) /\ InBudget(seq, before, n)
    BY <2>1, <2>2
  <2> HIDE DEF Good, N
  <2>6. \/ Len(before.calls) = 0 /\ after = before
        \/ Drops(before, after)
        \/ \E at : Visits(seq, before, after, at)
    BY <2>4, NextCallIs
  <2>7. CASE Len(before.calls) = 0 /\ after = before
    BY <2>3, <2>5, <2>7 DEF InBudget
  <2>8. CASE Drops(before, after)
    BY <2>3, <2>4, <2>5, <2>8, ReachedDrops, BudgetDrops
  <2>9. CASE \E at : Visits(seq, before, after, at)
    BY <2>3, <2>4, <2>5, <2>9, ReachedVisits, BudgetVisits
  <2> QED
    BY <2>6, <2>7, <2>8, <2>9
<1> HIDE DEF Good
<1>4. Nat \subseteq Good
  BY <1>2, <1>3, AllNumbers
<1> QED
  BY <1>1, <1>4 DEF Good

\* The walk visits what a root leads to, each span once.
LEMMA VisitsRooted ==
    ASSUME NEW seq \in Seq(AnyRow)
    PROVE  /\ Visited(seq) \in Seq(Ids)
           /\ \A i, j \in 1 .. Len(Visited(seq)) : Visited(seq)[i] = Visited(seq)[j] => i = j
           /\ \A id : Among(id, Visited(seq)) <=> id \in Rooted(IdsIn(seq))
<1> DEFINE N == Len(seq)
<1>1. PICK walk : IsWalk(walk, seq) /\ Visited(seq) = walk[N].visited
  BY WalkIs
<1>2. N \in Nat /\ N \in 0 .. N
  OBVIOUS
<1>3. PICK last : last = walk[N]
  OBVIOUS
<1>4. last \in Walks /\ Reached(seq, last) /\ InBudget(seq, last, N)
  BY <1>1, <1>2, <1>3, WalkReaches DEF IsWalk
<1>5. PICK visited : visited = last.visited
  OBVIOUS
<1>6. Visited(seq) = visited /\ visited \in Seq(Ids)
  BY <1>1, <1>3, <1>4, <1>5 DEF Walks
<1>7. Len(last.calls) = 0
  <2>1. Len(last.calls) \in Nat
    BY <1>4, LengthsOf
  <2>2. Unlisted(seq, last) \in SUBSET (1 .. Len(seq))
    BY DEF Unlisted
  <2>3. Cardinality(Unlisted(seq, last)) \in Nat
    BY <2>2, RowsFinite
  <2> QED
    BY <1>2, <1>4, <2>1, <2>3 DEF InBudget
<1>8. \A x : ~Among(x, last.calls)
  BY <1>7 DEF Among
<1>9. \A id : Among(id, visited) => id \in Rooted(IdsIn(seq))
  BY <1>4, <1>5 DEF Reached, Among
<1>10. \A id \in Rooted(IdsIn(seq)) : Among(id, visited)
  <2> DEFINE tree == {id \in IdsIn(seq) : Among(id, visited)}
  <2>1. tree \in SUBSET IdsIn(seq)
    OBVIOUS
  <2>2. \A child \in IdsIn(seq) : ParentOf(child) \in tree \cup {Nothing} => child \in tree
    <3> SUFFICES ASSUME NEW child \in IdsIn(seq), ParentOf(child) \in tree \cup {Nothing}
                 PROVE  Among(child, visited)
      OBVIOUS
    <3>1. PICK p \in 1 .. Len(seq) : child = seq[p].id
      BY DEF IdsIn
    <3>2. seq[p].parent = Nothing \/ Among(seq[p].parent, visited)
      BY <3>1, SequenceRows
    <3> QED
      BY <1>4, <1>5, <1>8, <3>1, <3>2 DEF Reached
  <2> HIDE DEF tree
  <2>3. Rooted(IdsIn(seq)) \subseteq tree
    BY <2>1, <2>2, RootedLeast
  <2> QED
    BY <2>3 DEF tree
<1>11. \A i, j \in 1 .. Len(visited) : visited[i] = visited[j] => i = j
  BY <1>4, <1>5 DEF Reached
<1> QED
  BY <1>6, <1>9, <1>10, <1>11

\* A hierarchy has every span once, those that a root leads to first.
IsHierarchy(ids, seq) ==
    /\ ids \in Seq(Ids)
    /\ ToSet(ids) = IdsIn(seq)
    /\ \A i, j \in 1 .. Len(ids) : ids[i] = ids[j] => i = j
    /\ Len(Visited(seq)) \in 0 .. Len(ids)
    /\ \A i \in 1 .. Len(Visited(seq)) : ids[i] = Visited(seq)[i]
    /\ \A i \in 1 .. Len(ids) : ids[i] \in Rooted(IdsIn(seq)) => i <= Len(Visited(seq))

LEMMA HierarchyIs ==
    ASSUME NEW seq \in Seq(AnyRow), NEW ids \in InHierarchy(seq)
    PROVE  IsHierarchy(ids, seq)
<1>1. PICK visited : visited = Visited(seq)
  OBVIOUS
<1>2. PICK left : left = {seq[i].id : i \in DOMAIN seq} \ ToSet(visited)
  OBVIOUS
<1>3. PICK rest \in InOrder(left, [id \in left |-> 0]) : ids = visited \o rest
  BY <1>1, <1>2, Zenon DEF InHierarchy
<1>4. /\ visited \in Seq(Ids)
      /\ \A i, j \in 1 .. Len(visited) : visited[i] = visited[j] => i = j
      /\ \A id : Among(id, visited) <=> id \in Rooted(IdsIn(seq))
  BY <1>1, VisitsRooted
<1>5. \A id : id \in ToSet(visited) <=> id \in Rooted(IdsIn(seq))
  BY <1>4, AmongIs
<1>6. IdsIn(seq) = {seq[i].id : i \in DOMAIN seq} /\ IdsIn(seq) \subseteq Ids
  <2>1. \A i \in 1 .. Len(seq) : seq[i] \in AnyRow
    OBVIOUS
  <2>2. \A i \in 1 .. Len(seq) : seq[i].id \in Ids
    BY <2>1, RowIs
  <2>3. DOMAIN seq = 1 .. Len(seq)
    OBVIOUS
  <2> QED
    BY <2>2, <2>3 DEF IdsIn
<1>7. left = IdsIn(seq) \ Rooted(IdsIn(seq))
  BY <1>2, <1>5, <1>6
<1>8. IsFiniteSet(left)
  <2>1. IsFiniteSet(1 .. Len(seq))
    BY FS_Interval
  <2> DEFINE f == [i \in 1 .. Len(seq) |-> seq[i].id]
  <2>2. f \in Surjection(1 .. Len(seq), IdsIn(seq))
    BY DEF Surjection, IdsIn
  <2> HIDE DEF f
  <2>3. IsFiniteSet(IdsIn(seq))
    BY <2>1, <2>2, FS_Surjection
  <2> QED
    BY <1>7, <2>3, FS_Subset
<1>9. IsOrder(rest, left, [id \in left |-> 0])
  <2>1. PICK key : key = [id \in left |-> 0]
    OBVIOUS
  <2>2. \A id \in left : key[id] \in Nat
    BY <2>1
  <2> QED
    BY <1>3, <1>8, <2>1, <2>2, InOrderIs
<1>10. PICK N : N = Cardinality(left)
  OBVIOUS
<1>11. /\ rest \in Seq(left) /\ Len(rest) = N
       /\ ToSet(rest) = left
       /\ \A i, j \in 1 .. N : rest[i] = rest[j] => i = j
  BY <1>9, <1>10 DEF IsOrder, Ordered
<1>12. rest \in Seq(Ids)
  <2>1. left \subseteq Ids
    BY <1>6, <1>7
  <2> QED
    BY <1>11, <2>1
<1>13. PICK V : V = Len(visited)
  OBVIOUS
<1>14. V \in Nat /\ N \in Nat
  BY <1>4, <1>11, <1>13
<1>15. /\ ids \in Seq(Ids) /\ Len(ids) = V + N
       /\ \A i \in 1 .. V : ids[i] = visited[i]
       /\ \A i \in V + 1 .. V + N : ids[i] = rest[i - V]
  <2>1. Len(ids) = V + N
    BY <1>3, <1>4, <1>11, <1>12, <1>13, Joined
  <2>2. \A i \in 1 .. V : ids[i] = visited[i]
    BY <1>3, <1>4, <1>12, <1>13, Joined
  <2>3. \A i \in V + 1 .. V + N : ids[i] = rest[i - V]
    BY <1>3, <1>4, <1>11, <1>12, <1>13, Joined
  <2>4. ids \in Seq(Ids)
    BY <1>3, <1>4, <1>12
  <2> QED
    BY <2>1, <2>2, <2>3, <2>4
<1>16. \A i \in 1 .. V + N : i \in 1 .. V \/ (i \in V + 1 .. V + N /\ i - V \in 1 .. N)
  BY <1>14
<1>17. \A i \in 1 .. V : ids[i] \in Rooted(IdsIn(seq))
  BY <1>4, <1>13, <1>15 DEF Among
<1>18. \A i \in V + 1 .. V + N : ids[i] \in left
  <2> SUFFICES ASSUME NEW i \in V + 1 .. V + N
               PROVE  rest[i - V] \in left
    BY <1>15
  <2>1. i - V \in 1 .. N
    BY <1>14
  <2> QED
    BY <1>11, <2>1
<1>19. \A i, j \in 1 .. Len(ids) : ids[i] = ids[j] => i = j
  <2> SUFFICES ASSUME NEW i \in 1 .. V + N, NEW j \in 1 .. V + N, ids[i] = ids[j]
               PROVE  i = j
    BY <1>15
  <2>1. CASE i \in 1 .. V /\ j \in 1 .. V
    BY <1>4, <1>13, <1>15, <2>1
  <2>2. CASE i \in V + 1 .. V + N /\ j \in V + 1 .. V + N
    <3>1. i - V \in 1 .. N /\ j - V \in 1 .. N /\ rest[i - V] = rest[j - V]
      BY <1>14, <1>15, <2>2
    <3>2. i - V = j - V
      BY <1>11, <3>1
    <3> QED
      BY <1>14, <3>2
  <2>3. ~(i \in 1 .. V /\ j \in V + 1 .. V + N) /\ ~(j \in 1 .. V /\ i \in V + 1 .. V + N)
    BY <1>7, <1>17, <1>18
  <2> QED
    BY <1>16, <2>1, <2>2, <2>3
<1>20. ToSet(ids) = IdsIn(seq)
  <2>1. ASSUME NEW id \in ToSet(ids)
        PROVE  id \in IdsIn(seq)
    <3>1. PICK i \in 1 .. V + N : id = ids[i]
      BY <1>15 DEF ToSet
    <3> QED
      BY <1>7, <1>16, <1>17, <1>18, <3>1, RootedIn
  <2>2. ASSUME NEW id \in IdsIn(seq)
        PROVE  id \in ToSet(ids)
    <3>1. CASE id \in Rooted(IdsIn(seq))
      <4>1. PICK i \in 1 .. V : visited[i] = id
        BY <1>4, <1>13, <3>1 DEF Among
      <4>2. i \in 1 .. V + N /\ ids[i] = id
        BY <1>14, <1>15, <4>1
      <4> QED
        BY <1>15, <4>2 DEF ToSet
    <3>2. CASE id \notin Rooted(IdsIn(seq))
      <4>1. id \in ToSet(rest)
        BY <1>7, <1>11, <2>2, <3>2
      <4>2. PICK k \in 1 .. N : rest[k] = id
        BY <1>11, <4>1 DEF ToSet
      <4>3. k + V \in V + 1 .. V + N /\ k + V \in 1 .. V + N /\ (k + V) - V = k
        BY <1>14, <4>2
      <4>4. ids[k + V] = id
        BY <1>15, <4>2, <4>3
      <4> QED
        BY <1>15, <4>3, <4>4 DEF ToSet
    <3> QED
      BY <3>1, <3>2
  <2> QED
    BY <2>1, <2>2
<1>21. \A i \in 1 .. Len(ids) : ids[i] \in Rooted(IdsIn(seq)) => i <= V
  BY <1>7, <1>14, <1>15, <1>16, <1>18
<1>22. V \in 0 .. Len(ids)
  BY <1>14, <1>15
<1> QED
  BY <1>1, <1>13, <1>15, <1>19, <1>20, <1>21, <1>22 DEF IsHierarchy

-----------------------------------------------------------------------------
(* The depth of a span.                                                      *)

IdsOfRows(rows) == {row.id : row \in rows}

Climbs == [at : Ids, passed : SUBSET Ids, depth : Nat]

NextClimb(rows, below) ==
    LET parent == ParentIn(rows, below.at)
    IN  IF below.at \in below.passed \/ parent = {} THEN below
        ELSE [at     |-> CHOOSE p \in parent : TRUE,
              passed |-> below.passed \cup {below.at},
              depth  |-> below.depth + 1]

ChainOfClimbs(climb, rows, id) ==
    climb = [n \in 0 .. Cardinality(rows) |->
                IF n = 0 THEN [at |-> id, passed |-> {}, depth |-> 0]
                ELSE NextClimb(rows, climb[n - 1])]

LEMMA NextClimbTyped ==
    ASSUME NEW rows \in SUBSET AnyRow, NEW below \in Climbs
    PROVE  NextClimb(rows, below) \in Climbs
<1>1. PICK parent : parent = ParentIn(rows, below.at)
  OBVIOUS
<1>2. parent \subseteq Ids
  <2>1. \A row \in rows : row.id \in Ids
    BY RowIs
  <2> QED
    BY <1>1, <2>1 DEF ParentIn
<1>3. CASE below.at \in below.passed \/ parent = {}
  BY <1>1, <1>3, Zenon DEF NextClimb
<1>4. CASE ~(below.at \in below.passed \/ parent = {})
  <2>1. PICK p : p = CHOOSE q \in parent : TRUE
    OBVIOUS
  <2>2. p \in Ids
    BY <1>2, <1>4, <2>1
  <2>3. NextClimb(rows, below) = [at |-> p, passed |-> below.passed \cup {below.at}, depth |-> below.depth + 1]
    BY <1>1, <1>4, <2>1, Zenon DEF NextClimb
  <2> QED
    BY <2>2, <2>3 DEF Climbs
<1> QED
  BY <1>3, <1>4

LEMMA ClimbExists ==
    ASSUME NEW rows \in SUBSET AnyRow, IsFiniteSet(rows), NEW id \in Ids
    PROVE  \E climb : ChainOfClimbs(climb, rows, id)
<1> DEFINE N == Cardinality(rows)
           step == [below \in Climbs |-> NextClimb(rows, below)]
<1>1. N \in Nat
  BY FS_CardinalityType
<1>2. PICK first : first = [at |-> id, passed |-> {}, depth |-> 0]
  OBVIOUS
<1>3. first \in Climbs
  BY <1>2 DEF Climbs
<1>4. step \in [Climbs -> Climbs]
  BY NextClimbTyped
<1> HIDE DEF step, N
<1>5. PICK f : Recurs(f, Climbs, first, step, N)
  BY <1>1, <1>3, <1>4, Recursion
<1>6. \A n \in 1 .. N : f[n] = NextClimb(rows, f[n - 1])
  <2> SUFFICES ASSUME NEW n \in 1 .. N
               PROVE  f[n] = NextClimb(rows, f[n - 1])
    OBVIOUS
  <2>1. n - 1 \in 0 .. N
    BY <1>1
  <2>2. f[n - 1] \in Climbs
    BY <1>5, <2>1 DEF Recurs
  <2>3. step[f[n - 1]] = NextClimb(rows, f[n - 1])
    BY <2>2 DEF step
  <2> QED
    BY <1>5, <2>3 DEF Recurs
<1>7. \A n \in 0 .. N : f[n] = IF n = 0 THEN first ELSE NextClimb(rows, f[n - 1])
  <2>1. \A n \in 0 .. N : n = 0 \/ n \in 1 .. N
    BY <1>1
  <2>2. f[0] = first
    BY <1>5 DEF Recurs
  <2> QED
    BY <1>6, <2>1, <2>2, Zenon
<1>8. f \in [0 .. N -> Climbs]
  BY <1>5 DEF Recurs
<1>9. f = [n \in 0 .. N |-> IF n = 0 THEN [at |-> id, passed |-> {}, depth |-> 0]
                            ELSE NextClimb(rows, f[n - 1])]
  BY <1>2, <1>7, <1>8, Zenon
<1> QED
  BY <1>9, Zenon DEF ChainOfClimbs, N

IsClimb(climb, rows, id) ==
    /\ climb[0] = [at |-> id, passed |-> {}, depth |-> 0]
    /\ \A n \in 1 .. Cardinality(rows) : climb[n] = NextClimb(rows, climb[n - 1])

LEMMA ClimbIs ==
    ASSUME NEW rows \in SUBSET AnyRow, IsFiniteSet(rows), NEW id \in Ids
    PROVE  \E climb : IsClimb(climb, rows, id) /\ Depth(rows, id) = climb[Cardinality(rows)].depth
<1> DEFINE N == Cardinality(rows)
           climb == CHOOSE c : ChainOfClimbs(c, rows, id)
<1>1. N \in Nat
  BY FS_CardinalityType
<1>2. ChainOfClimbs(climb, rows, id)
  BY ClimbExists, Zenon
<1>3. Depth(rows, id) = climb[N].depth
  BY Zenon DEF Depth, ChainOfClimbs, NextClimb
<1> HIDE DEF climb, N
<1>4. \A n \in 0 .. N : climb[n] = IF n = 0 THEN [at |-> id, passed |-> {}, depth |-> 0]
                                   ELSE NextClimb(rows, climb[n - 1])
  BY <1>2, Zenon DEF ChainOfClimbs, N
<1>5. 0 \in 0 .. N /\ \A n \in 1 .. N : n \in 0 .. N /\ n # 0
  BY <1>1
<1>6. IsClimb(climb, rows, id)
  BY <1>4, <1>5, Zenon DEF IsClimb, N
<1> QED
  BY <1>3, <1>6 DEF N

\* The way from a span to its root.
IsPath(path, m, id, ids) ==
    /\ m \in Nat /\ path \in [0 .. m -> ids] /\ path[0] = id
    /\ \A k \in 0 .. m - 1 : path[k + 1] = ParentOf(path[k])
    /\ ParentOf(path[m]) = Nothing

LEMMA PathExists ==
    ASSUME NEW ids, NEW id \in Rooted(ids)
    PROVE  \E m, path : IsPath(path, m, id, ids)
<1> DEFINE tree == {x \in ids : \E m, path : IsPath(path, m, x, ids)}
<1>1. tree \in SUBSET ids
  OBVIOUS
<1>2. \A child \in ids : ParentOf(child) \in tree \cup {Nothing} => child \in tree
  <2> SUFFICES ASSUME NEW child \in ids, ParentOf(child) \in tree \cup {Nothing}
               PROVE  \E m, path : IsPath(path, m, child, ids)
    OBVIOUS
  <2>1. CASE ParentOf(child) = Nothing
    <3> DEFINE path == [k \in 0 .. 0 |-> child]
    <3>1. path \in [0 .. 0 -> ids] /\ path[0] = child
      OBVIOUS
    <3>2. \A k \in 0 .. 0 - 1 : FALSE
      OBVIOUS
    <3> HIDE DEF path
    <3>3. IsPath(path, 0, child, ids)
      BY <2>1, <3>1, <3>2 DEF IsPath
    <3> QED
      BY <3>3
  <2>2. CASE ParentOf(child) \in tree
    <3>1. PICK m, path : IsPath(path, m, ParentOf(child), ids)
      BY <2>2
    <3>2. /\ m \in Nat /\ path \in [0 .. m -> ids] /\ path[0] = ParentOf(child)
          /\ \A k \in 0 .. m - 1 : path[k + 1] = ParentOf(path[k])
          /\ ParentOf(path[m]) = Nothing
      BY <3>1 DEF IsPath
    <3> DEFINE longer == [k \in 0 .. m + 1 |-> IF k = 0 THEN child ELSE path[k - 1]]
    <3>3. \A k \in 0 .. m + 1 : k # 0 => k - 1 \in 0 .. m
      BY <3>2
    <3>4. longer \in [0 .. m + 1 -> ids] /\ longer[0] = child
      BY <3>2, <3>3
    <3>5. \A k \in 0 .. (m + 1) - 1 : longer[k + 1] = ParentOf(longer[k])
      <4> SUFFICES ASSUME NEW k \in 0 .. m
                   PROVE  longer[k + 1] = ParentOf(longer[k])
        BY <3>2
      <4>1. k + 1 \in 0 .. m + 1 /\ k + 1 # 0 /\ (k + 1) - 1 = k /\ k \in 0 .. m + 1
        BY <3>2
      <4>2. longer[k + 1] = path[k]
        BY <4>1
      <4>3. CASE k = 0
        BY <3>2, <4>2, <4>3
      <4>4. CASE k # 0
        <5>1. k - 1 \in 0 .. m - 1 /\ (k - 1) + 1 = k
          BY <3>2, <4>4
        <5>2. longer[k] = path[k - 1]
          BY <4>1, <4>4
        <5> QED
          BY <3>2, <4>2, <5>1, <5>2
      <4> QED
        BY <4>3, <4>4
    <3>6. ParentOf(longer[m + 1]) = Nothing
      <4>1. m + 1 \in 0 .. m + 1 /\ m + 1 # 0 /\ (m + 1) - 1 = m
        BY <3>2
      <4> QED
        BY <3>2, <4>1
    <3> HIDE DEF longer
    <3>7. IsPath(longer, m + 1, child, ids)
      BY <3>2, <3>4, <3>5, <3>6 DEF IsPath
    <3> QED
      BY <3>7
  <2> QED
    BY <2>1, <2>2
<1> HIDE DEF tree
<1>3. Rooted(ids) \subseteq tree
  BY <1>1, <1>2, RootedLeast
<1> QED
  BY <1>3 DEF tree

\* It passes no span twice.
LEMMA PathInjective ==
    ASSUME NEW ids, Nothing \notin ids, NEW id, NEW m, NEW path, IsPath(path, m, id, ids),
           NEW a \in 0 .. m, NEW b \in 0 .. m, a < b
    PROVE  path[a] # path[b]
<1> SUFFICES ASSUME path[a] = path[b]
             PROVE  FALSE
  OBVIOUS
<1>1. /\ m \in Nat /\ path \in [0 .. m -> ids]
      /\ \A k \in 0 .. m - 1 : path[k + 1] = ParentOf(path[k])
      /\ ParentOf(path[m]) = Nothing
  BY DEF IsPath
<1> DEFINE Good == {j \in Nat : b + j <= m => path[a + j] = path[b + j]}
<1>2. 0 \in Good
  OBVIOUS
<1>3. \A j \in Nat : j \in Good => j + 1 \in Good
  <2> SUFFICES ASSUME NEW j \in Nat, j \in Good, b + (j + 1) <= m
               PROVE  path[a + (j + 1)] = path[b + (j + 1)]
    OBVIOUS
  <2>1. a + j \in 0 .. m - 1 /\ b + j \in 0 .. m - 1 /\ b + j <= m
    BY <1>1
  <2>2. path[a + j] = path[b + j]
    BY <2>1
  <2>3. path[(a + j) + 1] = ParentOf(path[a + j]) /\ path[(b + j) + 1] = ParentOf(path[b + j])
    BY <1>1, <2>1
  <2>4. (a + j) + 1 = a + (j + 1) /\ (b + j) + 1 = b + (j + 1)
    OBVIOUS
  <2> QED
    BY <2>2, <2>3, <2>4
<1> HIDE DEF Good
<1>4. m - b \in Good
  <2>1. Nat \subseteq Good
    BY <1>2, <1>3, AllNumbers
  <2> QED
    BY <1>1, <2>1
<1>5. path[a + (m - b)] = path[m]
  <2>1. b + (m - b) = m
    BY <1>1
  <2> QED
    BY <1>1, <1>4, <2>1 DEF Good
<1>6. a + (m - b) \in 0 .. m - 1 /\ a + (m - b) + 1 \in 0 .. m
  BY <1>1
<1>7. path[a + (m - b) + 1] = Nothing
  BY <1>1, <1>5, <1>6
<1> QED
  BY <1>1, <1>6, <1>7

\* It is no longer than there are rows.
LEMMA PathFits ==
    ASSUME NEW rows \in SUBSET AnyRow, IsFiniteSet(rows), NEW id, NEW m, NEW path,
           IsPath(path, m, id, IdsOfRows(rows))
    PROVE  m + 1 <= Cardinality(rows)
<1> DEFINE ids == IdsOfRows(rows)
<1>1. Nothing \notin ids
  BY RowIs DEF IdsOfRows
<1>2. m \in Nat /\ path \in [0 .. m -> ids]
  BY DEF IsPath
<1>3. \A a, b \in 0 .. m : path[a] = path[b] => a = b
  <2> SUFFICES ASSUME NEW a \in 0 .. m, NEW b \in 0 .. m, path[a] = path[b], a # b
               PROVE  FALSE
    OBVIOUS
  <2>1. a < b \/ b < a
    BY <1>2
  <2> HIDE DEF ids
  <2> QED
    BY <1>1, <2>1, PathInjective DEF ids
<1>4. IsFiniteSet(ids) /\ Cardinality(ids) <= Cardinality(rows)
  <2> DEFINE f == [row \in rows |-> row.id]
  <2>1. f \in Surjection(rows, ids)
    BY DEF Surjection, IdsOfRows
  <2> HIDE DEF f, ids
  <2> QED
    BY <2>1, FS_Surjection
<1>5. path \in Injection(0 .. m, ids)
  BY <1>2, <1>3 DEF Injection, IsInjective
<1>6. Cardinality(0 .. m) = m + 1
  BY <1>2, FS_Interval
<1> HIDE DEF ids
<1>7. Cardinality(0 .. m) <= Cardinality(ids)
  BY <1>4, <1>5, FS_Injection
<1>8. Cardinality(rows) \in Nat /\ Cardinality(ids) \in Nat
  BY <1>4, FS_CardinalityType
<1> QED
  BY <1>2, <1>4, <1>6, <1>7, <1>8

LEMMA ParentInRows ==
    ASSUME NEW rows \in SUBSET AnyRow, NEW id \in IdsOfRows(rows)
    PROVE  /\ ParentOf(id) = Nothing => ParentIn(rows, id) = {}
           /\ ParentOf(id) \in IdsOfRows(rows) => ParentIn(rows, id) = {ParentOf(id)}
<1>1. \A row \in rows : row.id = id => row.parent = ParentOf(id)
  <2> SUFFICES ASSUME NEW row \in rows
               PROVE  row.parent = ParentOf(row.id)
    OBVIOUS
  <2>1. TellsOf(row) /\ row.span = SpanWith(row.id)
    BY RowIs
  <2> QED
    BY <2>1 DEF TellsOf, ParentOf
<1>2. PICK row \in rows : row.id = id
  BY DEF IdsOfRows
<1>3. {r.parent : r \in {r \in rows : r.id = id}} = {ParentOf(id)}
  BY <1>1, <1>2
<1>4. ParentIn(rows, id) = {ParentOf(id)} \cap IdsOfRows(rows)
  BY <1>3, Zenon DEF ParentIn, IdsOfRows
<1>5. Nothing \notin IdsOfRows(rows)
  BY RowIs DEF IdsOfRows
<1> QED
  BY <1>4, <1>5

\* Where a climb along a path has got to after n steps.
Along(climb, path, n, k) ==
    climb[n] = [at |-> path[k], passed |-> {path[j] : j \in 0 .. k - 1}, depth |-> k]

LEMMA PathDepth ==
    ASSUME NEW rows \in SUBSET AnyRow, IsFiniteSet(rows), NEW id, NEW m, NEW path,
           IsPath(path, m, id, IdsOfRows(rows))
    PROVE  Depth(rows, id) = m
<1> DEFINE N == Cardinality(rows)
<1>1. PICK ids : ids = IdsOfRows(rows)
  OBVIOUS
<1>2. /\ m \in Nat /\ path \in [0 .. m -> ids] /\ path[0] = id
      /\ \A k \in 0 .. m - 1 : path[k + 1] = ParentOf(path[k])
      /\ ParentOf(path[m]) = Nothing
  BY <1>1 DEF IsPath
<1>3. N \in Nat /\ m + 1 <= N
  BY PathFits, FS_CardinalityType
<1>4. ids \subseteq Ids /\ Nothing \notin ids
  BY <1>1, RowIs DEF IdsOfRows
<1>5. id \in Ids
  BY <1>2, <1>4
<1>6. PICK climb : IsClimb(climb, rows, id) /\ Depth(rows, id) = climb[N].depth
  BY <1>5, ClimbIs
<1> HIDE DEF N
<1>7. climb[0] = [at |-> id, passed |-> {}, depth |-> 0]
      /\ \A n \in 1 .. N : climb[n] = NextClimb(rows, climb[n - 1])
  BY <1>6 DEF IsClimb, N
<1> DEFINE Good == {n \in Nat : n <= N => Along(climb, path, n, IF n <= m THEN n ELSE m)}
<1>8. 0 \in Good
  <2>1. {path[j] : j \in 0 .. 0 - 1} = {}
    OBVIOUS
  <2>2. Along(climb, path, 0, 0)
    BY <1>2, <1>7, <2>1 DEF Along
  <2>3. (IF 0 <= m THEN 0 ELSE m) = 0
    BY <1>2
  <2> QED
    BY <2>2, <2>3
<1>9. \A n \in Nat : n \in Good => n + 1 \in Good
  <2> SUFFICES ASSUME NEW n \in Nat, n \in Good, n + 1 <= N
               PROVE  Along(climb, path, n + 1, IF n + 1 <= m THEN n + 1 ELSE m)
    OBVIOUS
  <2>1. n + 1 \in 1 .. N /\ (n + 1) - 1 = n /\ n <= N
    BY <1>3
  <2>2. PICK below : below = climb[n]
    OBVIOUS
  <2>3. climb[n + 1] = NextClimb(rows, below)
    BY <1>7, <2>1, <2>2
  <2>4. CASE n < m
    <3>1. n <= m /\ n + 1 <= m /\ n \in 0 .. m - 1 /\ n \in 0 .. m /\ n + 1 \in 0 .. m
      BY <1>2, <2>4
    <3>2. Along(climb, path, n, n)
      BY <2>1, <3>1
    <3>3. below.at = path[n] /\ below.passed = {path[j] : j \in 0 .. n - 1} /\ below.depth = n
      BY <2>2, <3>2 DEF Along
    <3>4. path[n] \in ids /\ path[n + 1] = ParentOf(path[n]) /\ path[n + 1] \in ids
      BY <1>2, <3>1
    <3>5. ParentIn(rows, path[n]) = {path[n + 1]}
      BY <1>1, <3>4, ParentInRows
    <3>6. path[n] \notin {path[j] : j \in 0 .. n - 1}
      <4> SUFFICES ASSUME NEW j \in 0 .. n - 1
                   PROVE  path[j] # path[n]
        OBVIOUS
      <4>1. j \in 0 .. m /\ j < n
        BY <1>2, <3>1
      <4> QED
        BY <1>1, <1>4, <3>1, <4>1, PathInjective
    <3>7. PICK parent : parent = ParentIn(rows, below.at)
      OBVIOUS
    <3>8. parent = {path[n + 1]} /\ parent # {} /\ (CHOOSE p \in parent : TRUE) = path[n + 1]
      BY <3>3, <3>5, <3>7
    <3>9. NextClimb(rows, below) = [at     |-> CHOOSE p \in parent : TRUE,
                                    passed |-> below.passed \cup {below.at},
                                    depth  |-> below.depth + 1]
      BY <3>3, <3>6, <3>7, <3>8, Zenon DEF NextClimb
    <3>10. below.passed \cup {below.at} = {path[j] : j \in 0 .. (n + 1) - 1}
      <4>1. 0 .. (n + 1) - 1 = (0 .. n - 1) \cup {n}
        OBVIOUS
      <4>2. {path[j] : j \in (0 .. n - 1) \cup {n}} = {path[j] : j \in 0 .. n - 1} \cup {path[n]}
        OBVIOUS
      <4> QED
        BY <3>3, <4>1, <4>2
    <3>11. Along(climb, path, n + 1, n + 1)
      BY <2>3, <3>3, <3>8, <3>9, <3>10 DEF Along
    <3> QED
      BY <3>1, <3>11
  <2>5. CASE ~(n < m)
    <3>1. (IF n <= m THEN n ELSE m) = m /\ ~(n + 1 <= m)
      BY <1>2, <2>5
    <3>2. Along(climb, path, n, m)
      BY <2>1, <3>1
    <3>3. below.at = path[m]
      BY <2>2, <3>2 DEF Along
    <3>4. path[m] \in ids
      BY <1>2
    <3>5. ParentIn(rows, below.at) = {}
      BY <1>1, <1>2, <3>3, <3>4, ParentInRows
    <3>6. NextClimb(rows, below) = below
      BY <3>5, Zenon DEF NextClimb
    <3>7. Along(climb, path, n + 1, m)
      BY <2>2, <2>3, <3>2, <3>6 DEF Along
    <3> QED
      BY <3>1, <3>7
  <2> QED
    BY <2>4, <2>5
<1> HIDE DEF Good
<1>10. Nat \subseteq Good
  BY <1>8, <1>9, AllNumbers
<1>11. Along(climb, path, N, m)
  <2>1. N \in Good /\ N <= N /\ ~(N <= m)
    BY <1>2, <1>3, <1>10
  <2> QED
    BY <2>1 DEF Good
<1>12. climb[N].depth = m
  BY <1>11 DEF Along
<1> QED
  BY <1>6, <1>12

\* Depths by the parents: a root is not indented, a child one more than its
\* parent.
Ranks(d, ids) ==
    \A id \in Rooted(ids) :
        /\ d[id] \in Nat
        /\ ParentOf(id) = Nothing => d[id] = 0
        /\ ParentOf(id) # Nothing => ParentOf(id) \in Rooted(ids) /\ d[id] = d[ParentOf(id)] + 1

LEMMA DepthsRank ==
    ASSUME NEW rows \in SUBSET AnyRow, IsFiniteSet(rows)
    PROVE  Ranks([id \in IdsOfRows(rows) |-> Depth(rows, id)], IdsOfRows(rows))
<1>1. PICK ids : ids = IdsOfRows(rows)
  OBVIOUS
<1>2. PICK d : d = [id \in ids |-> Depth(rows, id)]
  OBVIOUS
<1>3. Nothing \notin ids
  BY <1>1, RowIs DEF IdsOfRows
<1>4. ASSUME NEW id \in Rooted(ids)
      PROVE  /\ d[id] \in Nat
             /\ ParentOf(id) = Nothing => d[id] = 0
             /\ ParentOf(id) # Nothing => ParentOf(id) \in Rooted(ids) /\ d[id] = d[ParentOf(id)] + 1
  <2>1. PICK m, path : IsPath(path, m, id, ids)
    BY PathExists
  <2>2. /\ m \in Nat /\ path \in [0 .. m -> ids] /\ path[0] = id
        /\ \A k \in 0 .. m - 1 : path[k + 1] = ParentOf(path[k])
        /\ ParentOf(path[m]) = Nothing
    BY <2>1 DEF IsPath
  <2>3. id \in ids /\ d[id] = Depth(rows, id)
    BY <1>2, RootedIn
  <2>4. d[id] = m
    BY <1>1, <2>1, <2>3, PathDepth
  <2>5. CASE m = 0
    BY <2>2, <2>4, <2>5
  <2>6. CASE m # 0
    <3>1. 0 \in 0 .. m - 1 /\ 1 \in 0 .. m /\ 0 + 1 = 1 /\ m - 1 \in Nat
      BY <2>2, <2>6
    <3>2. path[1] = ParentOf(id) /\ path[1] \in ids
      BY <2>2, <3>1
    <3>3. ParentOf(id) # Nothing
      BY <1>3, <3>2
    <3>4. ParentOf(id) \in Rooted(ids)
      BY <3>3, RootedUp
    <3> DEFINE rest == [k \in 0 .. m - 1 |-> path[k + 1]]
    <3>5. \A k \in 0 .. m - 1 : k + 1 \in 0 .. m
      BY <2>2
    <3>6. rest \in [0 .. m - 1 -> ids] /\ rest[0] = ParentOf(id)
      BY <2>2, <3>1, <3>2, <3>5
    <3>7. \A k \in 0 .. (m - 1) - 1 : rest[k + 1] = ParentOf(rest[k])
      <4> SUFFICES ASSUME NEW k \in 0 .. (m - 1) - 1
                   PROVE  rest[k + 1] = ParentOf(rest[k])
        OBVIOUS
      <4>1. k \in 0 .. m - 1 /\ k + 1 \in 0 .. m - 1
        BY <2>2
      <4> QED
        BY <2>2, <4>1
    <3>8. ParentOf(rest[m - 1]) = Nothing
      <4>1. m - 1 \in 0 .. m - 1 /\ (m - 1) + 1 = m
        BY <2>2, <3>1
      <4> QED
        BY <2>2, <4>1
    <3> HIDE DEF rest
    <3>9. IsPath(rest, m - 1, ParentOf(id), ids)
      BY <3>1, <3>6, <3>7, <3>8 DEF IsPath
    <3>10. Depth(rows, ParentOf(id)) = m - 1
      BY <1>1, <3>9, PathDepth
    <3>11. d[ParentOf(id)] = m - 1
      BY <1>2, <3>2, <3>10
    <3> QED
      BY <2>2, <2>4, <3>3, <3>4, <3>11
  <2> QED
    BY <2>5, <2>6
<1>5. Ranks(d, ids)
  BY <1>4 DEF Ranks
<1> QED
  BY <1>1, <1>2, <1>5

-----------------------------------------------------------------------------
(* The walk is in preorder, and brothers and sisters in the order of time.   *)

\* The nearest of the first n visited spans that is indented less than a span
\* is its parent.
Under(visited, n, id, d) ==
    \/ ParentOf(id) = Nothing
    \/ \E q \in 1 .. n : /\ visited[q] = ParentOf(id)
                         /\ \A j \in q + 1 .. n : d[visited[q]] < d[visited[j]]

Preorder(walk, d) ==
    /\ \A k \in 1 .. Len(walk.visited) : Under(walk.visited, k - 1, walk.visited[k], d)
    /\ \A m \in 1 .. Len(walk.calls) : Under(walk.visited, Len(walk.visited), walk.calls[m], d)
    /\ \A m1, m2 \in 1 .. Len(walk.calls) : m1 < m2 => d[walk.calls[m2]] <= d[walk.calls[m1]]

Siblings(x, y) == ParentOf(x) = ParentOf(y)

InTime(walk, t) ==
    /\ \A i, j \in 1 .. Len(walk.visited) :
          i < j /\ Siblings(walk.visited[i], walk.visited[j]) => t[walk.visited[i]] <= t[walk.visited[j]]
    /\ \A i \in 1 .. Len(walk.visited), m \in 1 .. Len(walk.calls) :
          Siblings(walk.visited[i], walk.calls[m]) => t[walk.visited[i]] <= t[walk.calls[m]]
    /\ \A m1, m2 \in 1 .. Len(walk.calls) :
          m1 < m2 /\ Siblings(walk.calls[m1], walk.calls[m2]) => t[walk.calls[m1]] <= t[walk.calls[m2]]

Sorted(seq, t) ==
    \A i, j \in 1 .. Len(seq) : i < j => t[seq[i].id] <= t[seq[j].id]

LEMMA FirstInOrder ==
    ASSUME NEW seq \in Seq(AnyRow), NEW d, Ranks(d, IdsIn(seq)), NEW t, NEW walk, walk = FirstCalls(seq)
    PROVE  Preorder(walk, d) /\ (Sorted(seq, t) => InTime(walk, t))
<1>1. PICK calls : calls = Children(seq, Nothing)
  OBVIOUS
<1>2. PICK at : CallsOf(calls, seq, Nothing, at)
  BY <1>1, ChildrenAre
<1>3. walk.visited = <<>> /\ walk.calls = calls
  BY <1>1 DEF FirstCalls
<1>4. PICK N : N = Cardinality(Offspring(seq, Nothing))
  OBVIOUS
<1>5. /\ N \in Nat /\ at \in [1 .. N -> Offspring(seq, Nothing)]
      /\ \A i, j \in 1 .. N : i < j => at[i] < at[j]
      /\ calls = [i \in 1 .. N |-> seq[at[i]].id]
  BY <1>2, <1>4, Zenon DEF CallsOf
<1>6. Len(calls) = N /\ \A i \in 1 .. N : calls[i] = seq[at[i]].id
  BY <1>5
<1>7. \A m \in 1 .. N : calls[m] \in Rooted(IdsIn(seq)) /\ ParentOf(calls[m]) = Nothing
  <2> SUFFICES ASSUME NEW m \in 1 .. N
               PROVE  calls[m] \in Rooted(IdsIn(seq)) /\ ParentOf(calls[m]) = Nothing
    OBVIOUS
  <2>1. at[m] \in Offspring(seq, Nothing)
    BY <1>5
  <2>2. seq[at[m]].id \in Rooted(IdsIn(seq)) /\ ParentOf(seq[at[m]].id) = Nothing
    BY <2>1, CalledAreRooted
  <2> QED
    BY <1>6, <2>2
<1>8. \A m \in 1 .. N : d[calls[m]] = 0
  BY <1>7 DEF Ranks
<1>9. \A i \in 1 .. Len(walk.visited) : FALSE
  BY <1>3
<1>10. \A m1, m2 \in 1 .. N : m1 < m2 => d[calls[m2]] <= d[calls[m1]]
  BY <1>8
<1>11. Preorder(walk, d)
  BY <1>3, <1>6, <1>7, <1>9, <1>10, Zenon DEF Preorder, Under
<1>12. ASSUME Sorted(seq, t)
       PROVE  InTime(walk, t)
  <2>1. \A m1, m2 \in 1 .. N : m1 < m2 => t[calls[m1]] <= t[calls[m2]]
    <3> SUFFICES ASSUME NEW m1 \in 1 .. N, NEW m2 \in 1 .. N, m1 < m2
                 PROVE  t[calls[m1]] <= t[calls[m2]]
      OBVIOUS
    <3>1. at[m1] \in 1 .. Len(seq) /\ at[m2] \in 1 .. Len(seq) /\ at[m1] < at[m2]
      BY <1>5 DEF Offspring
    <3> QED
      BY <1>6, <1>12, <3>1 DEF Sorted
  <2> QED
    BY <1>3, <1>6, <1>9, <2>1, Zenon DEF InTime
<1> QED
  BY <1>11, <1>12

LEMMA DropsInOrder ==
    ASSUME NEW seq \in Seq(AnyRow), NEW before \in Walks, NEW after \in Walks, Drops(before, after),
           NEW d, NEW t
    PROVE  /\ Preorder(before, d) => Preorder(after, d)
           /\ InTime(before, t) => InTime(after, t)
<1>1. PICK C : C = Len(before.calls)
  OBVIOUS
<1>2. /\ C \in Nat /\ C > 0 /\ Len(after.calls) = C - 1 /\ after.visited = before.visited
      /\ \A m \in 1 .. Len(after.calls) : after.calls[m] = before.calls[m + 1]
  BY <1>1, LengthsOf DEF Drops
<1>3. \A m \in 1 .. Len(after.calls) : m + 1 \in 1 .. C /\ m \in Nat
  BY <1>2
<1>4. \A m1, m2 \in 1 .. Len(after.calls) : m1 < m2 => m1 + 1 < m2 + 1
  BY <1>3
<1>5. ASSUME Preorder(before, d)
      PROVE  Preorder(after, d)
  BY <1>1, <1>2, <1>3, <1>4, <1>5, Zenon DEF Preorder
<1>6. ASSUME InTime(before, t)
      PROVE  InTime(after, t)
  BY <1>1, <1>2, <1>3, <1>4, <1>6, Zenon DEF InTime
<1> QED
  BY <1>5, <1>6

LEMMA VisitsPreorder ==
    ASSUME NEW seq \in Seq(AnyRow), NEW before \in Walks, NEW after \in Walks, NEW at,
           Reached(seq, before), Visits(seq, before, after, at),
           NEW d, Ranks(d, IdsIn(seq)), Preorder(before, d)
    PROVE  Preorder(after, d)
<1>1. PICK called : called = before.calls[1]
  OBVIOUS
<1>2. PICK L : L = Cardinality(Offspring(seq, called))
  OBVIOUS
<1>3. PICK V : V = Len(before.visited)
  OBVIOUS
<1>4. PICK C : C = Len(before.calls)
  OBVIOUS
<1>5. /\ C > 0 /\ Len(after.visited) = V + 1 /\ after.visited[V + 1] = called
      /\ \A i \in 1 .. V : after.visited[i] = before.visited[i]
      /\ L \in Nat
  BY <1>1, <1>2, <1>3, <1>4, Zenon DEF Visits
<1>6. V \in Nat /\ C \in Nat
  BY <1>3, <1>4, LengthsOf
<1>7. 1 \in 1 .. C /\ called \in Rooted(IdsIn(seq))
  BY <1>1, <1>4, <1>5, <1>6 DEF Reached
<1>8. \A m \in 1 .. Len(after.calls) :
         \/ m \in 1 .. L /\ at[m] \in Offspring(seq, called) /\ after.calls[m] = seq[at[m]].id
         \/ m \in L + 1 .. Len(after.calls) /\ m - L + 1 \in 2 .. C /\ after.calls[m] = before.calls[m - L + 1]
  BY <1>1, <1>2, <1>4, VisitedCalls
<1>9. d[called] \in Nat
  BY <1>7 DEF Ranks
<1>10. ASSUME NEW m \in 1 .. L, at[m] \in Offspring(seq, called), after.calls[m] = seq[at[m]].id
       PROVE  ParentOf(after.calls[m]) = called /\ d[after.calls[m]] = d[called] + 1
  <2>1. seq[at[m]].id \in Rooted(IdsIn(seq)) /\ ParentOf(seq[at[m]].id) = called
    BY <1>7, <1>10, CalledAreRooted
  <2>2. called # Nothing
    <3>1. PICK i \in 1 .. Len(seq) : called = seq[i].id
      BY <1>7, RootedIn DEF IdsIn
    <3> QED
      BY <3>1, SequenceRows
  <2> QED
    BY <1>10, <2>1, <2>2 DEF Ranks
<1>11. \A x \in 2 .. C : /\ x \in 1 .. C /\ 1 < x
                         /\ before.calls[x] \in Rooted(IdsIn(seq)) /\ d[before.calls[x]] \in Nat
                         /\ d[before.calls[x]] <= d[called]
  <2> SUFFICES ASSUME NEW x \in 2 .. C
               PROVE  /\ x \in 1 .. C /\ 1 < x
                      /\ before.calls[x] \in Rooted(IdsIn(seq)) /\ d[before.calls[x]] \in Nat
                      /\ d[before.calls[x]] <= d[called]
    OBVIOUS
  <2>1. x \in 1 .. C /\ 1 < x
    BY <1>6
  <2>2. before.calls[x] \in Rooted(IdsIn(seq))
    BY <1>4, <2>1 DEF Reached
  <2>3. d[before.calls[x]] <= d[called]
    BY <1>1, <1>4, <1>7, <2>1 DEF Preorder
  <2> QED
    BY <2>1, <2>2, <2>3 DEF Ranks
<1>12. \A k \in 1 .. V + 1 : Under(after.visited, k - 1, after.visited[k], d)
  <2>1. ASSUME NEW k \in 1 .. V
        PROVE  Under(after.visited, k - 1, after.visited[k], d)
    <3>1. Under(before.visited, k - 1, before.visited[k], d)
      BY <1>3 DEF Preorder
    <3>2. \A q \in 1 .. k - 1 : after.visited[q] = before.visited[q]
      BY <1>5, <1>6
    <3>3. after.visited[k] = before.visited[k]
      BY <1>5
    <3>4. \A q \in 1 .. k - 1 : \A j \in q + 1 .. k - 1 : after.visited[j] = before.visited[j]
      BY <3>2
    <3> QED
      BY <3>1, <3>2, <3>3, <3>4, Zenon DEF Under
  <2>2. Under(after.visited, V, called, d)
    <3>1. Under(before.visited, V, called, d)
      BY <1>1, <1>3, <1>4, <1>7 DEF Preorder
    <3>2. \A q \in 1 .. V : \A j \in q + 1 .. V : after.visited[j] = before.visited[j]
      BY <1>5, <1>6
    <3> QED
      BY <1>5, <3>1, <3>2, Zenon DEF Under
  <2>3. \A k \in 1 .. V + 1 : k \in 1 .. V \/ (k = V + 1 /\ k - 1 = V)
    BY <1>6
  <2> QED
    BY <1>5, <2>1, <2>2, <2>3
<1>13. \A m \in 1 .. Len(after.calls) : Under(after.visited, V + 1, after.calls[m], d)
  <2> SUFFICES ASSUME NEW m \in 1 .. Len(after.calls)
               PROVE  Under(after.visited, V + 1, after.calls[m], d)
    OBVIOUS
  <2>1. CASE m \in 1 .. L /\ at[m] \in Offspring(seq, called) /\ after.calls[m] = seq[at[m]].id
    <3>1. ParentOf(after.calls[m]) = called
      BY <1>10, <2>1
    <3>2. V + 1 \in 1 .. V + 1 /\ \A j \in (V + 1) + 1 .. V + 1 : FALSE
      BY <1>6
    <3> QED
      BY <1>5, <3>1, <3>2, Zenon DEF Under
  <2>2. CASE m - L + 1 \in 2 .. C /\ after.calls[m] = before.calls[m - L + 1]
    <3>1. PICK x \in 2 .. C : after.calls[m] = before.calls[x]
      BY <2>2
    <3>2. PICK id : id = before.calls[x]
      OBVIOUS
    <3>3. /\ Under(before.visited, V, id, d)
          /\ id \in Rooted(IdsIn(seq)) /\ d[id] \in Nat /\ d[id] <= d[called]
      BY <1>3, <1>4, <1>11, <3>2 DEF Preorder
    <3>4. CASE ParentOf(id) = Nothing
      BY <3>1, <3>2, <3>4 DEF Under
    <3>5. CASE ParentOf(id) # Nothing
      <4>1. PICK q \in 1 .. V : /\ before.visited[q] = ParentOf(id)
                                /\ \A j \in q + 1 .. V : d[before.visited[q]] < d[before.visited[j]]
        BY <3>3, <3>5 DEF Under
      <4>2. d[id] = d[ParentOf(id)] + 1 /\ d[ParentOf(id)] \in Nat
        BY <3>3, <3>5 DEF Ranks
      <4>3. d[before.visited[q]] < d[called]
        BY <1>9, <3>3, <4>1, <4>2
      <4>4. q \in 1 .. V + 1 /\ after.visited[q] = before.visited[q]
        BY <1>5, <1>6
      <4>5. ASSUME NEW j \in q + 1 .. V + 1
            PROVE  d[after.visited[q]] < d[after.visited[j]]
        <5>1. CASE j = V + 1
          BY <1>5, <4>3, <4>4, <5>1
        <5>2. CASE j # V + 1
          <6>1. j \in q + 1 .. V /\ j \in 1 .. V
            BY <1>6, <5>2
          <6> QED
            BY <1>5, <4>1, <4>4, <6>1
        <5> QED
          BY <5>1, <5>2
      <4> QED
        BY <3>1, <3>2, <4>1, <4>4, <4>5, Zenon DEF Under
    <3> QED
      BY <3>4, <3>5
  <2> QED
    BY <1>8, <2>1, <2>2
<1>14. ASSUME NEW m1 \in 1 .. Len(after.calls), NEW m2 \in 1 .. Len(after.calls), m1 < m2
       PROVE  d[after.calls[m2]] <= d[after.calls[m1]]
  <2>1. CASE m1 \in 1 .. L /\ at[m1] \in Offspring(seq, called) /\ after.calls[m1] = seq[at[m1]].id
    <3>1. d[after.calls[m1]] = d[called] + 1
      BY <1>10, <2>1
    <3>2. CASE m2 \in 1 .. L /\ at[m2] \in Offspring(seq, called) /\ after.calls[m2] = seq[at[m2]].id
      <4>1. d[after.calls[m2]] = d[called] + 1
        BY <1>10, <3>2
      <4> QED
        BY <1>9, <3>1, <4>1
    <3>3. CASE m2 - L + 1 \in 2 .. C /\ after.calls[m2] = before.calls[m2 - L + 1]
      <4>1. d[after.calls[m2]] \in Nat /\ d[after.calls[m2]] <= d[called]
        BY <1>11, <3>3
      <4> QED
        BY <1>9, <3>1, <4>1
    <3> QED
      BY <1>8, <3>2, <3>3
  <2>2. CASE m1 \in L + 1 .. Len(after.calls) /\ m1 - L + 1 \in 2 .. C /\ after.calls[m1] = before.calls[m1 - L + 1]
    <3>1. ~(m2 \in 1 .. L)
      BY <1>5, <1>14, <2>2
    <3>2. m2 - L + 1 \in 2 .. C /\ after.calls[m2] = before.calls[m2 - L + 1]
      BY <1>8, <3>1
    <3>3. m1 - L + 1 < m2 - L + 1
      BY <1>5, <1>14
    <3>4. m1 - L + 1 \in 1 .. C /\ m2 - L + 1 \in 1 .. C
      BY <1>11, <2>2, <3>2
    <3> QED
      BY <1>4, <2>2, <3>2, <3>3, <3>4 DEF Preorder
  <2> QED
    BY <1>8, <2>1, <2>2
<1> QED
  BY <1>5, <1>12, <1>13, <1>14, Zenon DEF Preorder


LEMMA VisitsInTime ==
    ASSUME NEW seq \in Seq(AnyRow), NEW before \in Walks, NEW after \in Walks, NEW at,
           Reached(seq, before), Visits(seq, before, after, at),
           NEW d, Ranks(d, IdsIn(seq)), Preorder(before, d),
           NEW t, Sorted(seq, t), InTime(before, t)
    PROVE  InTime(after, t)
<1>1. PICK called : called = before.calls[1]
  OBVIOUS
<1>2. PICK L : L = Cardinality(Offspring(seq, called))
  OBVIOUS
<1>3. PICK V : V = Len(before.visited)
  OBVIOUS
<1>4. PICK C : C = Len(before.calls)
  OBVIOUS
<1>5. /\ C > 0 /\ ~Among(called, before.visited)
      /\ Len(after.visited) = V + 1 /\ after.visited[V + 1] = called
      /\ \A i \in 1 .. V : after.visited[i] = before.visited[i]
      /\ L \in Nat
      /\ \A i, j \in 1 .. L : i < j => at[i] < at[j]
  BY <1>1, <1>2, <1>3, <1>4, Zenon DEF Visits
<1>6. V \in Nat /\ C \in Nat
  BY <1>3, <1>4, LengthsOf
<1>7. 1 \in 1 .. C /\ called \in Rooted(IdsIn(seq))
  BY <1>1, <1>4, <1>5, <1>6 DEF Reached
<1>8. \A m \in 1 .. Len(after.calls) :
         \/ m \in 1 .. L /\ at[m] \in Offspring(seq, called) /\ after.calls[m] = seq[at[m]].id
         \/ m \in L + 1 .. Len(after.calls) /\ m - L + 1 \in 2 .. C /\ after.calls[m] = before.calls[m - L + 1]
  BY <1>1, <1>2, <1>4, VisitedCalls
<1>9. called # Nothing
  <2>1. PICK i \in 1 .. Len(seq) : called = seq[i].id
    BY <1>7, RootedIn DEF IdsIn
  <2> QED
    BY <2>1, SequenceRows
<1>10. ParentOf(called) # called
  BY <1>7, <1>9 DEF Ranks
<1>11. \A i \in 1 .. V : ParentOf(before.visited[i]) # called
  <2> SUFFICES ASSUME NEW i \in 1 .. V, ParentOf(before.visited[i]) = called
               PROVE  FALSE
    OBVIOUS
  <2>1. Under(before.visited, i - 1, before.visited[i], d)
    BY <1>3 DEF Preorder
  <2>2. PICK q \in 1 .. i - 1 : before.visited[q] = called
    BY <1>9, <2>1 DEF Under
  <2>3. q \in 1 .. V
    BY <1>6
  <2> QED
    BY <1>3, <1>5, <2>2, <2>3 DEF Among
<1>12. \A x \in 1 .. C : ParentOf(before.calls[x]) # called
  <2> SUFFICES ASSUME NEW x \in 1 .. C, ParentOf(before.calls[x]) = called
               PROVE  FALSE
    OBVIOUS
  <2>1. Under(before.visited, V, before.calls[x], d)
    BY <1>3, <1>4 DEF Preorder
  <2>2. PICK q \in 1 .. V : before.visited[q] = called
    BY <1>9, <2>1 DEF Under
  <2> QED
    BY <1>3, <1>5, <2>2 DEF Among
<1>13. \A m \in 1 .. L : at[m] \in Offspring(seq, called) /\ after.calls[m] = seq[at[m]].id
          => ParentOf(after.calls[m]) = called
  BY <1>7, CalledAreRooted
<1>14. \A x \in 2 .. C : x \in 1 .. C /\ 1 < x
  BY <1>6
<1>15. ASSUME NEW i \in 1 .. V + 1, NEW j \in 1 .. V + 1, i < j,
              Siblings(after.visited[i], after.visited[j])
       PROVE  t[after.visited[i]] <= t[after.visited[j]]
  <2>1. i \in 1 .. V /\ after.visited[i] = before.visited[i]
    BY <1>5, <1>6, <1>15
  <2>2. CASE j \in 1 .. V
    BY <1>3, <1>5, <1>15, <2>1, <2>2 DEF InTime
  <2>3. CASE j = V + 1
    BY <1>1, <1>3, <1>4, <1>5, <1>7, <1>15, <2>1, <2>3 DEF InTime
  <2> QED
    BY <1>6, <2>2, <2>3
<1>16. ASSUME NEW i \in 1 .. V + 1, NEW m \in 1 .. Len(after.calls),
              Siblings(after.visited[i], after.calls[m])
       PROVE  t[after.visited[i]] <= t[after.calls[m]]
  <2>1. (i \in 1 .. V /\ after.visited[i] = before.visited[i]) \/ after.visited[i] = called
    BY <1>5, <1>6
  <2>2. ParentOf(after.visited[i]) # called
    BY <1>10, <1>11, <2>1
  <2>3. m - L + 1 \in 2 .. C /\ after.calls[m] = before.calls[m - L + 1]
    BY <1>8, <1>13, <1>16, <2>2 DEF Siblings
  <2>4. m - L + 1 \in 1 .. C /\ 1 < m - L + 1
    BY <1>14, <2>3
  <2>5. CASE i \in 1 .. V /\ after.visited[i] = before.visited[i]
    BY <1>3, <1>4, <1>16, <2>3, <2>4, <2>5 DEF InTime
  <2>6. CASE after.visited[i] = called
    BY <1>1, <1>4, <1>7, <1>16, <2>3, <2>4, <2>6 DEF InTime
  <2> QED
    BY <2>1, <2>5, <2>6
<1>17. ASSUME NEW m1 \in 1 .. Len(after.calls), NEW m2 \in 1 .. Len(after.calls), m1 < m2,
              Siblings(after.calls[m1], after.calls[m2])
       PROVE  t[after.calls[m1]] <= t[after.calls[m2]]
  <2>1. CASE m1 \in 1 .. L /\ at[m1] \in Offspring(seq, called) /\ after.calls[m1] = seq[at[m1]].id
    <3>1. ParentOf(after.calls[m2]) = called
      BY <1>13, <1>17, <2>1 DEF Siblings
    <3>2. m2 \in 1 .. L /\ at[m2] \in Offspring(seq, called) /\ after.calls[m2] = seq[at[m2]].id
      BY <1>8, <1>12, <1>14, <3>1
    <3>3. at[m1] < at[m2] /\ at[m1] \in 1 .. Len(seq) /\ at[m2] \in 1 .. Len(seq)
      BY <1>5, <1>17, <2>1, <3>2 DEF Offspring
    <3> QED
      BY <2>1, <3>2, <3>3 DEF Sorted
  <2>2. CASE m1 \in L + 1 .. Len(after.calls) /\ m1 - L + 1 \in 2 .. C /\ after.calls[m1] = before.calls[m1 - L + 1]
    <3>1. ~(m2 \in 1 .. L)
      BY <1>5, <1>17, <2>2
    <3>2. m2 - L + 1 \in 2 .. C /\ after.calls[m2] = before.calls[m2 - L + 1]
      BY <1>8, <3>1
    <3>3. m1 - L + 1 < m2 - L + 1
      BY <1>5, <1>17
    <3>4. m1 - L + 1 \in 1 .. C /\ m2 - L + 1 \in 1 .. C
      BY <1>14, <2>2, <3>2
    <3> QED
      BY <1>4, <1>17, <2>2, <3>2, <3>3, <3>4 DEF InTime
  <2> QED
    BY <1>8, <2>1, <2>2
<1> QED
  BY <1>5, <1>15, <1>16, <1>17, Zenon DEF InTime

LEMMA WalkInOrder ==
    ASSUME NEW seq \in Seq(AnyRow), NEW walk, IsWalk(walk, seq),
           NEW d, Ranks(d, IdsIn(seq)), NEW t
    PROVE  \A n \in 0 .. Len(seq) : Preorder(walk[n], d) /\ (Sorted(seq, t) => InTime(walk[n], t))
<1> DEFINE N == Len(seq)
           Good == {n \in Nat : n <= N => Preorder(walk[n], d) /\ (Sorted(seq, t) => InTime(walk[n], t))}
<1>1. N \in Nat
  OBVIOUS
<1>2. 0 \in Good
  <2>1. walk[0] = FirstCalls(seq)
    BY DEF IsWalk
  <2> QED
    BY <2>1, FirstInOrder
<1>3. \A n \in Nat : n \in Good => n + 1 \in Good
  <2> SUFFICES ASSUME NEW n \in Nat, n \in Good, n + 1 <= N
               PROVE  Preorder(walk[n + 1], d) /\ (Sorted(seq, t) => InTime(walk[n + 1], t))
    OBVIOUS
  <2>1. n \in 0 .. N /\ n + 1 \in 1 .. N /\ n + 1 \in 0 .. N /\ (n + 1) - 1 = n
    BY <1>1
  <2>2. PICK before : before = walk[n]
    OBVIOUS
  <2>3. PICK after : after = walk[n + 1]
    OBVIOUS
  <2>4. after = NextCall(seq, before) /\ before \in Walks /\ after \in Walks
    BY <2>1, <2>2, <2>3, Zenon DEF IsWalk
  <2>5. Preorder(before, d) /\ (Sorted(seq, t) => InTime(before, t))
    BY <2>1, <2>2
  <2>6. Reached(seq, before)
    BY <2>1, <2>2, WalkReaches
  <2> HIDE DEF Good, N
  <2>7. \/ Len(before.calls) = 0 /\ after = before
        \/ Drops(before, after)
        \/ \E at : Visits(seq, before, after, at)
    BY <2>4, NextCallIs
  <2>8. CASE Len(before.calls) = 0 /\ after = before
    BY <2>3, <2>5, <2>8
  <2>9. CASE Drops(before, after)
    <3>1. /\ Preorder(before, d) => Preorder(after, d)
          /\ InTime(before, t) => InTime(after, t)
      BY <2>4, <2>9, DropsInOrder
    <3> QED
      BY <2>3, <2>5, <3>1
  <2>10. CASE \E at : Visits(seq, before, after, at)
    <3>1. PICK at : Visits(seq, before, after, at)
      BY <2>10
    <3>2. Preorder(after, d)
      BY <2>4, <2>5, <2>6, <3>1, VisitsPreorder
    <3>3. Sorted(seq, t) => InTime(after, t)
      BY <2>4, <2>5, <2>6, <3>1, VisitsInTime
    <3> QED
      BY <2>3, <3>2, <3>3
  <2> QED
    BY <2>7, <2>8, <2>9, <2>10
<1> HIDE DEF Good
<1>4. Nat \subseteq Good
  BY <1>2, <1>3, AllNumbers
<1> QED
  BY <1>1, <1>4 DEF Good

\* The visited spans in preorder, brothers and sisters in the order of time.
LEMMA VisitedInOrder ==
    ASSUME NEW seq \in Seq(AnyRow), NEW d, Ranks(d, IdsIn(seq)), NEW t,
           NEW visited, visited = Visited(seq)
    PROVE  /\ \A k \in 1 .. Len(visited) : Under(visited, k - 1, visited[k], d)
           /\ Sorted(seq, t) =>
                \A i, j \in 1 .. Len(visited) :
                    i < j /\ Siblings(visited[i], visited[j]) => t[visited[i]] <= t[visited[j]]
<1>1. PICK walk : IsWalk(walk, seq) /\ Visited(seq) = walk[Len(seq)].visited
  BY WalkIs
<1>2. Len(seq) \in 0 .. Len(seq)
  OBVIOUS
<1>3. PICK last : last = walk[Len(seq)]
  OBVIOUS
<1>4. Preorder(last, d) /\ (Sorted(seq, t) => InTime(last, t))
  BY <1>1, <1>2, <1>3, WalkInOrder
<1>5. visited = last.visited
  BY <1>1, <1>3
<1> QED
  BY <1>4, <1>5 DEF Preorder, InTime


-----------------------------------------------------------------------------
(* The outline.                                                              *)

\* What OutlineReads says of an outline.
Readable(outline, timed) ==
    LET Row(i) == outline[i]
        lines == DOMAIN outline
        rooted == {i \in lines : Row(i).id \in Rooted({outline[j].id : j \in DOMAIN outline})}
    IN  /\ \A i, j \in lines : Row(i).id = Row(j).id => i = j
        /\ \A i \in rooted :
              LET above == {j \in 1 .. i - 1 : Row(j).depth < Row(i).depth}
                  parent == SpanWith(Row(i).id).parent
              IN  IF parent = Nothing THEN Row(i).depth = 0
                  ELSE above # {} /\ Row(Max(above)).id = parent
        /\ timed =>
              \A i, j \in rooted :
                  /\ SpanWith(Row(i).id).parent = SpanWith(Row(j).id).parent
                  /\ i < j
                  => SpanWith(Row(i).id).start \div Milli <= SpanWith(Row(j).id).start \div Milli

\* The time of a span in milliseconds.
TimeOf(id) == SpanWith(id).start \div Milli

\* Rows in the order of their time are spans in the order of theirs.
LEMMA RowsSorted ==
    ASSUME NEW rows \in SUBSET AnyRow, NEW seq,
           IsOrder(seq, rows, [row \in rows |-> row.timestamp])
    PROVE  Sorted(seq, [id \in IdsIn(seq) |-> TimeOf(id)])
<1>1. PICK key : key = [row \in rows |-> row.timestamp]
  OBVIOUS
<1>2. PICK t : t = [id \in IdsIn(seq) |-> TimeOf(id)]
  OBVIOUS
<1>3. seq \in Seq(rows) /\ \A i, j \in 1 .. Len(seq) : i < j => key[seq[i]] <= key[seq[j]]
  BY <1>1, Zenon DEF IsOrder, Ordered
<1>4. ASSUME NEW i \in 1 .. Len(seq)
      PROVE  t[seq[i].id] = key[seq[i]]
  <2>1. seq[i] \in rows /\ seq[i] \in AnyRow
    BY <1>3
  <2>2. seq[i].timestamp = seq[i].span.start \div Milli /\ seq[i].span = SpanWith(seq[i].id)
    BY <2>1, RowIs DEF TellsOf
  <2>3. seq[i].id \in IdsIn(seq)
    BY DEF IdsIn
  <2> QED
    BY <1>1, <1>2, <2>1, <2>2, <2>3 DEF TimeOf
<1> QED
  BY <1>2, <1>3, <1>4 DEF Sorted

LEMMA OutlineIs ==
    ASSUME NEW rows \in SUBSET AnyRow, IsFiniteSet(rows),
           NEW key, \A row \in rows : key[row] \in Nat,
           NEW seq \in InOrder(rows, key), NEW ids \in InHierarchy(seq),
           NEW timed \in BOOLEAN, timed => key = [row \in rows |-> row.timestamp]
    PROVE  Readable([i \in DOMAIN ids |-> [id |-> ids[i], depth |-> [x \in IdsOfRows(rows) |-> Depth(rows, x)][ids[i]]]],
                    timed)
<1>1. PICK d : d = [x \in IdsOfRows(rows) |-> Depth(rows, x)]
  OBVIOUS
<1>2. PICK outline : outline = [i \in DOMAIN ids |-> [id |-> ids[i], depth |-> d[ids[i]]]]
  OBVIOUS
<1>3. IsOrder(seq, rows, key)
  BY InOrderIs
<1>4. seq \in Seq(rows) /\ ToSet(seq) = rows
  BY <1>3, Zenon DEF IsOrder, Ordered
<1>5. seq \in Seq(AnyRow)
  BY <1>4
<1>6. IdsIn(seq) = IdsOfRows(rows)
  <2>1. rows = {seq[i] : i \in 1 .. Len(seq)}
    BY <1>4 DEF ToSet
  <2> QED
    BY <2>1 DEF IdsIn, IdsOfRows
<1>7. PICK visited : visited = Visited(seq)
  OBVIOUS
<1>8. PICK N : N = Len(ids)
  OBVIOUS
<1>9. PICK V : V = Len(visited)
  OBVIOUS
<1>10. /\ ids \in Seq(Ids) /\ ToSet(ids) = IdsIn(seq)
       /\ \A i, j \in 1 .. N : ids[i] = ids[j] => i = j
       /\ V \in 0 .. N
       /\ \A i \in 1 .. V : ids[i] = visited[i]
       /\ \A i \in 1 .. N : ids[i] \in Rooted(IdsIn(seq)) => i <= V
  <2>1. IsHierarchy(ids, seq)
    BY <1>5, HierarchyIs
  <2> QED
    BY <1>7, <1>8, <1>9, <2>1, Zenon DEF IsHierarchy
<1>11. DOMAIN ids = 1 .. N /\ N \in Nat
  BY <1>8, <1>10
<1>12. DOMAIN outline = 1 .. N /\ \A i \in 1 .. N : outline[i].id = ids[i] /\ outline[i].depth = d[ids[i]]
  BY <1>2, <1>11
<1>13. {outline[i].id : i \in DOMAIN outline} = IdsIn(seq)
  <2>1. IdsIn(seq) = {ids[i] : i \in 1 .. N}
    BY <1>10, <1>11 DEF ToSet
  <2> QED
    BY <1>12, <2>1
<1>14. Ranks(d, IdsIn(seq))
  BY <1>1, <1>6, DepthsRank
<1>15. \A i \in 1 .. V : visited[i] \in Rooted(IdsIn(seq)) /\ i \in 1 .. N
  <2>1. \A id : Among(id, visited) => id \in Rooted(IdsIn(seq))
    BY <1>5, <1>7, VisitsRooted
  <2> QED
    BY <1>9, <1>10, <1>11, <2>1 DEF Among
<1>16. PICK t : t = [id \in IdsIn(seq) |-> TimeOf(id)]
  OBVIOUS
<1>17. /\ \A k \in 1 .. V : Under(visited, k - 1, visited[k], d)
       /\ Sorted(seq, t) => \A i, j \in 1 .. V : i < j /\ Siblings(visited[i], visited[j]) => t[visited[i]] <= t[visited[j]]
  BY <1>5, <1>7, <1>9, <1>14, VisitedInOrder
<1>18. PICK rooted : rooted = {i \in DOMAIN outline : outline[i].id \in Rooted({outline[j].id : j \in DOMAIN outline})}
  OBVIOUS
<1>19. \A i \in rooted : i \in 1 .. V /\ i \in 1 .. N /\ outline[i].id = visited[i] /\ outline[i].depth = d[visited[i]]
  <2> SUFFICES ASSUME NEW i \in rooted
               PROVE  i \in 1 .. V /\ i \in 1 .. N /\ outline[i].id = visited[i] /\ outline[i].depth = d[visited[i]]
    OBVIOUS
  <2>1. i \in 1 .. N /\ ids[i] \in Rooted(IdsIn(seq))
    BY <1>12, <1>13, <1>18
  <2>2. i \in 1 .. V
    BY <1>10, <1>11, <2>1
  <2> QED
    BY <1>10, <1>12, <2>1, <2>2
<1>20. \A i, j \in DOMAIN outline : outline[i].id = outline[j].id => i = j
  BY <1>10, <1>12
<1>21. ASSUME NEW i \in rooted
       PROVE  LET above == {j \in 1 .. i - 1 : outline[j].depth < outline[i].depth}
                  parent == SpanWith(outline[i].id).parent
              IN  IF parent = Nothing THEN outline[i].depth = 0
                  ELSE above # {} /\ outline[Max(above)].id = parent
  <2>1. i \in 1 .. V /\ outline[i].id = visited[i] /\ outline[i].depth = d[visited[i]]
    BY <1>19
  <2>2. PICK above : above = {j \in 1 .. i - 1 : outline[j].depth < outline[i].depth}
    OBVIOUS
  <2>3. visited[i] \in Rooted(IdsIn(seq)) /\ ParentOf(visited[i]) = SpanWith(outline[i].id).parent
    BY <1>15, <2>1 DEF ParentOf
  <2>4. CASE ParentOf(visited[i]) = Nothing
    BY <1>14, <2>1, <2>3, <2>4 DEF Ranks
  <2>5. CASE ParentOf(visited[i]) # Nothing
    <3>1. /\ d[visited[i]] \in Nat /\ d[ParentOf(visited[i])] \in Nat
          /\ d[visited[i]] = d[ParentOf(visited[i])] + 1
      BY <1>14, <2>3, <2>5 DEF Ranks
    <3>2. Under(visited, i - 1, visited[i], d)
      BY <1>17, <2>1
    <3>3. PICK q \in 1 .. i - 1 : /\ visited[q] = ParentOf(visited[i])
                                  /\ \A j \in q + 1 .. i - 1 : d[visited[q]] < d[visited[j]]
      BY <2>5, <3>2 DEF Under
    <3>4. i \in Nat /\ i <= V /\ V \in Nat
      BY <1>10, <1>11, <2>1
    <3>5. \A j \in 1 .. i - 1 : /\ j \in Nat /\ j \in 1 .. V
                                /\ outline[j].id = visited[j] /\ outline[j].depth = d[visited[j]]
                                /\ d[visited[j]] \in Nat
      <4> SUFFICES ASSUME NEW j \in 1 .. i - 1
                   PROVE  /\ j \in Nat /\ j \in 1 .. V
                          /\ outline[j].id = visited[j] /\ outline[j].depth = d[visited[j]]
                          /\ d[visited[j]] \in Nat
        OBVIOUS
      <4>1. j \in Nat /\ j \in 1 .. V
        BY <3>4
      <4>2. d[visited[j]] \in Nat
        BY <1>14, <1>15, <4>1 DEF Ranks
      <4> QED
        BY <1>10, <1>12, <1>15, <4>1, <4>2
    <3>6. q \in above
      BY <2>1, <2>2, <3>1, <3>3, <3>5
    <3>7. \A j \in above : j <= q
      <4> SUFFICES ASSUME NEW j \in 1 .. i - 1, d[visited[j]] < d[visited[i]], q < j
                   PROVE  FALSE
        BY <2>1, <2>2, <3>4, <3>5
      <4>1. j \in q + 1 .. i - 1
        BY <3>4
      <4> QED
        BY <3>1, <3>3, <3>5, <4>1
    <3>8. above \in SUBSET Nat /\ q \in Nat
      BY <2>2, <3>5
    <3>9. Max(above) \in above /\ \A j \in above : j <= Max(above)
      BY <3>6, <3>7, <3>8, MaxIs
    <3>10. Max(above) = q
      <4>1. Max(above) <= q /\ q <= Max(above) /\ Max(above) \in Nat
        BY <3>6, <3>7, <3>8, <3>9
      <4> QED
        BY <3>8, <4>1
    <3> QED
      BY <2>2, <2>3, <2>5, <3>3, <3>5, <3>6, <3>10
  <2> QED
    BY <2>4, <2>5
<1>22. ASSUME timed, NEW i \in rooted, NEW j \in rooted, i < j,
              SpanWith(outline[i].id).parent = SpanWith(outline[j].id).parent
       PROVE  SpanWith(outline[i].id).start \div Milli <= SpanWith(outline[j].id).start \div Milli
  <2>1. Sorted(seq, t)
    BY <1>3, <1>16, <1>22, RowsSorted
  <2>2. /\ i \in 1 .. V /\ outline[i].id = visited[i] /\ visited[i] \in IdsIn(seq)
        /\ j \in 1 .. V /\ outline[j].id = visited[j] /\ visited[j] \in IdsIn(seq)
    BY <1>15, <1>19, RootedIn
  <2>3. Siblings(visited[i], visited[j])
    BY <1>22, <2>2 DEF Siblings, ParentOf
  <2>4. t[visited[i]] <= t[visited[j]]
    BY <1>17, <1>22, <2>1, <2>2, <2>3
  <2> QED
    BY <1>16, <2>2, <2>4 DEF TimeOf
<1>23. Readable(outline, timed)
  BY <1>18, <1>20, <1>21, <1>22, Zenon DEF Readable
<1> QED
  BY <1>1, <1>2, <1>23


LEMMA OutlineShows ==
    ASSUME NEW rows \in SUBSET AnyRow, IsFiniteSet(rows),
           NEW key, \A row \in rows : key[row] \in Nat,
           NEW seq \in InOrder(rows, key), NEW ids \in InHierarchy(seq)
    PROVE  ids \in Seq(Ids) /\ {ids[i] : i \in DOMAIN ids} = IdsOfRows(rows)
<1>1. IsOrder(seq, rows, key)
  BY InOrderIs
<1>2. seq \in Seq(rows) /\ ToSet(seq) = rows
  BY <1>1, Zenon DEF IsOrder, Ordered
<1>3. seq \in Seq(AnyRow)
  BY <1>2
<1>4. rows = {seq[i] : i \in 1 .. Len(seq)}
  BY <1>2 DEF ToSet
<1>5. IdsIn(seq) = IdsOfRows(rows)
  BY <1>4 DEF IdsIn, IdsOfRows
<1>6. ids \in Seq(Ids) /\ ToSet(ids) = IdsIn(seq)
  <2>1. IsHierarchy(ids, seq)
    BY <1>3, HierarchyIs
  <2> QED
    BY <2>1, Zenon DEF IsHierarchy
<1> QED
  BY <1>5, <1>6 DEF ToSet

-----------------------------------------------------------------------------
(* What the client sees.                                                     *)

\* The client's rows, and those of one trace.
TenantRows(s) == {row \in RowsStored(s) : row.tenant = Tenant}

TraceRows(s, t) == {row \in RowsStored(s) : row.tenant = Tenant /\ row.trace = t}

\* A statement returns rows of the client, each once.
ReturnedIs(seq, s) ==
    /\ seq \in Seq(TenantRows(s))
    /\ \A i, j \in 1 .. Len(seq) : seq[i] = seq[j] => i = j

\* A value is one of the client's rows in the time of the list.
ListedIs(list, s) ==
    \A value \in list.values :
        \E row \in TenantRows(s) : /\ row.timestamp \in list.from .. list.to
                                   /\ TextOf(row, TagColumn(list.tag)) = value

\* The rows a trace is shown from: each once, all that the search has seen.
ShownFrom(seq, s, t, seen) ==
    /\ seq \in Seq(TraceRows(s, t))
    /\ \A i, j \in 1 .. Len(seq) : seq[i] = seq[j] => i = j
    /\ \A i \in 1 .. Len(seen) : seen[i].trace = t => Among(seen[i], seq)

OpenedIs(open, seen, s, timed) ==
    /\ open.trace \in Traces \cup {Nothing}
    /\ open.status = "not found" => \A i \in 1 .. Len(seen) : seen[i].trace # open.trace
    /\ open.status = "ok" =>
          open.trace \in Traces /\ Shown(open) \subseteq IdsOfRows(TraceRows(s, open.trace))
    /\ open.status = "ok" /\ open.view = "trace" =>
          \E seq : ShownFrom(seq, s, open.trace, seen) /\ open.batches = BatchesOf(seq)
    /\ open.status = "ok" /\ open.view = "outline" => Readable(open.outline, timed)

ViewsTrue ==
    /\ Counted(stored) /\ quoted \in BOOLEAN
    /\ ReturnedIs(returned, stored) /\ found = Summaries(returned)
    /\ ListedIs(listed, stored)
    /\ OpenedIs(opened, returned, stored, ~quoted)

LEMMA TraceRowsAre ==
    ASSUME NEW s, Counted(s), NEW t
    PROVE  /\ TraceRows(s, t) \in SUBSET AnyRow /\ IsFiniteSet(TraceRows(s, t))
           /\ TenantRows(s) \in SUBSET AnyRow /\ IsFiniteSet(TenantRows(s))
<1>1. RowsStored(s) \subseteq AnyRow /\ IsFiniteSet(RowsStored(s))
  BY CountedRows DEF Counted
<1>2. TraceRows(s, t) \in SUBSET RowsStored(s) /\ TenantRows(s) \in SUBSET RowsStored(s)
  BY DEF TraceRows, TenantRows
<1> QED
  BY <1>1, <1>2, FS_Subset

\* What the client sees stays true when rows are added.
LEMMA MoreRows ==
    ASSUME NEW s, NEW t, RowsStored(s) \subseteq RowsStored(t)
    PROVE  /\ \A seq : ReturnedIs(seq, s) => ReturnedIs(seq, t)
           /\ \A list : ListedIs(list, s) => ListedIs(list, t)
           /\ \A open, seen, timed : OpenedIs(open, seen, s, timed) => OpenedIs(open, seen, t, timed)
<1>1. TenantRows(s) \subseteq TenantRows(t)
  BY DEF TenantRows
<1>2. \A trace : TraceRows(s, trace) \subseteq TraceRows(t, trace)
  BY DEF TraceRows
<1>3. ASSUME NEW seq, ReturnedIs(seq, s)
      PROVE  ReturnedIs(seq, t)
  <2>1. seq \in Seq(TenantRows(t))
    BY <1>1, <1>3 DEF ReturnedIs
  <2> QED
    BY <1>3, <2>1 DEF ReturnedIs
<1>4. ASSUME NEW list, ListedIs(list, s)
      PROVE  ListedIs(list, t)
  BY <1>1, <1>4, Zenon DEF ListedIs
<1>5. ASSUME NEW open, NEW seen, NEW timed, OpenedIs(open, seen, s, timed)
      PROVE  OpenedIs(open, seen, t, timed)
  <2>1. open.status = "ok" => Shown(open) \subseteq IdsOfRows(TraceRows(t, open.trace))
    <3>1. IdsOfRows(TraceRows(s, open.trace)) \subseteq IdsOfRows(TraceRows(t, open.trace))
      BY <1>2 DEF IdsOfRows
    <3> QED
      BY <1>5, <3>1 DEF OpenedIs
  <2>2. ASSUME open.status = "ok", open.view = "trace"
        PROVE  \E seq : ShownFrom(seq, t, open.trace, seen) /\ open.batches = BatchesOf(seq)
    <3>1. PICK seq : ShownFrom(seq, s, open.trace, seen) /\ open.batches = BatchesOf(seq)
      BY <1>5, <2>2 DEF OpenedIs
    <3>2. seq \in Seq(TraceRows(t, open.trace))
      BY <1>2, <3>1 DEF ShownFrom
    <3>3. ShownFrom(seq, t, open.trace, seen)
      BY <3>1, <3>2 DEF ShownFrom
    <3> QED
      BY <3>1, <3>3
  <2> QED
    BY <1>5, <2>1, <2>2, Zenon DEF OpenedIs
<1> QED
  BY <1>3, <1>4, <1>5

\* A trace shows the spans of the rows it is shown from.
LEMMA TraceShows ==
    ASSUME NEW rows, NEW seq \in Seq(rows), NEW open, open.view = "trace", open.batches = BatchesOf(seq)
    PROVE  Shown(open) = {seq[i].id : i \in DOMAIN seq}
<1>1. Shown(open) = {span.id : span \in ListedIn(BatchesOf(seq))}
  BY DEF Shown, ListedIn
<1>2. ListedIn(BatchesOf(seq)) = {TraceSpan(seq[i]) : i \in DOMAIN seq}
  BY ListedRows
<1>3. \A i \in DOMAIN seq : TraceSpan(seq[i]).id = seq[i].id
  BY DEF TraceSpan
<1> QED
  BY <1>1, <1>2, <1>3

\* A trace that is opened by its id.
LEMMA OpensTrace ==
    ASSUME NEW s, Counted(s), NEW t \in Traces, NEW seen, ReturnedIs(seen, s), NEW timed,
           NEW seq \in Oldest(TraceRows(s, t)),
           NEW open, open.view = "trace", open.trace = t, open.status = "ok", open.batches = BatchesOf(seq)
    PROVE  OpenedIs(open, seen, s, timed) /\ Shown(open) = IdsOfRows(TraceRows(s, t))
<1>1. PICK rows : rows = TraceRows(s, t)
  OBVIOUS
<1>2. rows \in SUBSET AnyRow /\ IsFiniteSet(rows)
  BY <1>1, TraceRowsAre
<1>3. PICK key : key = [row \in rows |-> row.timestamp]
  OBVIOUS
<1>4. \A row \in rows : key[row] \in Nat
  BY <1>2, <1>3, RowIs
<1>5. seq \in InOrder(rows, key)
  BY <1>1, <1>3 DEF Oldest
<1>6. IsOrder(seq, rows, key)
  BY <1>2, <1>4, <1>5, InOrderIs
<1>7. /\ seq \in Seq(rows) /\ ToSet(seq) = rows
      /\ \A i, j \in 1 .. Len(seq) : seq[i] = seq[j] => i = j
  BY <1>6, Zenon DEF IsOrder, Ordered
<1>8. \A i \in 1 .. Len(seen) : seen[i].trace = t => Among(seen[i], seq)
  <2> SUFFICES ASSUME NEW i \in 1 .. Len(seen), seen[i].trace = t
               PROVE  Among(seen[i], seq)
    OBVIOUS
  <2>1. seen[i] \in TenantRows(s)
    BY DEF ReturnedIs
  <2>2. seen[i] \in rows
    BY <1>1, <2>1 DEF TenantRows, TraceRows
  <2> QED
    BY <1>7, <2>2, AmongIs
<1>9. ShownFrom(seq, s, t, seen)
  BY <1>1, <1>7, <1>8 DEF ShownFrom
<1>10. Shown(open) = IdsOfRows(rows)
  <2>1. Shown(open) = {seq[i].id : i \in DOMAIN seq}
    BY <1>7, TraceShows
  <2> QED
    BY <1>7, <2>1 DEF IdsOfRows, ToSet
<1> QED
  BY <1>1, <1>9, <1>10, Zenon DEF OpenedIs

\* The lines of an outline.
LinesOf(outline, ids, rows) ==
    outline = [i \in DOMAIN ids |-> [id |-> ids[i], depth |-> [x \in IdsOfRows(rows) |-> Depth(rows, x)][ids[i]]]]

\* A trace is not found when it has no lines.
NoLines(open) == open.status = "not found" => DOMAIN open.outline = {}

\* Rows are put in the order of their time, if that is told.
TimeKey(key, rows, timed) ==
    /\ \A row \in rows : key[row] \in Nat
    /\ timed => key = [row \in rows |-> row.timestamp]

\* A trace whose outline is drawn.
LEMMA OpensOutline ==
    ASSUME NEW s, Counted(s), NEW t \in Traces, NEW seen, ReturnedIs(seen, s), NEW timed \in BOOLEAN,
           NEW rows, rows = TraceRows(s, t),
           NEW key, TimeKey(key, rows, timed),
           NEW seq \in InOrder(rows, key), NEW ids \in InHierarchy(seq),
           NEW open, open.view = "outline", open.trace = t, LinesOf(open.outline, ids, rows),
           NoLines(open)
    PROVE  OpenedIs(open, seen, s, timed) /\ Shown(open) = IdsOfRows(rows)
<1>2. rows \in SUBSET AnyRow /\ IsFiniteSet(rows)
  BY TraceRowsAre
<1>3. ids \in Seq(Ids) /\ {ids[i] : i \in DOMAIN ids} = IdsOfRows(rows)
  BY <1>2, OutlineShows DEF TimeKey
<1>4. PICK outline : outline = open.outline
  OBVIOUS
<1>5. LinesOf(outline, ids, rows)
  BY <1>4
<1>6. DOMAIN outline = DOMAIN ids /\ \A i \in DOMAIN ids : outline[i].id = ids[i]
  BY <1>5 DEF LinesOf
<1>7. Shown(open) = IdsOfRows(rows)
  <2>1. Shown(open) = {outline[i].id : i \in DOMAIN outline}
    BY <1>4 DEF Shown
  <2> QED
    BY <1>3, <1>6, <2>1
<1>8. Readable(outline, timed)
  <2>1. PICK lines : lines = [i \in DOMAIN ids |->
                                 [id |-> ids[i], depth |-> [x \in IdsOfRows(rows) |-> Depth(rows, x)][ids[i]]]]
    OBVIOUS
  <2>2. Readable(lines, timed)
    BY <1>2, <2>1, OutlineIs DEF TimeKey
  <2>3. lines = outline
    BY <1>5, <2>1, Zenon DEF LinesOf
  <2> QED
    BY <2>2, <2>3
<1>9. ASSUME DOMAIN outline = {}, NEW i \in 1 .. Len(seen), seen[i].trace = t
      PROVE  FALSE
  <2>1. seen[i] \in TenantRows(s)
    BY DEF ReturnedIs
  <2>2. seen[i] \in rows
    BY <1>9, <2>1 DEF TenantRows, TraceRows
  <2>4. DOMAIN ids = {}
    BY <1>6, <1>9
  <2>5. IdsOfRows(rows) = {}
    BY <1>3, <2>4
  <2> QED
    BY <2>2, <2>5 DEF IdsOfRows
<1>10. open.status = "not found" => \A i \in 1 .. Len(seen) : seen[i].trace # open.trace
  BY <1>4, <1>9, Zenon DEF NoLines
<1> QED
  BY <1>4, <1>7, <1>8, <1>10, Zenon DEF OpenedIs

\* What a statement returns of the client's rows.
LEMMA KeptIs ==
    ASSUME NEW s, Counted(s), NEW rows \in SUBSET TenantRows(s), NEW seq \in NewestFirst(rows),
           NEW search, search.limit \in Nat
    PROVE  ReturnedIs(Kept(search, seq), s)
<1>1. rows \in SUBSET AnyRow /\ IsFiniteSet(rows)
  <2>1. TenantRows(s) \in SUBSET AnyRow /\ IsFiniteSet(TenantRows(s))
    BY TraceRowsAre
  <2> QED
    BY <2>1, FS_Subset
<1>2. PICK key : key = [row \in rows |-> row.timestamp]
  OBVIOUS
<1>3. \A row \in rows : key[row] \in Nat
  BY <1>1, <1>2, RowIs
<1>4. PICK old \in InOrder(rows, key) : seq = Reverse(old)
  BY <1>2, Zenon DEF NewestFirst, Oldest
<1>5. IsOrder(old, rows, key)
  BY <1>1, <1>3, InOrderIs
<1>6. old \in Seq(rows) /\ \A i, j \in 1 .. Len(old) : old[i] = old[j] => i = j
  BY <1>5, Zenon DEF IsOrder, Ordered
<1>7. PICK n \in Nat : n = Len(old)
  BY <1>6
<1>8. seq = [i \in 1 .. n |-> old[(n - i) + 1]]
  BY <1>4, <1>7 DEF Reverse
<1>9. \A i \in 1 .. n : (n - i) + 1 \in 1 .. n
  OBVIOUS
<1>10. \A i \in 1 .. n : seq[i] = old[(n - i) + 1] /\ seq[i] \in TenantRows(s)
  BY <1>6, <1>7, <1>8, <1>9
<1>11. seq \in Seq(TenantRows(s)) /\ Len(seq) = n
  BY <1>8, <1>10
<1>12. \A i, j \in 1 .. n : seq[i] = seq[j] => i = j
  <2> SUFFICES ASSUME NEW i \in 1 .. n, NEW j \in 1 .. n, seq[i] = seq[j]
               PROVE  i = j
    OBVIOUS
  <2>1. (n - i) + 1 = (n - j) + 1
    BY <1>6, <1>7, <1>9, <1>10
  <2> QED
    BY <2>1
<1>13. ReturnedIs(seq, s)
  BY <1>11, <1>12 DEF ReturnedIs
<1>14. ASSUME search.version = "v1"
       PROVE  ReturnedIs(Kept(search, seq), s)
  <2>1. PICK m : m = Min({search.limit, n})
    OBVIOUS
  <2>2. m \in {search.limit, n} /\ m <= n
    BY <2>1, MinIs
  <2>3. m \in 0 .. n
    BY <2>2
  <2>4. Kept(search, seq) = SubSeq(seq, 1, m)
    BY <1>11, <1>14, <2>1 DEF Kept
  <2>5. PICK kept : kept = SubSeq(seq, 1, m)
    OBVIOUS
  <2>6. kept \in Seq(TenantRows(s)) /\ Len(kept) = m /\ \A i \in 1 .. m : kept[i] = seq[i]
    BY <1>11, <2>3, <2>5
  <2>7. \A i, j \in 1 .. m : kept[i] = kept[j] => i = j
    <3>1. \A i \in 1 .. m : i \in 1 .. n
      BY <2>3
    <3> QED
      BY <1>12, <2>6, <3>1
  <2>8. ReturnedIs(kept, s)
    BY <2>6, <2>7 DEF ReturnedIs
  <2> QED
    BY <2>4, <2>5, <2>8
<1>15. ASSUME search.version # "v1"
       PROVE  ReturnedIs(Kept(search, seq), s)
  BY <1>13, <1>15 DEF Kept
<1> QED
  BY <1>14, <1>15

LEMMA NothingSeen ==
    ASSUME NEW s
    PROVE  /\ ReturnedIs(<<>>, s) /\ ListedIs(NotListed, s)
           /\ \A seen, timed : OpenedIs(NotOpen, seen, s, timed)
<1>1. ReturnedIs(<<>>, s)
  BY DEF ReturnedIs
<1>2. ListedIs(NotListed, s)
  BY DEF ListedIs, NotListed
<1>3. \A seen, timed : OpenedIs(NotOpen, seen, s, timed)
  BY DEF OpenedIs, NotOpen
<1> QED
  BY <1>1, <1>2, <1>3

-----------------------------------------------------------------------------
(* The steps.                                                                *)

LEMMA InitTrue == Init => ViewsTrue
<1> SUFFICES ASSUME Init
             PROVE  ViewsTrue
  OBVIOUS
<1>1. PICK s : s = stored
  OBVIOUS
<1>2. s \in [Batches -> Nat] /\ \A batch \in Batches : s[batch] = 0
  BY <1>1 DEF Init
<1>3. RowsStored(s) = {}
  BY <1>2 DEF RowsStored
<1>4. Counted(s)
  BY <1>2, <1>3, FS_EmptySet DEF Counted
<1>5. /\ ReturnedIs(<<>>, s) /\ ListedIs(NotListed, s)
      /\ \A seen, timed : OpenedIs(NotOpen, seen, s, timed)
  BY NothingSeen
<1>6. Summaries(<<>>) = {}
  <2>1. DOMAIN <<>> = {}
    BY SMT
  <2> QED
    BY <2>1, Zenon DEF Summaries
<1> QED
  BY <1>1, <1>4, <1>5, <1>6 DEF Init, ViewsTrue

LEMMA InsertKeeps ==
    ASSUME ViewsTrue, NEW batch \in Batches, Insert(batch)
    PROVE  ViewsTrue'
<1>1. PICK s : s = stored
  OBVIOUS
<1>2. PICK t : t = stored'
  OBVIOUS
<1>3. Counted(s) /\ s \in [Batches -> Nat]
  BY <1>1 DEF ViewsTrue, Counted
<1>4. /\ t \in [Batches -> Nat] /\ t[batch] = s[batch] + 1
      /\ \A b \in Batches \ {batch} : t[b] = s[b]
  BY <1>1, <1>2, <1>3 DEF Insert
<1>5. Counted(t) /\ RowsStored(s) \subseteq RowsStored(t)
  BY <1>3, <1>4, OneMore
<1>6. /\ \A seq : ReturnedIs(seq, s) => ReturnedIs(seq, t)
      /\ \A list : ListedIs(list, s) => ListedIs(list, t)
      /\ \A open, seen, timed : OpenedIs(open, seen, s, timed) => OpenedIs(open, seen, t, timed)
  BY <1>5, MoreRows
<1>7. /\ quoted' = quoted /\ returned' = returned /\ found' = found
      /\ listed' = listed /\ opened' = opened
  BY DEF Insert
<1>8. /\ quoted \in BOOLEAN /\ found = Summaries(returned)
      /\ ReturnedIs(returned, s) /\ ListedIs(listed, s) /\ OpenedIs(opened, returned, s, ~quoted)
  BY <1>1 DEF ViewsTrue
<1> QED
  BY <1>2, <1>5, <1>6, <1>7, <1>8, Zenon DEF ViewsTrue

LEMMA AnswerKeeps ==
    ASSUME ViewsTrue, NEW how, NEW seq, ReturnedIs(seq, stored), Answer(how, seq)
    PROVE  ViewsTrue'
<1>1. PICK s : s = stored
  OBVIOUS
<1>2. /\ ReturnedIs(<<>>, s) /\ ListedIs(NotListed, s)
      /\ \A seen, timed : OpenedIs(NotOpen, seen, s, timed)
  BY NothingSeen
<1>3. /\ stored' = stored /\ quoted' = quoted /\ returned' = seq /\ found' = Summaries(seq)
      /\ listed' = NotListed /\ opened' = NotOpen
  BY DEF Answer
<1>4. Counted(stored) /\ quoted \in BOOLEAN
  BY DEF ViewsTrue
<1> QED
  BY <1>1, <1>2, <1>3, <1>4, Zenon DEF ViewsTrue

LEMMA OfferKeeps ==
    ASSUME ViewsTrue, NEW list, NEW how, NEW values,
           ListedIs([tag |-> list.tag, from |-> list.from, to |-> list.to, values |-> values], stored),
           Offer(list, how, values)
    PROVE  ViewsTrue'
<1>1. PICK s : s = stored
  OBVIOUS
<1>2. PICK told : told = [tag |-> list.tag, from |-> list.from, to |-> list.to, values |-> values]
  OBVIOUS
<1>3. /\ ReturnedIs(<<>>, s)
      /\ \A seen, timed : OpenedIs(NotOpen, seen, s, timed)
  BY NothingSeen
<1>4. /\ stored' = stored /\ quoted' = quoted /\ returned' = <<>> /\ found' = {}
      /\ listed' = told /\ opened' = NotOpen
  BY <1>2 DEF Offer
<1>5. Summaries(<<>>) = {}
  <2>1. DOMAIN <<>> = {}
    BY SMT
  <2> QED
    BY <2>1, Zenon DEF Summaries
<1>6. Counted(stored) /\ quoted \in BOOLEAN /\ ListedIs(told, stored)
  BY <1>2 DEF ViewsTrue
<1> QED
  BY <1>1, <1>3, <1>4, <1>5, <1>6, Zenon DEF ViewsTrue

LEMMA OpenKeeps ==
    ASSUME ViewsTrue, NEW t, NEW view, NEW status, NEW batches, NEW outline, NEW open,
           open = [view |-> view, trace |-> t, status |-> status, batches |-> batches, outline |-> outline],
           OpenedIs(open, returned, stored, ~quoted),
           Open(t, view, status, batches, outline)
    PROVE  ViewsTrue' /\ opened' = open
<1>1. PICK s : s = stored
  OBVIOUS
<1>2. ListedIs(NotListed, s)
  BY NothingSeen
<1>3. /\ stored' = stored /\ quoted' = quoted /\ returned' = returned /\ found' = found
      /\ listed' = NotListed /\ opened' = open
  BY DEF Open
<1>4. /\ Counted(stored) /\ quoted \in BOOLEAN
      /\ ReturnedIs(returned, stored) /\ found = Summaries(returned)
      /\ OpenedIs(open, returned, stored, ~quoted)
  BY DEF ViewsTrue
<1> QED
  BY <1>1, <1>2, <1>3, <1>4, Zenon DEF ViewsTrue


LEMMA SearchKeeps ==
    ASSUME ViewsTrue, NEW search \in Searches,
           SearchSpans(search) \/ SearchOthers(search) \/ SearchRefused(search) \/ SearchFails(search)
    PROVE  ViewsTrue' /\ opened' = NotOpen
<1>1. CASE SearchSpans(search)
  <2>1. PICK s : s = stored
    OBVIOUS
  <2>2. PICK rows : rows = Admitted(search)
    OBVIOUS
  <2>3. PICK seq \in NewestFirst(rows) : Answer("ok", Kept(search, seq))
    BY <1>1, <2>2 DEF SearchSpans
  <2>4. rows \in SUBSET TenantRows(s)
    BY <2>1, <2>2, RowsAreStored DEF Admitted, TenantRows
  <2>5. Counted(s) /\ search.limit \in Nat
    BY <2>1, TraceAssumption DEF ViewsTrue, Search
  <2>6. PICK kept : kept = Kept(search, seq)
    OBVIOUS
  <2>7. ReturnedIs(kept, s)
    BY <2>3, <2>4, <2>5, <2>6, KeptIs
  <2>8. Answer("ok", kept) /\ ReturnedIs(kept, stored)
    BY <2>1, <2>3, <2>6, <2>7
  <2> QED
    BY <2>8, AnswerKeeps DEF Answer
<1>2. CASE SearchOthers(search) \/ SearchRefused(search) \/ SearchFails(search)
  <2>1. PICK how : Answer(how, <<>>)
    BY <1>2, Zenon DEF SearchOthers, SearchRefused, SearchFails
  <2>2. PICK s : s = stored
    OBVIOUS
  <2>3. ReturnedIs(<<>>, s)
    BY NothingSeen
  <2>4. ReturnedIs(<<>>, stored)
    BY <2>2, <2>3
  <2> QED
    BY <2>1, <2>4, AnswerKeeps DEF Answer
<1> QED
  BY <1>1, <1>2

LEMMA TagValuesKeep ==
    ASSUME ViewsTrue, NEW list \in Lists, TagValues(list)
    PROVE  ViewsTrue' /\ opened' = NotOpen
<1>1. PICK how, values : Offer(list, how, values) /\ values \subseteq Values(list)
  <2>1. CASE \E how : Offer(list, how, {})
    BY <2>1
  <2>2. CASE \E values \in kSubset(Min({TagLimit, Cardinality(Values(list))}), Values(list)) :
                Offer(list, "ok", values \ {Nothing})
    <3>1. PICK values \in kSubset(Min({TagLimit, Cardinality(Values(list))}), Values(list)) :
                Offer(list, "ok", values \ {Nothing})
      BY <2>2
    <3>2. values \ {Nothing} \subseteq Values(list)
      BY <3>1 DEF kSubset
    <3> QED
      BY <3>1, <3>2
  <2> QED
    BY <2>1, <2>2, Zenon DEF TagValues
<1>2. PICK s : s = stored
  OBVIOUS
<1>3. PICK told : told = [tag |-> list.tag, from |-> list.from, to |-> list.to, values |-> values]
  OBVIOUS
<1>4. ListedIs(told, s)
  <2> SUFFICES ASSUME NEW value \in values
               PROVE  \E row \in TenantRows(s) : /\ row.timestamp \in list.from .. list.to
                                                 /\ TextOf(row, TagColumn(list.tag)) = value
    BY <1>3 DEF ListedIs
  <2>1. PICK row \in Rows : /\ row.tenant = Tenant /\ row.timestamp \in list.from .. list.to
                            /\ TextOf(row, TagColumn(list.tag)) = value
    BY <1>1, Zenon DEF Values
  <2> QED
    BY <1>2, <2>1, RowsAreStored DEF TenantRows
<1> QED
  BY <1>1, <1>2, <1>3, <1>4, OfferKeeps DEF Offer

\* A trace that is opened shows all its rows, unless ClickHouse cannot be
\* reached.
LEMMA TraceByIDKeeps ==
    ASSUME ViewsTrue, NEW t \in Traces, TraceByID(t)
    PROVE  /\ ViewsTrue' /\ opened'.trace = t
           /\ IdsOfRows(TraceRows(stored, t)) \subseteq Shown(opened')
<1>1. PICK s : s = stored
  OBVIOUS
<1>2. PICK seen : seen = returned
  OBVIOUS
<1>3. PICK timed : timed = ~quoted
  OBVIOUS
<1>4. Counted(s) /\ ReturnedIs(seen, s)
  BY <1>1, <1>2 DEF ViewsTrue
<1>5. RowsOf(t) = TraceRows(s, t)
  BY <1>1, RowsAreStored DEF RowsOf, TraceRows
<1>6. CASE RowsOf(t) = {} /\ Open(t, "trace", "not found", <<>>, <<>>)
  <2>1. PICK open : open = [view |-> "trace", trace |-> t, status |-> "not found", batches |-> <<>>, outline |-> <<>>]
    OBVIOUS
  <2>2. open.trace = t /\ open.status = "not found"
    BY <2>1
  <2>3. \A i \in 1 .. Len(seen) : seen[i].trace # t
    <3> SUFFICES ASSUME NEW i \in 1 .. Len(seen), seen[i].trace = t
                 PROVE  FALSE
      OBVIOUS
    <3>1. seen[i] \in TenantRows(s)
      BY <1>4 DEF ReturnedIs
    <3> QED
      BY <1>5, <1>6, <3>1 DEF TraceRows, TenantRows
  <2>4. OpenedIs(open, seen, s, timed)
    BY <2>2, <2>3 DEF OpenedIs
  <2>5. OpenedIs(open, returned, stored, ~quoted)
    BY <1>1, <1>2, <1>3, <2>4
  <2>6. ViewsTrue' /\ opened' = open
    BY <1>6, <2>1, <2>5, OpenKeeps
  <2>7. IdsOfRows(TraceRows(stored, t)) = {}
    BY <1>1, <1>5, <1>6 DEF IdsOfRows
  <2> QED
    BY <2>2, <2>6, <2>7
<1>7. CASE \E seq \in Oldest(RowsOf(t)) : Open(t, "trace", "ok", BatchesOf(seq), <<>>)
  <2>1. PICK seq \in Oldest(TraceRows(s, t)) : Open(t, "trace", "ok", BatchesOf(seq), <<>>)
    BY <1>5, <1>7
  <2>2. PICK batches : batches = BatchesOf(seq)
    OBVIOUS
  <2>3. PICK open : open = [view |-> "trace", trace |-> t, status |-> "ok", batches |-> batches, outline |-> <<>>]
    OBVIOUS
  <2>4. open.view = "trace" /\ open.trace = t /\ open.status = "ok" /\ open.batches = BatchesOf(seq)
    BY <2>2, <2>3
  <2>5. OpenedIs(open, seen, s, timed) /\ Shown(open) = IdsOfRows(TraceRows(s, t))
    BY <1>4, <2>1, <2>4, OpensTrace
  <2>6. OpenedIs(open, returned, stored, ~quoted) /\ Open(t, "trace", "ok", batches, <<>>)
    BY <1>1, <1>2, <1>3, <2>1, <2>2, <2>5
  <2>7. ViewsTrue' /\ opened' = open
    BY <2>3, <2>6, OpenKeeps
  <2> QED
    BY <1>1, <2>4, <2>5, <2>7
<1> QED
  BY <1>6, <1>7 DEF TraceByID

LEMMA ExpandTraceKeeps ==
    ASSUME ViewsTrue, NEW t \in Traces, ExpandTrace(t)
    PROVE  /\ ViewsTrue' /\ opened'.trace = t
           /\ IdsOfRows(TraceRows(stored, t)) \subseteq Shown(opened')
<1>1. PICK s : s = stored
  OBVIOUS
<1>2. PICK seen : seen = returned
  OBVIOUS
<1>3. PICK timed : timed = ~quoted
  OBVIOUS
<1>4. Counted(s) /\ ReturnedIs(seen, s) /\ timed \in BOOLEAN /\ quoted \in BOOLEAN
  BY <1>1, <1>2, <1>3 DEF ViewsTrue
<1>5. PICK rows : rows = TraceRows(s, t)
  OBVIOUS
<1>6. RowsOf(t) = rows
  BY <1>1, <1>5, RowsAreStored DEF RowsOf, TraceRows
<1>7. PICK key : key = [row \in rows |-> Time(row)]
  OBVIOUS
<1>8. TimeKey(key, rows, timed)
  <2>1. rows \in SUBSET AnyRow
    BY <1>4, <1>5, TraceRowsAre
  <2>2. \A row \in rows : row.timestamp \in Nat
    BY <2>1, RowIs
  <2>3. \A row \in rows : key[row] \in Nat
    BY <1>7, <2>2 DEF Time
  <2>4. timed => key = [row \in rows |-> row.timestamp]
    BY <1>3, <1>7 DEF Time
  <2> QED
    BY <2>3, <2>4 DEF TimeKey
<1>9. PICK outline \in Outlines(t) :
         Open(t, "outline", IF outline = <<>> THEN "not found" ELSE "ok", <<>>, outline)
  BY DEF ExpandTrace
<1>10. PICK seq \in InOrder(rows, key) : \E ids \in InHierarchy(seq) : LinesOf(outline, ids, rows)
  <2>1. \E ids \in UNION {InHierarchy(seq) : seq \in ByTime(rows)} : LinesOf(outline, ids, rows)
    BY <1>6, <1>9, Zenon DEF Outlines, LinesOf, IdsOfRows
  <2>2. ByTime(rows) = InOrder(rows, key)
    BY <1>7, Zenon DEF ByTime
  <2> QED
    BY <2>1, <2>2, Zenon
<1>11. PICK ids \in InHierarchy(seq) : LinesOf(outline, ids, rows)
  BY <1>10
<1>12. PICK status : status = IF outline = <<>> THEN "not found" ELSE "ok"
  OBVIOUS
<1>13. PICK open : open = [view |-> "outline", trace |-> t, status |-> status, batches |-> <<>>, outline |-> outline]
  OBVIOUS
<1>14. open.view = "outline" /\ open.trace = t /\ open.outline = outline /\ open.status = status
  BY <1>13
<1>15. NoLines(open)
  <2>1. DOMAIN <<>> = {}
    BY SMT
  <2>2. ASSUME status = "not found"
        PROVE  outline = <<>>
    BY <1>12, <2>2
  <2> QED
    BY <1>14, <2>1, <2>2, Zenon DEF NoLines
<1>16. OpenedIs(open, seen, s, timed) /\ Shown(open) = IdsOfRows(rows)
  <2>1. LinesOf(open.outline, ids, rows)
    BY <1>11, <1>14
  <2> QED
    BY <1>4, <1>5, <1>8, <1>10, <1>11, <1>14, <1>15, <2>1, OpensOutline
<1>17. OpenedIs(open, returned, stored, ~quoted) /\ Open(t, "outline", status, <<>>, outline)
  BY <1>1, <1>2, <1>3, <1>9, <1>12, <1>16
<1>18. ViewsTrue' /\ opened' = open
  BY <1>13, <1>17, OpenKeeps
<1> QED
  BY <1>1, <1>5, <1>14, <1>16, <1>18

LEMMA TraceFailsKeeps ==
    ASSUME ViewsTrue, NEW t \in Traces, NEW view, TraceFails(t, view)
    PROVE  ViewsTrue' /\ opened'.status = "failed"
<1>1. PICK s : s = stored
  OBVIOUS
<1>2. PICK seen : seen = returned
  OBVIOUS
<1>3. PICK timed : timed = ~quoted
  OBVIOUS
<1>4. PICK open : open = [view |-> view, trace |-> t, status |-> "failed", batches |-> <<>>, outline |-> <<>>]
  OBVIOUS
<1>5. open.trace = t /\ open.status = "failed"
  BY <1>4
<1>6. OpenedIs(open, seen, s, timed)
  BY <1>5 DEF OpenedIs
<1>7. OpenedIs(open, returned, stored, ~quoted) /\ Open(t, view, "failed", <<>>, <<>>)
  BY <1>1, <1>2, <1>3, <1>6 DEF TraceFails
<1>8. ViewsTrue' /\ opened' = open
  BY <1>4, <1>7, OpenKeeps
<1> QED
  BY <1>5, <1>8


LEMMA StepKeeps == ViewsTrue /\ [Next]_vars => ViewsTrue'
<1> SUFFICES ASSUME ViewsTrue, [Next]_vars
             PROVE  ViewsTrue'
  OBVIOUS
<1>1. CASE \E batch \in Batches : Insert(batch)
  BY <1>1, InsertKeeps
<1>2. CASE \E search \in Searches :
              SearchSpans(search) \/ SearchOthers(search) \/ SearchRefused(search) \/ SearchFails(search)
  BY <1>2, SearchKeeps
<1>3. CASE \E list \in Lists : TagValues(list)
  BY <1>3, TagValuesKeep
<1>4. CASE \E t \in Traces : TraceByID(t) \/ ExpandTrace(t)
  BY <1>4, TraceByIDKeeps, ExpandTraceKeeps
<1>5. CASE \E t \in Traces : \E view \in {"trace", "outline"} : TraceFails(t, view)
  BY <1>5, TraceFailsKeeps
<1>6. CASE UNCHANGED vars
  BY <1>6 DEF vars, ViewsTrue
<1> QED
  BY <1>1, <1>2, <1>3, <1>4, <1>5, <1>6, Zenon DEF Next

\* What the client sees stays true of what is stored: the inductive invariant
\* of the views.
THEOREM ViewsStayTrue == Spec => []ViewsTrue
  BY InitTrue, StepKeeps, PTL DEF Spec

-----------------------------------------------------------------------------
(* The properties.                                                           *)

\* FoundOpens: what a search found is never denied.
THEOREM WhatIsFoundOpens == Spec => []FoundOpens
<1>1. ASSUME ViewsTrue, NEW summary \in found, opened.trace = summary.trace, opened.status = "not found"
      PROVE  FALSE
  <2>1. PICK seen : seen = returned
    OBVIOUS
  <2>2. summary \in Summaries(seen) /\ seen \in Seq(TenantRows(stored))
    BY <1>1, <2>1 DEF ViewsTrue, ReturnedIs
  <2>3. PICK i \in DOMAIN seen : summary = Summary(seen[i].trace, seen)
    BY <2>2, Zenon DEF Summaries
  <2>4. summary.trace = seen[i].trace
    BY <2>3 DEF Summary
  <2>5. i \in 1 .. Len(seen)
    BY <2>2, <2>3
  <2>6. \A j \in 1 .. Len(seen) : seen[j].trace # opened.trace
    BY <1>1, <2>1 DEF ViewsTrue, OpenedIs
  <2> QED
    BY <1>1, <2>4, <2>5, <2>6
<1>2. ViewsTrue => FoundOpens
  BY <1>1 DEF FoundOpens
<1> QED
  BY <1>2, ViewsStayTrue, PTL

\* NeverForgets: a trace that is opened again shows what it showed before.
THEOREM NothingIsForgotten == Spec => NeverForgets
<1>1. ASSUME ViewsTrue, [Next]_vars, opened.trace = opened'.trace, opened.status = "ok",
             opened'.status # "failed"
      PROVE  Shown(opened) \subseteq Shown(opened')
  <2>1. /\ opened.trace \in Traces
        /\ Shown(opened) \subseteq IdsOfRows(TraceRows(stored, opened.trace))
    BY <1>1 DEF ViewsTrue, OpenedIs
  <2>2. opened.trace # Nothing
    BY <2>1, TraceAssumption
  <2>3. CASE opened' = opened
    BY <2>3
  <2>4. CASE opened' = NotOpen
    BY <1>1, <2>2, <2>4 DEF NotOpen
  <2>5. CASE \E t \in Traces : TraceByID(t) \/ ExpandTrace(t)
    <3>1. PICK t \in Traces : TraceByID(t) \/ ExpandTrace(t)
      BY <2>5
    <3>2. opened'.trace = t /\ IdsOfRows(TraceRows(stored, t)) \subseteq Shown(opened')
      BY <1>1, <3>1, TraceByIDKeeps, ExpandTraceKeeps
    <3> QED
      BY <1>1, <2>1, <3>2
  <2>6. CASE \E t \in Traces : \E view \in {"trace", "outline"} : TraceFails(t, view)
    BY <1>1, <2>6, TraceFailsKeeps
  <2>7. CASE \E batch \in Batches : Insert(batch)
    BY <2>3, <2>7 DEF Insert
  <2>8. CASE \E search \in Searches :
                SearchSpans(search) \/ SearchOthers(search) \/ SearchRefused(search) \/ SearchFails(search)
    BY <1>1, <2>4, <2>8, SearchKeeps
  <2>9. CASE \E list \in Lists : TagValues(list)
    BY <1>1, <2>4, <2>9, TagValuesKeep
  <2>10. CASE UNCHANGED vars
    BY <2>3, <2>10 DEF vars
  <2> QED
    BY <1>1, <2>5, <2>6, <2>7, <2>8, <2>9, <2>10, Zenon DEF Next
<1>2. ViewsTrue /\ [Next]_vars =>
        [opened.trace = opened'.trace /\ opened.status = "ok" /\ opened'.status # "failed"
            => Shown(opened) \subseteq Shown(opened')]_vars
  BY <1>1
<1> QED
  BY <1>2, ViewsStayTrue, PTL DEF Spec, NeverForgets

\* OutlineReads: the nearest row above that is indented less is the parent.
THEOREM OutlinesRead == Spec => []OutlineReads
<1>1. ASSUME ViewsTrue, Shows("outline")
      PROVE  Readable(opened.outline, ~quoted) /\ Shown(opened) = {opened.outline[j].id : j \in DOMAIN opened.outline}
  <2>1. opened.view = "outline" /\ opened.status = "ok"
    BY <1>1 DEF Shows
  <2>2. Readable(opened.outline, ~quoted)
    BY <1>1, <2>1 DEF ViewsTrue, OpenedIs
  <2> QED
    BY <2>1, <2>2 DEF Shown
<1>2. ViewsTrue => OutlineReads
  BY <1>1, Zenon DEF OutlineReads, Readable
<1> QED
  BY <1>2, ViewsStayTrue, PTL


LEMMA Triple ==
    ASSUME NEW a, NEW b, NEW c
    PROVE  /\ Len(<<a, b, c>>) = 3 /\ DOMAIN <<a, b, c>> = 1 .. 3
           /\ <<a, b, c>>[1] = a /\ <<a, b, c>>[2] = b /\ <<a, b, c>>[3] = c
  OBVIOUS

\* A text of one condition in braces.
InBraces(text, admits) ==
    text = <<[kind |-> "{", admits |-> {}], [kind |-> "condition", admits |-> admits],
             [kind |-> "}", admits |-> {}]>>

LEMMA OneCondition ==
    ASSUME NEW admits, NEW text, InBraces(text, admits)
    PROVE  Conditions(text) = {admits}
<1>1. /\ Len(text) = 3 /\ DOMAIN text = 1 .. 3
      /\ text[1].kind = "{" /\ text[2].kind = "condition" /\ text[2].admits = admits /\ text[3].kind = "}"
  <2>1. PICK a : a = [kind |-> "{", admits |-> {}]
    OBVIOUS
  <2>2. PICK b : b = [kind |-> "condition", admits |-> admits]
    OBVIOUS
  <2>3. PICK c : c = [kind |-> "}", admits |-> {}]
    OBVIOUS
  <2>4. text = <<a, b, c>>
    BY <2>1, <2>2, <2>3, Zenon DEF InBraces
  <2>5. a.kind = "{" /\ b.kind = "condition" /\ b.admits = admits /\ c.kind = "}"
    BY <2>1, <2>2, <2>3
  <2>6. PICK triple : triple = <<a, b, c>>
    OBVIOUS
  <2>7. Len(triple) = 3 /\ DOMAIN triple = 1 .. 3 /\ triple[1] = a /\ triple[2] = b /\ triple[3] = c
    BY <2>6, Triple
  <2>8. text = triple
    BY <2>4, <2>6
  <2> QED
    BY <2>5, <2>7, <2>8
<1>2. KindAt(text, 1) = "{" /\ KindAt(text, 2) = "condition" /\ KindAt(text, 3) = "}"
  <2>1. 1 \in 1 .. 3 /\ 2 \in 1 .. 3 /\ 3 \in 1 .. 3
    OBVIOUS
  <2> QED
    BY <1>1, <2>1, Zenon DEF KindAt
<1>3. \A n \in 1 .. 3 : IsFilter(text, n) => n = 1
  <2> SUFFICES ASSUME NEW n \in 1 .. 3, IsFilter(text, n), n # 1
               PROVE  FALSE
    OBVIOUS
  <2>1. 2 * n + 1 \notin 1 .. 3
    OBVIOUS
  <2>2. KindAt(text, 2 * n + 1) = "end"
    BY <1>1, <2>1 DEF KindAt
  <2> QED
    BY <2>2 DEF IsFilter
<1>4. IsFilter(text, 1)
  <2>1. \A i \in 1 .. 1 : 2 * i = 2
    OBVIOUS
  <2>2. \A i \in 1 .. 1 - 1 : FALSE
    OBVIOUS
  <2>3. 2 * 1 + 1 = 3
    OBVIOUS
  <2> QED
    BY <1>2, <2>1, <2>2, <2>3 DEF IsFilter
<1>5. (CHOOSE n \in 1 .. Len(text) : IsFilter(text, n)) = 1
  <2>1. 1 \in 1 .. 3
    OBVIOUS
  <2> HIDE DEF IsFilter
  <2>2. (CHOOSE n \in 1 .. 3 : IsFilter(text, n)) = 1
    BY <1>3, <1>4, <2>1, Zenon
  <2> QED
    BY <1>1, <2>2
<1>6. \A i \in 1 .. 1 : text[2 * i].admits = admits
  <2>1. \A i \in 1 .. 1 : 2 * i = 2
    OBVIOUS
  <2> QED
    BY <1>1, <2>1
<1>7. Conditions(text) = {text[2 * i].admits : i \in 1 .. 1}
  BY <1>5, Zenon DEF Conditions
<1> QED
  BY <1>6, <1>7

\* A finite set can be put in a sequence.
LEMMA SetInSequence ==
    ASSUME NEW S, IsFiniteSet(S)
    PROVE  SetToSeq(S) \in [1 .. Cardinality(S) -> S]
<1>1. PICK key : key = [x \in S |-> 0]
  OBVIOUS
<1>2. PICK seq : IsOrder(seq, S, key)
  <2>1. \A x \in S : key[x] \in Nat
    BY <1>1
  <2> QED
    BY <2>1, InOrderIs
<1>3. PICK N : N = Cardinality(S)
  OBVIOUS
<1>4. seq \in Seq(S) /\ Len(seq) = N /\ \A i, j \in 1 .. N : seq[i] = seq[j] => i = j
  BY <1>2, <1>3, Zenon DEF IsOrder, Ordered
<1>5. seq \in [1 .. N -> S]
  BY <1>4
<1>6. IsInjective(seq)
  BY <1>4, <1>5 DEF IsInjective
<1> QED
  BY <1>3, <1>5, <1>6, Zenon DEF SetToSeq

\* ListedValuesFind: a search for a value that is offered finds a trace.
THEOREM ListedValuesAreFound == Spec => []ListedValuesFind
<1>1. ASSUME ViewsTrue, NEW value \in listed.values
      PROVE  LET bearing == {span \in UNION Batches : TextOf(span, FieldColumn(listed.tag)) = value}
                 text    == <<[kind |-> "{", admits |-> {}], [kind |-> "condition", admits |-> bearing],
                              [kind |-> "}", admits |-> {}]>>
                 rows    == Admitted([text |-> text, from |-> listed.from, to |-> listed.to])
             IN  Summaries(SetToSeq(rows)) # {}
  <2>1. PICK s : s = stored
    OBVIOUS
  <2>2. Counted(s)
    BY <1>1, <2>1 DEF ViewsTrue
  <2>3. PICK row \in TenantRows(s) : /\ row.timestamp \in listed.from .. listed.to
                                     /\ TextOf(row, TagColumn(listed.tag)) = value
    BY <1>1, <2>1 DEF ViewsTrue, ListedIs
  <2>4. PICK bearing : bearing = {span \in UNION Batches : TextOf(span, FieldColumn(listed.tag)) = value}
    OBVIOUS
  <2>5. PICK text : InBraces(text, bearing)
    BY DEF InBraces
  <2>6. PICK search : search = [text |-> text, from |-> listed.from, to |-> listed.to]
    OBVIOUS
  <2>7. PICK rows : rows = Admitted(search)
    OBVIOUS
  <2>8. search.text = text /\ search.from = listed.from /\ search.to = listed.to
    BY <2>6
  <2>9. Conditions(text) = {bearing}
    BY <2>5, OneCondition
  <2>10. row.span \in bearing
    <3>1. row \in AnyRow
      BY <2>2, <2>3, TraceRowsAre
    <3>2. row.span \in Spans /\ row.service = row.span.service /\ row.failed = row.span.failed
      BY <3>1, RowIs DEF TellsOf
    <3>3. TagColumn(listed.tag) = FieldColumn(listed.tag)
      BY DEF TagColumn, FieldColumn
    <3>4. \A column : TextOf(row.span, column) = TextOf(row, column)
      BY <3>2, Zenon DEF TextOf
    <3> QED
      BY <2>3, <2>4, <3>2, <3>3, <3>4 DEF Spans
  <2>11. row \in rows
    <3>1. row \in Rows /\ row.tenant = Tenant
      BY <2>1, <2>3, RowsAreStored DEF TenantRows
    <3> QED
      BY <2>3, <2>7, <2>8, <2>9, <2>10, <3>1, Zenon DEF Admitted
  <2>12. IsFiniteSet(rows)
    <3>1. rows \in SUBSET RowsStored(s)
      BY <2>1, <2>7, RowsAreStored DEF Admitted
    <3> QED
      BY <2>2, <3>1, FS_Subset DEF Counted
  <2>13. Cardinality(rows) \in Nat /\ Cardinality(rows) # 0
    BY <2>11, <2>12, FS_EmptySet, FS_CardinalityType
  <2>14. PICK seq : seq = SetToSeq(rows)
    OBVIOUS
  <2>15. 1 \in DOMAIN seq
    <3>1. seq \in [1 .. Cardinality(rows) -> rows]
      BY <2>12, <2>14, SetInSequence
    <3> QED
      BY <2>13, <3>1
  <2>16. Summary(seq[1].trace, seq) \in Summaries(seq)
    BY <2>15, Zenon DEF Summaries
  <2> QED
    BY <2>4, <2>5, <2>6, <2>7, <2>14, <2>16, Zenon DEF InBraces
<1>2. ViewsTrue => ListedValuesFind
  BY <1>1, Zenon DEF ListedValuesFind
<1> QED
  BY <1>2, ViewsStayTrue, PTL


-----------------------------------------------------------------------------
(* What a search says of a trace.                                            *)

LEMMA FiniteBound ==
    ASSUME NEW X, IsFiniteSet(X), NEW f, \A x \in X : f[x] \in Nat
    PROVE  \E b \in Nat : \A x \in X : f[x] <= b
<1>1. PICK seq : IsOrder(seq, X, f)
  BY InOrderIs
<1>2. PICK N : N = Len(seq)
  OBVIOUS
<1>3. /\ seq \in Seq(X) /\ X = {seq[i] : i \in 1 .. N} /\ N \in Nat
      /\ \A i, j \in 1 .. N : i < j => f[seq[i]] <= f[seq[j]]
  <2>1. /\ seq \in Seq(X) /\ ToSet(seq) = X
        /\ \A i, j \in 1 .. N : i < j => f[seq[i]] <= f[seq[j]]
    BY <1>1, <1>2, Zenon DEF IsOrder, Ordered
  <2> QED
    BY <1>2, <2>1 DEF ToSet
<1>4. CASE N = 0
  BY <1>3, <1>4
<1>5. CASE N # 0
  <2>1. N \in 1 .. N /\ seq[N] \in X /\ f[seq[N]] \in Nat
    BY <1>2, <1>3, <1>5
  <2>2. \A i \in 1 .. N : f[seq[i]] <= f[seq[N]]
    <3> SUFFICES ASSUME NEW i \in 1 .. N
                 PROVE  f[seq[i]] <= f[seq[N]]
      OBVIOUS
    <3>1. i = N \/ i < N
      BY <1>3
    <3> QED
      BY <1>3, <2>1, <3>1
  <2> QED
    BY <1>3, <2>1, <2>2
<1> QED
  BY <1>4, <1>5

\* The times of a row, as a trace shows them.
LEMMA TimesAre ==
    ASSUME NEW row \in AnyRow
    PROVE  /\ TraceSpan(row).start = row.timestamp * Milli /\ row.timestamp * Milli \in Nat
           /\ (row.timestamp > 0) = (row.timestamp * Milli > 0)
           /\ TraceSpan(row).end = IF row.duration > 0 /\ row.timestamp > 0
                                   THEN row.timestamp * Milli + row.duration ELSE 0
<1>1. row.timestamp \in Nat /\ row.duration \in Int /\ Milli \in Nat \ {0}
  BY RowIs, TraceAssumption
<1>2. PICK time \in Nat : time = row.timestamp
  BY <1>1
<1>3. PICK nanos : nanos = time * Milli
  OBVIOUS
<1>4. nanos \in Nat /\ (time > 0) = (nanos > 0) /\ (time = 0 => nanos = 0)
  BY <1>1, <1>3
<1>5. PICK times : times = SpanTimes(row)
  OBVIOUS
<1>6. /\ times.start = IF time > 0 THEN nanos ELSE 0
      /\ times.end = IF row.duration > 0 /\ times.start > 0 THEN times.start + row.duration ELSE 0
  BY <1>2, <1>3, <1>5 DEF SpanTimes
<1>7. times.start = nanos
  BY <1>4, <1>6
<1>8. TraceSpan(row).start = times.start /\ TraceSpan(row).end = times.end
  BY <1>5 DEF TraceSpan
<1> QED
  BY <1>2, <1>3, <1>4, <1>6, <1>7, <1>8

LEMMA FirstStartIs ==
    ASSUME NEW rows \in SUBSET AnyRow, rows # {}
    PROVE  FirstStart(rows) \in Nat /\ \E row \in rows : row.timestamp = FirstStart(rows)
<1>1. \A row \in rows : row.timestamp \in Nat
  BY RowIs
<1>2. CASE Timed(rows) = {}
  <2>1. PICK row \in rows : TRUE
    OBVIOUS
  <2>2. row.timestamp = 0
    BY <1>1, <1>2, <2>1 DEF Timed
  <2> QED
    BY <1>2, <2>2 DEF FirstStart
<1>3. CASE Timed(rows) # {}
  <2>1. PICK times : times = {row.timestamp : row \in Timed(rows)}
    OBVIOUS
  <2>2. times \in SUBSET Nat /\ times # {}
    BY <1>1, <1>3, <2>1 DEF Timed
  <2>3. Min(times) \in times
    BY <2>2, MinIs
  <2>4. FirstStart(rows) = Min(times)
    BY <1>3, <2>1 DEF FirstStart
  <2> QED
    BY <2>1, <2>2, <2>3, <2>4 DEF Timed
<1> QED
  BY <1>2, <1>3

LEMMA LastEndIs ==
    ASSUME NEW rows \in SUBSET AnyRow, IsFiniteSet(rows)
    PROVE  /\ LastEnd(rows) \in Nat
           /\ LastEnd(rows) > 0 =>
                \E row \in rows : row.timestamp > 0 /\ row.duration > 0 /\ LastEnd(rows) = EndOf(row)
<1>1. PICK lasting : lasting = {r \in Timed(rows) : r.duration > 0}
  OBVIOUS
<1>2. \A row \in lasting : row \in rows /\ row.timestamp > 0 /\ row.duration > 0
  BY <1>1 DEF Timed
<1>3. \A row \in lasting : EndOf(row) \in Nat
  <2> SUFFICES ASSUME NEW row \in lasting
               PROVE  EndOf(row) \in Nat
    OBVIOUS
  <2>1. row.timestamp \in Nat /\ row.duration \in Nat
    BY <1>2, RowIs
  <2>2. row.duration \div Milli \in Nat
    BY <2>1, Quotient, TraceAssumption
  <2> QED
    BY <2>1, <2>2 DEF EndOf
<1>4. PICK f : f = [row \in lasting |-> EndOf(row)]
  OBVIOUS
<1>5. PICK b \in Nat : \A row \in lasting : EndOf(row) <= b
  <2>1. lasting \in SUBSET rows
    BY <1>2
  <2>2. IsFiniteSet(lasting)
    BY <2>1, FS_Subset
  <2>3. \A row \in lasting : f[row] \in Nat
    BY <1>3, <1>4
  <2>4. \E b \in Nat : \A row \in lasting : f[row] <= b
    BY <2>2, <2>3, FiniteBound
  <2> QED
    BY <1>4, <2>4
<1>6. PICK ends : ends = {0} \cup {EndOf(row) : row \in lasting}
  OBVIOUS
<1>7. ends \in SUBSET Nat /\ ends # {} /\ \A x \in ends : x <= b
  BY <1>3, <1>5, <1>6
<1>8. Max(ends) \in ends
  BY <1>7, MaxIs
<1>9. PICK last : last = Max(ends)
  OBVIOUS
<1>10. LastEnd(rows) = last
  BY <1>1, <1>6, <1>9 DEF LastEnd
<1>11. last \in ends /\ last \in Nat
  BY <1>7, <1>8, <1>9
<1>12. ASSUME last > 0
       PROVE  \E row \in rows : row.timestamp > 0 /\ row.duration > 0 /\ last = EndOf(row)
  <2>1. PICK row \in lasting : last = EndOf(row)
    BY <1>6, <1>11, <1>12
  <2> QED
    BY <1>2, <2>1
<1> QED
  BY <1>10, <1>11, <1>12


\* The rows of a trace among those a search has seen.
SeenOf(seen, t) == {i \in DOMAIN seen : seen[i].trace = t}

RowsSeen(seen, t) == {seen[i] : i \in SeenOf(seen, t)}

SeenOfName(seen, t, name) == {i \in SeenOf(seen, t) : ServiceName(seen[i]) = name}

SummaryTells(summary, seen, t) ==
    LET start == FirstStart(RowsSeen(seen, t))
        end   == LastEnd(RowsSeen(seen, t))
    IN  /\ summary.trace = t
        /\ summary.start = start * Milli
        /\ summary.duration = Lasted(start, end)
        /\ DOMAIN summary.stats = {ServiceName(seen[i]) : i \in SeenOf(seen, t)}
        /\ \A name \in DOMAIN summary.stats :
              summary.stats[name].spans = Cardinality(SeenOfName(seen, t, name))

LEMMA SummaryIs ==
    ASSUME NEW seen, NEW t
    PROVE  SummaryTells(Summary(t, seen), seen, t)
<1>1. PICK names : names = {ServiceName(seen[i]) : i \in SeenOf(seen, t)}
  OBVIOUS
<1>2. PICK stats : stats = [name \in names |->
                               [spans  |-> Cardinality(SeenOfName(seen, t, name)),
                                errors |-> Cardinality({i \in SeenOfName(seen, t, name) : seen[i].failed})]]
  OBVIOUS
<1>3. DOMAIN stats = names /\ \A name \in names : stats[name].spans = Cardinality(SeenOfName(seen, t, name))
  BY <1>2
<1>4. Summary(t, seen).stats = stats
  BY <1>1, <1>2 DEF Summary, SeenOf, SeenOfName
<1>5. /\ Summary(t, seen).trace = t
      /\ Summary(t, seen).start = FirstStart(RowsSeen(seen, t)) * Milli
      /\ Summary(t, seen).duration = Lasted(FirstStart(RowsSeen(seen, t)), LastEnd(RowsSeen(seen, t)))
  BY DEF Summary, SeenOf, RowsSeen
<1> QED
  BY <1>1, <1>3, <1>4, <1>5, Zenon DEF SummaryTells

\* What SummaryWithin says of a summary and the lists of its trace.
BorneOut(summary, batches) ==
    /\ \A name \in DOMAIN summary.stats :
          /\ name \in DOMAIN batches
          /\ summary.stats[name].spans <= Len(batches[name])
    /\ \E span \in ListedIn(batches) : span.start <= summary.start
    /\ summary.duration > 0 =>
          \E span \in ListedIn(batches) : summary.start + summary.duration * Milli <= span.end

\* The rows that a search has seen of a trace, among those it is shown from.
SeenWithin(seen, t, seq) ==
    /\ \A i, j \in 1 .. Len(seen) : seen[i] = seen[j] => i = j
    /\ \A i \in 1 .. Len(seen) : seen[i].trace = t => Among(seen[i], seq)
    /\ \E i \in 1 .. Len(seen) : seen[i].trace = t

\* A service has as many spans as the search has counted.
LEMMA CountedWithin ==
    ASSUME NEW seq \in Seq(AnyRow), NEW seen \in Seq(AnyRow), NEW t, SeenWithin(seen, t, seq),
           NEW name
    PROVE  Cardinality(SeenOfName(seen, t, name)) <= Cardinality(Named(seq, name))
<1>1. PICK of : of = SeenOfName(seen, t, name)
  OBVIOUS
<1>2. PICK named : named = Named(seq, name)
  OBVIOUS
<1>3. IsFiniteSet(named)
  <2>1. named \in SUBSET (1 .. Len(seq))
    BY <1>2 DEF Named
  <2> QED
    BY <2>1, RowsFinite
<1>4. \A i \in of : i \in 1 .. Len(seen) /\ seen[i].trace = t /\ ServiceName(seen[i]) = name
  BY <1>1 DEF SeenOfName, SeenOf
<1>5. \A i \in of : \E j \in named : seq[j] = seen[i]
  <2> SUFFICES ASSUME NEW i \in of
               PROVE  \E j \in named : seq[j] = seen[i]
    OBVIOUS
  <2>1. PICK j \in 1 .. Len(seq) : seq[j] = seen[i]
    BY <1>4 DEF SeenWithin, Among
  <2>2. j \in named
    BY <1>2, <1>4, <2>1 DEF Named
  <2> QED
    BY <2>1, <2>2
<1> DEFINE f == [i \in of |-> CHOOSE j \in named : seq[j] = seen[i]]
<1>6. \A i \in of : f[i] \in named /\ seq[f[i]] = seen[i]
  BY <1>5
<1>7. f \in Injection(of, named)
  <2>1. f \in [of -> named]
    BY <1>6
  <2> HIDE DEF f
  <2>2. \A i, j \in of : f[i] = f[j] => i = j
    BY <1>4, <1>6 DEF SeenWithin
  <2>3. IsInjective(f)
    BY <2>1, <2>2 DEF IsInjective
  <2> QED
    BY <2>1, <2>3 DEF Injection
<1> HIDE DEF f
<1>8. Cardinality(of) <= Cardinality(named)
  BY <1>3, <1>7, FS_Injection
<1> QED
  BY <1>1, <1>2, <1>8


LEMMA Distributes ==
    ASSUME NEW a \in Nat, NEW b \in Nat, NEW c \in Nat
    PROVE  (a + b) * c = a * c + b * c /\ a * c \in Nat /\ b * c \in Nat
  OBVIOUS

LEMMA SummaryBorneOut ==
    ASSUME NEW seq \in Seq(AnyRow), NEW seen \in Seq(AnyRow), NEW t, SeenWithin(seen, t, seq),
           NEW summary, SummaryTells(summary, seen, t)
    PROVE  BorneOut(summary, BatchesOf(seq))
<1>1. PICK batches : batches = BatchesOf(seq)
  OBVIOUS
<1>2. PICK rows : rows = RowsSeen(seen, t)
  OBVIOUS
<1>3. Milli \in Nat \ {0}
  BY TraceAssumption
<1>4. \A row \in rows : row \in AnyRow /\ TraceSpan(row) \in ListedIn(batches)
  <2> SUFFICES ASSUME NEW row \in rows
               PROVE  row \in AnyRow /\ TraceSpan(row) \in ListedIn(batches)
    OBVIOUS
  <2>1. PICK i \in 1 .. Len(seen) : row = seen[i] /\ seen[i].trace = t
    BY <1>2 DEF RowsSeen, SeenOf
  <2>2. PICK j \in 1 .. Len(seq) : seq[j] = row
    BY <2>1 DEF SeenWithin, Among
  <2>3. TraceSpan(row) \in ListedIn(batches)
    BY <1>1, <2>2, ListedRows
  <2> QED
    BY <2>1, <2>3
<1>5. rows \in SUBSET AnyRow /\ rows # {}
  BY <1>2, <1>4 DEF SeenWithin, RowsSeen, SeenOf
<1>6. IsFiniteSet(rows)
  <2>1. PICK places : places = SeenOf(seen, t)
    OBVIOUS
  <2>2. IsFiniteSet(places)
    <3>1. places \in SUBSET (1 .. Len(seen))
      BY <2>1 DEF SeenOf
    <3> QED
      BY <3>1, RowsFinite
  <2> DEFINE f == [i \in places |-> seen[i]]
  <2>3. f \in Surjection(places, rows)
    BY <1>2, <2>1 DEF Surjection, RowsSeen
  <2> HIDE DEF f
  <2> QED
    BY <2>2, <2>3, FS_Surjection
<1>7. PICK start : start = FirstStart(rows)
  OBVIOUS
<1>8. PICK end : end = LastEnd(rows)
  OBVIOUS
<1>9. start \in Nat /\ \E row \in rows : row.timestamp = start
  BY <1>5, <1>7, FirstStartIs
<1>10. /\ end \in Nat
       /\ end > 0 => \E row \in rows : row.timestamp > 0 /\ row.duration > 0 /\ end = EndOf(row)
  BY <1>5, <1>6, <1>8, LastEndIs
<1>11. /\ summary.start = start * Milli /\ summary.duration = Lasted(start, end)
       /\ DOMAIN summary.stats = {ServiceName(seen[i]) : i \in SeenOf(seen, t)}
       /\ \A name \in DOMAIN summary.stats :
             summary.stats[name].spans = Cardinality(SeenOfName(seen, t, name))
  BY <1>2, <1>7, <1>8, Zenon DEF SummaryTells
<1>12. ASSUME NEW name \in DOMAIN summary.stats
       PROVE  name \in DOMAIN batches /\ summary.stats[name].spans <= Len(batches[name])
  <2>1. PICK i \in 1 .. Len(seen) : seen[i].trace = t /\ name = ServiceName(seen[i])
    BY <1>11 DEF SeenOf
  <2>2. PICK j \in 1 .. Len(seq) : seq[j] = seen[i]
    BY <2>1 DEF SeenWithin, Among
  <2>3. name \in DOMAIN batches
    <3>1. DOMAIN batches = {ServiceName(seq[k]) : k \in DOMAIN seq}
      BY <1>1, BatchIs
    <3>2. j \in DOMAIN seq /\ name = ServiceName(seq[j])
      BY <2>1, <2>2
    <3> QED
      BY <3>1, <3>2
  <2>4. PICK list : list = batches[name]
    OBVIOUS
  <2>5. PICK at : ListOf(list, seq, name, at)
    BY <1>1, <2>3, <2>4, BatchIs
  <2>6. PICK n : n = Cardinality(Named(seq, name))
    OBVIOUS
  <2>7. n \in Nat /\ list = [k \in 1 .. n |-> TraceSpan(seq[at[k]])]
    BY <2>5, <2>6, Zenon DEF ListOf
  <2>8. Len(list) = n
    BY <2>7
  <2>9. summary.stats[name].spans <= n
    BY <1>11, <2>6, CountedWithin
  <2> QED
    BY <2>3, <2>4, <2>8, <2>9
<1>13. \E span \in ListedIn(batches) : span.start <= summary.start
  <2>1. PICK row \in rows : row.timestamp = start
    BY <1>9
  <2>2. TraceSpan(row).start = start * Milli /\ start * Milli \in Nat
    BY <1>4, <2>1, TimesAre
  <2> QED
    BY <1>4, <1>11, <2>1, <2>2
<1>14. ASSUME summary.duration > 0
       PROVE  \E span \in ListedIn(batches) : summary.start + summary.duration * Milli <= span.end
  <2>1. end > start /\ summary.duration = end - start /\ end > 0
    BY <1>9, <1>10, <1>11, <1>14 DEF Lasted
  <2>2. PICK row \in rows : row.timestamp > 0 /\ row.duration > 0 /\ end = EndOf(row)
    BY <1>10, <2>1
  <2>3. row.timestamp \in Nat /\ row.duration \in Nat
    BY <1>4, <2>2, RowIs
  <2>4. TraceSpan(row).end = row.timestamp * Milli + row.duration
    BY <1>4, <2>2, TimesAre
  <2>5. PICK q : q = row.duration \div Milli
    OBVIOUS
  <2>6. q \in Nat /\ q * Milli <= row.duration
    BY <1>3, <2>3, <2>5, Quotient
  <2>7. end = row.timestamp + q
    BY <2>2, <2>5 DEF EndOf
  <2>8. end * Milli = row.timestamp * Milli + q * Milli /\ row.timestamp * Milli \in Nat /\ q * Milli \in Nat
    BY <1>3, <2>3, <2>6, <2>7, Distributes
  <2>9. PICK d \in Nat : d = end - start
    BY <1>9, <1>10, <2>1
  <2>10. end = start + d
    BY <1>9, <1>10, <2>9
  <2>11. end * Milli = start * Milli + d * Milli
    BY <1>3, <1>9, <2>9, <2>10, Distributes
  <2>12. summary.start + summary.duration * Milli = end * Milli
    BY <1>11, <2>1, <2>9, <2>11
  <2>13. end * Milli <= TraceSpan(row).end
    BY <2>3, <2>4, <2>6, <2>8
  <2> QED
    BY <1>4, <2>12, <2>13
<1>15. BorneOut(summary, batches)
  BY <1>12, <1>13, <1>14 DEF BorneOut
<1> QED
  BY <1>1, <1>15

\* SummaryWithin: a search says no more of a trace than the trace shows.
THEOREM SummariesAreWithin == Spec => []SummaryWithin
<1>1. ASSUME ViewsTrue, Shows("trace"), NEW summary \in found, summary.trace = opened.trace
      PROVE  BorneOut(summary, opened.batches)
  <2>1. PICK seen : seen = returned
    OBVIOUS
  <2>2. PICK t : t = opened.trace
    OBVIOUS
  <2>3. PICK s : s = stored
    OBVIOUS
  <2>4. Counted(s) /\ ReturnedIs(seen, s) /\ found = Summaries(seen)
    BY <1>1, <2>1, <2>3 DEF ViewsTrue
  <2>5. PICK seq : ShownFrom(seq, s, t, seen) /\ opened.batches = BatchesOf(seq)
    BY <1>1, <2>1, <2>2, <2>3 DEF ViewsTrue, OpenedIs, Shows
  <2>6. TenantRows(s) \subseteq AnyRow /\ TraceRows(s, t) \subseteq AnyRow
    BY <2>4, TraceRowsAre
  <2>7. seq \in Seq(AnyRow) /\ seen \in Seq(AnyRow)
    BY <2>4, <2>5, <2>6 DEF ShownFrom, ReturnedIs
  <2>8. PICK i \in DOMAIN seen : summary = Summary(seen[i].trace, seen)
    BY <1>1, <2>4, Zenon DEF Summaries
  <2>9. SummaryTells(summary, seen, seen[i].trace)
    BY <2>8, SummaryIs
  <2>10. seen[i].trace = t
    BY <1>1, <2>2, <2>9 DEF SummaryTells
  <2>11. SeenWithin(seen, t, seq)
    <3>1. i \in 1 .. Len(seen)
      BY <2>7, <2>8
    <3> QED
      BY <2>4, <2>5, <2>10, <3>1 DEF SeenWithin, ReturnedIs, ShownFrom
  <2>12. BorneOut(summary, BatchesOf(seq))
    BY <2>7, <2>9, <2>10, <2>11, SummaryBorneOut
  <2> QED
    BY <2>5, <2>12
<1>2. ViewsTrue => SummaryWithin
  <2>1. Listed = ListedIn(opened.batches)
    BY DEF Listed, ListedIn
  <2> QED
    BY <1>1, <2>1, Zenon DEF SummaryWithin, BorneOut
<1> QED
  BY <1>2, ViewsStayTrue, PTL


-----------------------------------------------------------------------------
(* What a trace shows of its spans.                                          *)

\* What TraceIsTrue says of a trace and its lists.
Faithful(t, batches, s) ==
    \A name \in DOMAIN batches : \A i \in DOMAIN batches[name] :
        LET shown == batches[name][i]
            span == SpanWith(shown.id)
        IN  /\ <<span.tenant, span.trace>> = <<Tenant, t>>
            /\ name = ServiceName(span)
            /\ shown.start \in span.start - Milli + 1 .. span.start
            /\ shown.end = IF shown.start > 0 /\ span.end > span.start
                            THEN shown.start + span.end - span.start ELSE 0
            /\ Cardinality({j \in DOMAIN batches[name] : batches[name][j].id = shown.id})
                  <= Max({s[batch] : batch \in {b \in Batches : SpanWith(shown.id) \in b}})

\* A row is shown with the times of its span.
LEMMA TimesOfSpan ==
    ASSUME NEW row \in AnyRow, NEW span, span = row.span, NEW shown, shown = TraceSpan(row)
    PROVE  /\ shown.start \in span.start - Milli + 1 .. span.start
           /\ shown.end = IF shown.start > 0 /\ span.end > span.start
                           THEN shown.start + span.end - span.start ELSE 0
<1>1. PICK sp : sp = row.span
  OBVIOUS
<1>2. sp \in Spans /\ row.timestamp = sp.start \div Milli /\ row.duration = sp.end - sp.start
  BY <1>1, RowIs DEF TellsOf
<1>3. sp.start \in Nat /\ sp.end \in Nat
  BY <1>2, SpanIs
<1>4. PICK a \in Nat : a = sp.start
  BY <1>3
<1>5. PICK e \in Nat : e = sp.end
  BY <1>3
<1>6. PICK time : time = a \div Milli
  OBVIOUS
<1>7. Milli \in Nat \ {0}
  BY TraceAssumption
<1>8. time \in Nat /\ time * Milli <= a /\ a < time * Milli + Milli
  BY <1>6, <1>7, Quotient
<1>9. PICK told : told = TraceSpan(row)
  OBVIOUS
<1>10. /\ told.start = time * Milli /\ time * Milli \in Nat /\ (time > 0) = (time * Milli > 0)
       /\ told.end = IF row.duration > 0 /\ time > 0 THEN time * Milli + row.duration ELSE 0
  BY <1>2, <1>4, <1>6, <1>9, TimesAre
<1>11. PICK start : start = time * Milli
  OBVIOUS
<1>12. start \in Nat /\ start <= a /\ a < start + Milli /\ told.start = start /\ (time > 0) = (start > 0)
  BY <1>8, <1>10, <1>11
<1>13. told.start \in a - Milli + 1 .. a
  BY <1>7, <1>12
<1>14. told.end = IF start > 0 /\ e > a THEN start + e - a ELSE 0
  BY <1>2, <1>4, <1>5, <1>10, <1>11, <1>12
<1> QED
  BY <1>1, <1>4, <1>5, <1>9, <1>12, <1>13, <1>14

\* The span of a row that is stored is in an export that was stored at least as
\* often as the copy of the row says.
LEMMA CopyStored ==
    ASSUME NEW s, Counted(s), NEW row \in RowsStored(s)
    PROVE  \E batch \in Batches : row.span \in batch /\ row.copy \in 1 .. s[batch]
<1>1. PICK batch \in Batches : \E span \in batch : \E copy \in 1 .. s[batch] : row = RowOf(span, copy)
  BY RowStored
<1>2. PICK span \in batch, copy \in 1 .. s[batch] : row = RowOf(span, copy)
  BY <1>1
<1>3. row.span = span /\ row.copy = copy
  BY <1>2 DEF RowOf
<1> QED
  BY <1>2, <1>3

\* A span is listed as often as it was stored at most.
LEMMA CopiesListed ==
    ASSUME NEW s, Counted(s), NEW seq \in Seq(RowsStored(s)),
           \A i, j \in 1 .. Len(seq) : seq[i] = seq[j] => i = j,
           NEW name, NEW list, NEW at, ListOf(list, seq, name, at),
           NEW id, NEW i \in DOMAIN list, list[i].id = id
    PROVE  Cardinality({j \in DOMAIN list : list[j].id = id})
              <= Max({s[batch] : batch \in {b \in Batches : SpanWith(id) \in b}})
<1>1. PICK n : n = Cardinality(Named(seq, name))
  OBVIOUS
<1>2. /\ n \in Nat /\ at \in [1 .. n -> Named(seq, name)]
      /\ \A j, k \in 1 .. n : at[j] = at[k] => j = k
      /\ list = [j \in 1 .. n |-> TraceSpan(seq[at[j]])]
  BY <1>1, Zenon DEF ListOf
<1>3. DOMAIN list = 1 .. n /\ \A j \in 1 .. n : list[j] = TraceSpan(seq[at[j]])
  BY <1>2
<1>4. \A j \in 1 .. n : at[j] \in 1 .. Len(seq) /\ seq[at[j]] \in RowsStored(s) /\ list[j].id = seq[at[j]].id
  BY <1>2, <1>3 DEF Named, TraceSpan
<1>5. PICK holding : holding = {b \in Batches : SpanWith(id) \in b}
  OBVIOUS
<1>6. PICK counts : counts = {s[batch] : batch \in holding}
  OBVIOUS
<1>7. PICK same : same = {j \in DOMAIN list : list[j].id = id}
  OBVIOUS
<1>8. ASSUME NEW j \in same
      PROVE  /\ j \in 1 .. n /\ seq[at[j]] \in AnyRow /\ seq[at[j]].span = SpanWith(id)
             /\ \E batch \in holding : seq[at[j]].copy \in 1 .. s[batch]
  <2>1. j \in 1 .. n /\ list[j].id = id
    BY <1>3, <1>7, <1>8
  <2>2. PICK row : row = seq[at[j]]
    OBVIOUS
  <2>3. row \in RowsStored(s) /\ row.id = id
    BY <1>4, <2>1, <2>2
  <2>4. row \in AnyRow
    BY <2>3, CountedRows
  <2>5. row.span = SpanWith(id)
    BY <2>3, <2>4, RowIs
  <2>6. PICK batch \in Batches : row.span \in batch /\ row.copy \in 1 .. s[batch]
    BY <2>3, CopyStored
  <2>7. batch \in holding
    BY <1>5, <2>5, <2>6
  <2> QED
    BY <2>1, <2>2, <2>4, <2>5, <2>6, <2>7
<1>9. i \in same
  BY <1>7
<1>10. counts \in SUBSET Nat /\ counts # {}
  <2>1. \A batch \in Batches : s[batch] \in Nat
    BY DEF Counted
  <2>2. \E batch \in holding : TRUE
    BY <1>8, <1>9
  <2> QED
    BY <1>5, <1>6, <2>1, <2>2
<1>11. PICK most : most = Max(counts)
  OBVIOUS
<1>12. most \in Nat /\ \A x \in counts : x <= most
  <2>1. PICK b \in Nat : \A batch \in Batches : s[batch] <= b
    BY DEF Counted
  <2>2. \A x \in counts : x <= b
    BY <1>5, <1>6, <2>1
  <2> QED
    BY <1>10, <1>11, <2>1, <2>2, MaxIs
<1> DEFINE f == [j \in same |-> seq[at[j]].copy]
<1>13. \A j \in same : seq[at[j]].copy \in 1 .. most
  <2> SUFFICES ASSUME NEW j \in same
               PROVE  seq[at[j]].copy \in 1 .. most
    OBVIOUS
  <2>1. PICK batch \in holding : seq[at[j]].copy \in 1 .. s[batch]
    BY <1>8
  <2>2. s[batch] \in counts /\ s[batch] \in Nat
    BY <1>5, <1>6, <1>10, <2>1
  <2>3. s[batch] <= most
    BY <1>12, <2>2
  <2> QED
    BY <1>12, <2>1, <2>2, <2>3
<1>14. \A j, k \in same : seq[at[j]].copy = seq[at[k]].copy => j = k
  <2> SUFFICES ASSUME NEW j \in same, NEW k \in same, seq[at[j]].copy = seq[at[k]].copy
               PROVE  j = k
    OBVIOUS
  <2>1. /\ seq[at[j]] = RowOf(SpanWith(id), seq[at[j]].copy)
        /\ seq[at[k]] = RowOf(SpanWith(id), seq[at[k]].copy)
    <3>1. TellsOf(seq[at[j]]) /\ TellsOf(seq[at[k]])
      BY <1>8, RowIs
    <3> QED
      BY <1>8, <3>1, Zenon DEF TellsOf
  <2>2. seq[at[j]] = seq[at[k]]
    BY <2>1
  <2>3. at[j] = at[k]
    BY <1>4, <1>8, <2>2
  <2> QED
    BY <1>2, <1>8, <2>3
<1>15. f \in Injection(same, 1 .. most)
  <2>1. f \in [same -> 1 .. most] /\ \A j, k \in same : f[j] = f[k] => j = k
    BY <1>13, <1>14
  <2> HIDE DEF f
  <2>2. IsInjective(f)
    BY <2>1 DEF IsInjective
  <2> QED
    BY <2>1, <2>2 DEF Injection
<1>16. IsFiniteSet(1 .. most) /\ Cardinality(1 .. most) = most
  BY <1>12, FS_Interval
<1> HIDE DEF f
<1>17. Cardinality(same) <= Cardinality(1 .. most)
  BY <1>15, <1>16, FS_Injection
<1>18. Cardinality(same) <= most
  BY <1>16, <1>17
<1> QED
  BY <1>5, <1>6, <1>7, <1>11, <1>18

LEMMA TraceFaithful ==
    ASSUME NEW s, Counted(s), NEW t, NEW seen, NEW seq, ShownFrom(seq, s, t, seen)
    PROVE  Faithful(t, BatchesOf(seq), s)
<1>1. PICK batches : batches = BatchesOf(seq)
  OBVIOUS
<1>2. /\ seq \in Seq(TraceRows(s, t)) /\ \A i, j \in 1 .. Len(seq) : seq[i] = seq[j] => i = j
  BY DEF ShownFrom
<1>3. TraceRows(s, t) \subseteq AnyRow /\ TraceRows(s, t) \subseteq RowsStored(s)
  BY TraceRowsAre DEF TraceRows
<1>4. seq \in Seq(AnyRow) /\ seq \in Seq(RowsStored(s))
  BY <1>2, <1>3
<1>6. ASSUME NEW name \in DOMAIN batches, NEW i \in DOMAIN batches[name]
      PROVE  LET shown == batches[name][i]
                 span == SpanWith(shown.id)
             IN  /\ <<span.tenant, span.trace>> = <<Tenant, t>>
                 /\ name = ServiceName(span)
                 /\ shown.start \in span.start - Milli + 1 .. span.start
                 /\ shown.end = IF shown.start > 0 /\ span.end > span.start
                                 THEN shown.start + span.end - span.start ELSE 0
                 /\ Cardinality({j \in DOMAIN batches[name] : batches[name][j].id = shown.id})
                       <= Max({s[batch] : batch \in {b \in Batches : SpanWith(shown.id) \in b}})
  <2>1. PICK list : list = batches[name]
    OBVIOUS
  <2>2. PICK at : ListOf(list, seq, name, at)
    BY <1>1, <1>4, <2>1, BatchIs
  <2>3. PICK shown : shown = list[i]
    OBVIOUS
  <2>4. at[i] \in Named(seq, name) /\ shown = TraceSpan(seq[at[i]])
    BY <2>1, <2>2, <2>3 DEF ListOf
  <2>5. PICK row : row = seq[at[i]]
    OBVIOUS
  <2>6. row \in AnyRow /\ row \in TraceRows(s, t) /\ name = ServiceName(row) /\ shown = TraceSpan(row)
    BY <1>2, <1>4, <2>4, <2>5 DEF Named
  <2>7. shown.id = row.id /\ shown.parent = row.parent
    BY <2>6 DEF TraceSpan
  <2>8. PICK span : span = SpanWith(shown.id)
    OBVIOUS
  <2>9. span = row.span /\ row.tenant = span.tenant /\ row.trace = span.trace /\ row.service = span.service
    BY <2>6, <2>7, <2>8, RowIs DEF TellsOf
  <2>10. <<span.tenant, span.trace>> = <<Tenant, t>>
    BY <2>6, <2>9 DEF TraceRows
  <2>11. name = ServiceName(span)
    BY <2>6, <2>9, Zenon DEF ServiceName
  <2>12. /\ shown.start \in span.start - Milli + 1 .. span.start
         /\ shown.end = IF shown.start > 0 /\ span.end > span.start
                         THEN shown.start + span.end - span.start ELSE 0
    BY <2>6, <2>9, TimesOfSpan
  <2>13. Cardinality({j \in DOMAIN list : list[j].id = shown.id})
            <= Max({s[batch] : batch \in {b \in Batches : SpanWith(shown.id) \in b}})
    BY <1>2, <1>4, <2>1, <2>2, <2>3, CopiesListed
  <2> QED
    BY <2>1, <2>3, <2>8, <2>10, <2>11, <2>12, <2>13
<1>7. Faithful(t, batches, s)
  BY <1>6, Zenon DEF Faithful
<1> QED
  BY <1>1, <1>7

\* TraceIsTrue: a trace is shown with the spans its exporters sent.
THEOREM TracesAreTrue == Spec => []TraceIsTrue
<1>1. ASSUME ViewsTrue, Shows("trace")
      PROVE  Faithful(opened.trace, opened.batches, stored)
  <2>1. PICK seen : seen = returned
    OBVIOUS
  <2>2. PICK t : t = opened.trace
    OBVIOUS
  <2>3. PICK s : s = stored
    OBVIOUS
  <2>4. Counted(s)
    BY <1>1, <2>3 DEF ViewsTrue
  <2>5. PICK seq : ShownFrom(seq, s, t, seen) /\ opened.batches = BatchesOf(seq)
    BY <1>1, <2>1, <2>2, <2>3 DEF ViewsTrue, OpenedIs, Shows
  <2>6. Faithful(t, BatchesOf(seq), s)
    BY <2>4, <2>5, TraceFaithful
  <2> QED
    BY <2>2, <2>3, <2>5, <2>6
<1>2. ViewsTrue => TraceIsTrue
  BY <1>1, Zenon DEF TraceIsTrue, Faithful
<1> QED
  BY <1>2, ViewsStayTrue, PTL



-----------------------------------------------------------------------------
(* Types.                                                                    *)

SummaryType(summary) ==
    /\ summary.trace \in Traces /\ summary.root \in Ids \cup {Nothing}
    /\ summary.service \in Services \cup {Nothing}
    /\ summary.start \in Nat /\ summary.duration \in Nat
    /\ \A name \in DOMAIN summary.stats :
          summary.stats[name].errors \in 0 .. summary.stats[name].spans

StoredType(s) == \A batch \in Batches : s[batch] \in 0 .. Copies[batch]

ListType(list) == list.tag \in Tags \cup {Nothing} /\ Cardinality(list.values) <= TagLimit

OpenType(open) ==
    /\ open.view \in {"none", "trace", "outline"}
    /\ open.trace \in Traces \cup {Nothing}
    /\ open.status \in {"none", "ok", "not found", "failed"}
    /\ open.outline \in Seq(OutlineRow)

\* What TypeOK says beside the summaries, whose types come from the rows.
Typed ==
    /\ StoredType(stored) /\ outcome \in {"none", "ok", "refused", "failed"}
    /\ ListType(listed) /\ OpenType(opened) /\ requests \in 0 .. Requests

LEMMA DepthIsNumber ==
    ASSUME NEW rows \in SUBSET AnyRow, IsFiniteSet(rows), NEW id \in Ids
    PROVE  Depth(rows, id) \in Nat
<1> DEFINE N == Cardinality(rows)
<1>1. N \in Nat
  BY FS_CardinalityType
<1>2. PICK climb : IsClimb(climb, rows, id) /\ Depth(rows, id) = climb[N].depth
  BY ClimbIs
<1> HIDE DEF N
<1>3. /\ climb[0] = [at |-> id, passed |-> {}, depth |-> 0]
      /\ \A n \in 1 .. N : climb[n] = NextClimb(rows, climb[n - 1])
  BY <1>2 DEF IsClimb, N
<1> DEFINE Good == {n \in Nat : n <= N => climb[n] \in Climbs}
<1>4. 0 \in Good
  BY <1>3 DEF Climbs
<1>5. ASSUME NEW n \in Nat, n \in Good
      PROVE  n + 1 \in Good
  <2> SUFFICES ASSUME n + 1 <= N
               PROVE  climb[n + 1] \in Climbs
    OBVIOUS
  <2>1. climb[n] \in Climbs
    BY <1>1, <1>5
  <2>2. n + 1 \in 1 .. N /\ (n + 1) - 1 = n
    BY <1>1
  <2>3. climb[n + 1] = NextClimb(rows, climb[n])
    BY <1>3, <2>2
  <2> QED
    BY <2>1, <2>3, NextClimbTyped
<1> HIDE DEF Good
<1>6. Nat \subseteq Good
  BY <1>4, <1>5, AllNumbers
<1>7. climb[N] \in Climbs
  BY <1>1, <1>6 DEF Good
<1> QED
  BY <1>2, <1>7 DEF Climbs

LEMMA SummaryTyped ==
    ASSUME NEW seen \in Seq(AnyRow), NEW i \in 1 .. Len(seen)
    PROVE  SummaryType(Summary(seen[i].trace, seen))
<1>1. PICK t : t = seen[i].trace
  OBVIOUS
<1>2. PICK of : of = SeenOf(seen, t)
  OBVIOUS
<1>3. PICK rows : rows = RowsSeen(seen, t)
  OBVIOUS
<1>4. /\ of = {j \in DOMAIN seen : seen[j].trace = t} /\ rows = {seen[j] : j \in of}
      /\ of \in SUBSET (1 .. Len(seen)) /\ i \in of
  BY <1>1, <1>2, <1>3 DEF SeenOf, RowsSeen
<1>5. \A j \in of : seen[j] \in AnyRow
  BY <1>4
<1>6. IsFiniteSet(of) /\ Len(seen) \in Nat /\ \A S \in SUBSET of : IsFiniteSet(S)
  BY <1>4, RowsFinite, FS_Subset
<1>7. rows \in SUBSET AnyRow /\ rows # {} /\ IsFiniteSet(rows)
  <2> DEFINE f == [j \in of |-> seen[j]]
  <2>1. f \in Surjection(of, rows)
    BY <1>4 DEF Surjection
  <2> HIDE DEF f
  <2>2. IsFiniteSet(rows)
    BY <1>6, <2>1, FS_Surjection
  <2> QED
    BY <1>4, <1>5, <2>2
<1>8. \A S \in SUBSET of : S # {} => LastOf(seen, S) \in AnyRow /\ \E j \in S : LastOf(seen, S) = seen[j]
  <2> SUFFICES ASSUME NEW S \in SUBSET of, S # {}
               PROVE  LastOf(seen, S) \in AnyRow /\ \E j \in S : LastOf(seen, S) = seen[j]
    OBVIOUS
  <2>1. S \in SUBSET Nat /\ \A j \in S : j <= Len(seen)
    BY <1>4
  <2>2. Max(S) \in S
    BY <1>6, <2>1, MaxIs
  <2> QED
    BY <1>5, <2>2 DEF LastOf
<1>9. PICK roots : roots = {j \in of : IsRoot(seen[j])}
  OBVIOUS
<1>10. PICK named : named = {j \in roots : seen[j].service # Nothing}
  OBVIOUS
<1>11. PICK start : start = FirstStart(rows)
  OBVIOUS
<1>12. PICK end : end = LastEnd(rows)
  OBVIOUS
<1>13. start \in Nat /\ end \in Nat
  BY <1>7, <1>11, <1>12, FirstStartIs, LastEndIs
<1>14. PICK summary : summary = Summary(t, seen)
  OBVIOUS
<1>15. /\ summary.trace = t
       /\ summary.root = IF roots = {} THEN Nothing ELSE LastOf(seen, roots).id
       /\ summary.service = IF named = {} THEN Nothing ELSE LastOf(seen, named).service
       /\ summary.start = start * Milli /\ summary.duration = Lasted(start, end)
  BY <1>4, <1>9, <1>10, <1>11, <1>12, <1>14 DEF Summary
<1>16. t \in Traces
  BY <1>1, <1>4, <1>5, RowIs
<1>17. summary.root \in Ids \cup {Nothing}
  <2>1. CASE roots = {}
    BY <1>15, <2>1
  <2>2. CASE roots # {}
    <3>1. roots \in SUBSET of
      BY <1>9
    <3>2. LastOf(seen, roots) \in AnyRow
      BY <1>8, <2>2, <3>1
    <3> QED
      BY <1>15, <2>2, <3>2, RowIs
  <2> QED
    BY <2>1, <2>2
<1>18. summary.service \in Services \cup {Nothing}
  <2>1. CASE named = {}
    BY <1>15, <2>1
  <2>2. CASE named # {}
    <3>1. named \in SUBSET of
      BY <1>9, <1>10
    <3>2. PICK row : row = LastOf(seen, named) /\ row \in AnyRow
      BY <1>8, <2>2, <3>1
    <3>3. TellsOf(row)
      BY <3>2, RowIs
    <3>4. row.service = row.span.service /\ row.span \in Spans
      BY <3>3 DEF TellsOf
    <3>5. row.span \in Span
      BY <3>4, SpanIs
    <3> QED
      BY <1>15, <2>2, <3>2, <3>4, <3>5 DEF Span
  <2> QED
    BY <2>1, <2>2
<1>19. summary.start \in Nat /\ summary.duration \in Nat
  <2>1. Milli \in Nat
    BY TraceAssumption
  <2> QED
    BY <1>13, <1>15, <2>1 DEF Lasted
<1>20. ASSUME NEW name \in DOMAIN summary.stats
       PROVE  summary.stats[name].errors \in 0 .. summary.stats[name].spans
  <2>1. PICK those : those = {j \in of : ServiceName(seen[j]) = name}
    OBVIOUS
  <2>2. PICK failing : failing = {j \in those : seen[j].failed}
    OBVIOUS
  <2>3. PICK stats : stats = [n \in {ServiceName(seen[j]) : j \in of} |->
                    [spans  |-> Cardinality({j \in of : ServiceName(seen[j]) = n}),
                     errors |-> Cardinality({j \in {k \in of : ServiceName(seen[k]) = n} : seen[j].failed})]]
    OBVIOUS
  <2>4. summary.stats = stats
    BY <1>4, <1>14, <2>3 DEF Summary
  <2>5. stats[name].spans = Cardinality(those) /\ stats[name].errors = Cardinality(failing)
    BY <1>20, <2>1, <2>2, <2>3, <2>4
  <2>6. those \in SUBSET of /\ failing \in SUBSET those
    BY <2>1, <2>2
  <2>7. Cardinality(failing) \in Nat /\ Cardinality(those) \in Nat /\ Cardinality(failing) <= Cardinality(those)
    BY <1>6, <2>6, FS_Subset, FS_CardinalityType
  <2> QED
    BY <2>4, <2>5, <2>7
<1>21. SummaryType(summary)
  BY <1>15, <1>16, <1>17, <1>18, <1>19, <1>20 DEF SummaryType
<1> QED
  BY <1>1, <1>14, <1>21

LEMMA FoundTyped ==
    ASSUME ViewsTrue, NEW summary \in found
    PROVE  SummaryType(summary)
<1>1. PICK seen : seen = returned
  OBVIOUS
<1>2. PICK s : s = stored
  OBVIOUS
<1>3. Counted(s) /\ ReturnedIs(seen, s) /\ summary \in Summaries(seen)
  BY <1>1, <1>2 DEF ViewsTrue
<1>4. TenantRows(s) \subseteq AnyRow
  BY <1>3, TraceRowsAre
<1>5. seen \in Seq(AnyRow)
  BY <1>3, <1>4 DEF ReturnedIs
<1>6. PICK i \in DOMAIN seen : summary = Summary(seen[i].trace, seen)
  BY <1>3, Zenon DEF Summaries
<1> QED
  BY <1>5, <1>6, SummaryTyped

LEMMA NoneTyped == ListType(NotListed) /\ OpenType(NotOpen)
<1>1. Cardinality({}) = 0
  BY FS_EmptySet
<1>2. <<>> \in Seq(OutlineRow)
  OBVIOUS
<1>3. ListType(NotListed)
  BY <1>1, TraceAssumption DEF ListType, NotListed
<1>4. OpenType(NotOpen)
  BY <1>2 DEF OpenType, NotOpen
<1> QED
  BY <1>3, <1>4

LEMMA ValuesFinite ==
    ASSUME ViewsTrue, NEW list
    PROVE  IsFiniteSet(Values(list))
<1>1. PICK values : values = Values(list)
  OBVIOUS
<1>2. PICK rows : rows = {r \in Rows : r.tenant = Tenant /\ r.timestamp \in list.from .. list.to}
  OBVIOUS
<1>3. IsFiniteSet(rows)
  <2>1. IsFiniteSet(Rows)
    BY RowsAreStored DEF ViewsTrue, Counted
  <2> QED
    BY <1>2, <2>1, FS_Subset
<1>4. values = {TextOf(row, TagColumn(list.tag)) : row \in rows}
  BY <1>1, <1>2 DEF Values
<1> DEFINE f == [row \in rows |-> TextOf(row, TagColumn(list.tag))]
<1>5. f \in Surjection(rows, values)
  BY <1>4 DEF Surjection
<1> HIDE DEF f
<1>6. IsFiniteSet(values)
  BY <1>3, <1>5, FS_Surjection
<1> QED
  BY <1>1, <1>6

\* A list holds no more values than its LIMIT.
LEMMA ListTyped ==
    ASSUME ViewsTrue, NEW list \in Lists, TagValues(list)
    PROVE  /\ ListType(listed') /\ opened' = NotOpen /\ stored' = stored
           /\ outcome' \in {"ok", "refused", "failed"}
           /\ requests < Requests /\ requests' = requests + 1
<1>1. list.tag \in Tags /\ TagLimit \in Nat
  BY TraceAssumption DEF List
<1>2. PICK how, values : /\ how \in {"ok", "refused", "failed"} /\ Offer(list, how, values)
                         /\ Cardinality(values) <= TagLimit
  <2>1. CASE Offer(list, "refused", {}) \/ Offer(list, "failed", {})
    <3>1. Cardinality({}) <= TagLimit
      BY <1>1, FS_EmptySet
    <3> QED
      BY <2>1, <3>1
  <2>2. CASE \E values \in kSubset(Min({TagLimit, Cardinality(Values(list))}), Values(list)) :
                Offer(list, "ok", values \ {Nothing})
    <3>1. PICK n : n = Cardinality(Values(list))
      OBVIOUS
    <3>2. PICK values \in kSubset(Min({TagLimit, n}), Values(list)) : Offer(list, "ok", values \ {Nothing})
      BY <2>2, <3>1
    <3>3. IsFiniteSet(Values(list))
      BY ValuesFinite
    <3>4. n \in Nat
      BY <3>1, <3>3, FS_CardinalityType
    <3>5. Min({TagLimit, n}) <= TagLimit /\ Min({TagLimit, n}) \in Nat
      <4>1. {TagLimit, n} \in SUBSET Nat /\ {TagLimit, n} # {} /\ TagLimit \in {TagLimit, n}
        BY <1>1, <3>4
      <4> QED
        BY <4>1, MinIs
    <3>6. values \in SUBSET Values(list) /\ Cardinality(values) = Min({TagLimit, n})
      BY <3>2 DEF kSubset
    <3>7. IsFiniteSet(values)
      BY <3>3, <3>6, FS_Subset
    <3>8. values \ {Nothing} \in SUBSET values
      OBVIOUS
    <3>9. /\ Cardinality(values \ {Nothing}) <= Cardinality(values)
          /\ Cardinality(values \ {Nothing}) \in Nat
      BY <3>7, <3>8, FS_Subset, FS_CardinalityType
    <3>10. Cardinality(values \ {Nothing}) <= TagLimit
      BY <1>1, <3>5, <3>6, <3>9
    <3> QED
      BY <3>2, <3>10
  <2> QED
    BY <2>1, <2>2, Zenon DEF TagValues
<1>3. ListType(listed')
  BY <1>1, <1>2 DEF Offer, ListType
<1> QED
  BY <1>2, <1>3 DEF Offer

\* The depths of an outline are numbers.
LEMMA OutlineTyped ==
    ASSUME ViewsTrue, NEW t, NEW outline \in Outlines(t)
    PROVE  outline \in Seq(OutlineRow)
<1>1. PICK s : s = stored
  OBVIOUS
<1>2. PICK rows : rows = TraceRows(s, t)
  OBVIOUS
<1>3. RowsOf(t) = rows
  BY <1>1, <1>2, RowsAreStored DEF RowsOf, TraceRows
<1>4. rows \in SUBSET AnyRow /\ IsFiniteSet(rows)
  <2>1. Counted(s)
    BY <1>1 DEF ViewsTrue
  <2> QED
    BY <1>2, <2>1, TraceRowsAre
<1>5. PICK key : key = [row \in rows |-> Time(row)]
  OBVIOUS
<1>6. \A row \in rows : key[row] \in Nat
  BY <1>4, <1>5, RowIs DEF Time
<1>7. PICK seq \in InOrder(rows, key) : \E ids \in InHierarchy(seq) : LinesOf(outline, ids, rows)
  <2>1. \E ids \in UNION {InHierarchy(seq) : seq \in ByTime(rows)} : LinesOf(outline, ids, rows)
    BY <1>3, Zenon DEF Outlines, LinesOf, IdsOfRows
  <2>2. ByTime(rows) = InOrder(rows, key)
    BY <1>5, Zenon DEF ByTime
  <2> QED
    BY <2>1, <2>2, Zenon
<1>8. PICK ids \in InHierarchy(seq) : LinesOf(outline, ids, rows)
  BY <1>7
<1>9. ids \in Seq(Ids) /\ {ids[i] : i \in DOMAIN ids} = IdsOfRows(rows)
  BY <1>4, <1>6, <1>7, <1>8, OutlineShows
<1>10. PICK d : d = [x \in IdsOfRows(rows) |-> Depth(rows, x)]
  OBVIOUS
<1>11. outline = [i \in DOMAIN ids |-> [id |-> ids[i], depth |-> d[ids[i]]]]
  BY <1>8, <1>10 DEF LinesOf
<1>12. \A i \in DOMAIN ids : ids[i] \in Ids /\ d[ids[i]] \in Nat
  <2> SUFFICES ASSUME NEW i \in DOMAIN ids
               PROVE  ids[i] \in Ids /\ d[ids[i]] \in Nat
    OBVIOUS
  <2>1. ids[i] \in Ids /\ ids[i] \in IdsOfRows(rows)
    BY <1>9
  <2>2. Depth(rows, ids[i]) \in Nat
    BY <1>4, <2>1, DepthIsNumber
  <2> QED
    BY <1>10, <2>1, <2>2
<1>13. PICK n \in Nat : DOMAIN ids = 1 .. n
  BY <1>9
<1> QED
  BY <1>11, <1>12, <1>13 DEF OutlineRow

LEMMA InitTyped == Init => Typed
<1>1. StoredType([batch \in Batches |-> 0])
  BY TraceAssumption DEF StoredType
<1>2. ListType(NotListed) /\ OpenType(NotOpen) /\ 0 \in 0 .. Requests
  BY NoneTyped, TraceAssumption
<1> QED
  BY <1>1, <1>2 DEF Init, Typed

LEMMA OneRequest ==
    ASSUME NEW n \in 0 .. Requests, n < Requests
    PROVE  n + 1 \in 0 .. Requests
  BY TraceAssumption

LEMMA AnswerTyped ==
    ASSUME Typed, NEW how \in {"ok", "refused", "failed"}, NEW seq, Answer(how, seq)
    PROVE  Typed'
<1>1. /\ requests < Requests /\ opened' = NotOpen /\ listed' = NotListed /\ requests' = requests + 1
      /\ stored' = stored /\ outcome' = how
  BY DEF Answer
<1>2. requests \in 0 .. Requests /\ ListType(NotListed) /\ OpenType(NotOpen)
  BY NoneTyped DEF Typed
<1>3. requests' \in 0 .. Requests
  BY <1>1, <1>2, OneRequest, Zenon
<1> QED
  BY <1>1, <1>2, <1>3 DEF Typed

LEMMA OpenTyped ==
    ASSUME Typed, NEW t \in Traces, NEW view \in {"trace", "outline"},
           NEW status \in {"ok", "not found", "failed"}, NEW batches, NEW outline \in Seq(OutlineRow),
           Open(t, view, status, batches, outline)
    PROVE  Typed'
<1>1. PICK open : open = [view |-> view, trace |-> t, status |-> status, batches |-> batches, outline |-> outline]
  OBVIOUS
<1>2. OpenType(open)
  BY <1>1 DEF OpenType
<1>3. /\ requests < Requests /\ opened' = open /\ listed' = NotListed /\ requests' = requests + 1
      /\ stored' = stored /\ outcome' = outcome
  BY <1>1 DEF Open
<1>4. requests \in 0 .. Requests /\ Requests \in Nat /\ ListType(NotListed)
  BY NoneTyped, TraceAssumption DEF Typed
<1>5. requests' \in 0 .. Requests
  BY <1>3, <1>4, OneRequest, Zenon
<1> QED
  BY <1>2, <1>3, <1>4, <1>5, Zenon DEF Typed

LEMMA StepTyped ==
    ASSUME ViewsTrue, Typed, [Next]_vars
    PROVE  Typed'
<1>1. requests \in 0 .. Requests /\ Requests \in Nat /\ ListType(NotListed) /\ OpenType(NotOpen)
  BY NoneTyped, TraceAssumption DEF Typed
<1>2. CASE \E batch \in Batches : Insert(batch)
  <2>1. PICK batch \in Batches : Insert(batch)
    BY <1>2
  <2>2. StoredType(stored')
    <3>1. stored \in [Batches -> Nat]
      BY DEF ViewsTrue, Counted
    <3> QED
      BY <2>1, <3>1, TraceAssumption DEF Insert, Typed, StoredType
  <2> QED
    BY <2>1, <2>2 DEF Insert, Typed
<1>3. CASE \E search \in Searches :
              SearchSpans(search) \/ SearchOthers(search) \/ SearchRefused(search) \/ SearchFails(search)
  <2>1. PICK search \in Searches :
                SearchSpans(search) \/ SearchOthers(search) \/ SearchRefused(search) \/ SearchFails(search)
    BY <1>3
  <2>2. CASE SearchSpans(search)
    <3>1. PICK seq : Answer("ok", Kept(search, seq))
      BY <2>2 DEF SearchSpans
    <3> QED
      BY <3>1, AnswerTyped
  <2>3. CASE SearchOthers(search)
    BY <2>3, AnswerTyped DEF SearchOthers
  <2>4. CASE SearchRefused(search)
    BY <2>4, AnswerTyped DEF SearchRefused
  <2>5. CASE SearchFails(search)
    BY <2>5, AnswerTyped DEF SearchFails
  <2> QED
    BY <2>1, <2>2, <2>3, <2>4, <2>5
<1>4. CASE \E list \in Lists : TagValues(list)
  <2>1. PICK list \in Lists : TagValues(list)
    BY <1>4
  <2>2. /\ ListType(listed') /\ opened' = NotOpen /\ stored' = stored
        /\ outcome' \in {"ok", "refused", "failed"}
        /\ requests < Requests /\ requests' = requests + 1
    BY <2>1, ListTyped
  <2> QED
    BY <1>1, <2>2 DEF Typed
<1>5. CASE \E t \in Traces : \/ TraceByID(t) \/ ExpandTrace(t)
                              \/ \E view \in {"trace", "outline"} : TraceFails(t, view)
  <2>1. PICK t \in Traces : \/ TraceByID(t) \/ ExpandTrace(t)
                            \/ \E view \in {"trace", "outline"} : TraceFails(t, view)
    BY <1>5
  <2>2. <<>> \in Seq(OutlineRow)
    OBVIOUS
  <2>3. CASE TraceByID(t)
    <3>1. CASE Open(t, "trace", "not found", <<>>, <<>>)
      BY <2>2, <3>1, OpenTyped
    <3>2. CASE \E seq \in Oldest(RowsOf(t)) : Open(t, "trace", "ok", BatchesOf(seq), <<>>)
      BY <2>2, <3>2, OpenTyped
    <3> QED
      BY <2>3, <3>1, <3>2, Zenon DEF TraceByID
  <2>4. CASE ExpandTrace(t)
    <3>1. PICK outline \in Outlines(t) :
              Open(t, "outline", IF outline = <<>> THEN "not found" ELSE "ok", <<>>, outline)
      BY <2>4 DEF ExpandTrace
    <3>2. PICK status : status = IF outline = <<>> THEN "not found" ELSE "ok"
      OBVIOUS
    <3>3. outline \in Seq(OutlineRow) /\ Open(t, "outline", status, <<>>, outline)
      BY <3>1, <3>2, OutlineTyped
    <3> QED
      BY <3>2, <3>3, OpenTyped
  <2>5. CASE \E view \in {"trace", "outline"} : TraceFails(t, view)
    BY <2>2, <2>5, OpenTyped DEF TraceFails
  <2> QED
    BY <2>1, <2>3, <2>4, <2>5
<1>6. CASE UNCHANGED vars
  BY <1>6 DEF vars, Typed
<1> QED
  BY <1>2, <1>3, <1>4, <1>5, <1>6, Zenon DEF Next

\* TypeOK: the depths of an outline and the times of a summary are numbers, no
\* service has more errors than spans, and no list is longer than its LIMIT.
THEOREM TypeCorrect == Spec => []TypeOK
<1>1. ViewsTrue /\ Typed => TypeOK
  BY FoundTyped, Zenon DEF ViewsTrue, Typed, TypeOK, SummaryType, StoredType, ListType, OpenType
<1>2. Init => ViewsTrue /\ Typed
  BY InitTrue, InitTyped
<1>3. (ViewsTrue /\ Typed) /\ [Next]_vars => (ViewsTrue /\ Typed)'
  BY StepKeeps, StepTyped
<1> QED
  BY <1>1, <1>2, <1>3, PTL DEF Spec

=============================================================================
