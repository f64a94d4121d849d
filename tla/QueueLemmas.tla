---------------------------- MODULE QueueLemmas ----------------------------
(***************************************************************************)
(* Facts about the queues and tables of the other modules: sequences that  *)
(* hold no element twice, queues of writes to a table, sums of a table.    *)
(***************************************************************************)
EXTENDS Integers, Sequences, FiniteSets, FiniteSetsExt, Functions, FiniteSetTheorems,
        SequenceTheorems, WellFoundedInduction, TLAPS

\* No element is in the queue twice.
Distinct(q) == \A i, j \in 1..Len(q) : q[i] = q[j] => i = j

\* An element is put at the end of the queue.
LEMMA AppendLast ==
    ASSUME NEW S, NEW q \in Seq(S), NEW m \in S
    PROVE  /\ Append(q, m) \in Seq(S)
           /\ Len(Append(q, m)) = Len(q) + 1
           /\ Append(q, m)[Len(q) + 1] = m
           /\ \A i \in 1..Len(q) : Append(q, m)[i] = q[i]
           /\ Range(Append(q, m)) = Range(q) \union {m}
           /\ Distinct(q) /\ m \notin Range(q) => Distinct(Append(q, m))
  <1> DEFINE r == Append(q, m)
  <1>1. /\ r \in Seq(S)
        /\ Len(r) = Len(q) + 1
        /\ Len(q) \in Nat
        /\ DOMAIN r = 1..Len(q) + 1
        /\ DOMAIN q = 1..Len(q)
        /\ r[Len(q) + 1] = m
        /\ \A i \in 1..Len(q) : r[i] = q[i]
    BY AppendProperties, LenProperties
  <1>2. Range(r) = Range(q) \union {m}
    BY <1>1 DEF Range
  <1>3. ASSUME Distinct(q), m \notin Range(q)  PROVE Distinct(r)
    <2>1. \A i \in 1..Len(q) : q[i] # m
      BY <1>1, <1>3 DEF Range
    <2>2. SUFFICES ASSUME NEW i \in 1..Len(q) + 1, NEW j \in 1..Len(q) + 1, r[i] = r[j]
                   PROVE  i = j
      BY <1>1 DEF Distinct
    <2>3. i \in 1..Len(q) \/ i = Len(q) + 1
      BY <1>1
    <2>4. j \in 1..Len(q) \/ j = Len(q) + 1
      BY <1>1
    <2> QED  BY <1>1, <1>3, <2>1, <2>2, <2>3, <2>4 DEF Distinct
  <1> QED  BY <1>1, <1>2, <1>3

\* An element is taken from the front of the queue.
LEMMA TakeFirst ==
    ASSUME NEW S, NEW q \in Seq(S), q # <<>>, Distinct(q)
    PROVE  /\ Head(q) \in S /\ Head(q) = q[1]
           /\ Tail(q) \in Seq(S)
           /\ Len(Tail(q)) = Len(q) - 1
           /\ \A i \in 1..Len(q) - 1 : Tail(q)[i] = q[i + 1]
           /\ Range(q) = Range(Tail(q)) \union {Head(q)}
           /\ Head(q) \notin Range(Tail(q))
           /\ Distinct(Tail(q))
  <1> DEFINE r == Tail(q)
  <1>1. /\ r \in Seq(S)
        /\ Len(r) = Len(q) - 1
        /\ Len(q) \in Nat \ {0}
        /\ DOMAIN r = 1..Len(q) - 1
        /\ DOMAIN q = 1..Len(q)
        /\ Head(q) = q[1]
        /\ \A i \in 1..Len(q) - 1 : r[i] = q[i + 1]
    BY HeadTailProperties, LenProperties, EmptySeq
  <1>2. \A i \in 1..Len(q) : i = 1 \/ (i - 1 \in 1..Len(q) - 1 /\ r[i - 1] = q[i])
    BY <1>1
  <1>3. Range(q) = Range(r) \union {Head(q)}
    <2>1. ASSUME NEW x \in Range(q)  PROVE x \in Range(r) \union {Head(q)}
      <3>1. PICK i \in 1..Len(q) : x = q[i]
        BY <1>1 DEF Range
      <3>2. CASE i = 1
        BY <1>1, <3>1, <3>2
      <3>3. CASE i # 1
        <4>1. i - 1 \in 1..Len(q) - 1 /\ r[i - 1] = x
          BY <1>2, <3>1, <3>3
        <4> QED  BY <1>1, <4>1 DEF Range
      <3> QED  BY <3>2, <3>3
    <2>2. ASSUME NEW x \in Range(r)  PROVE x \in Range(q)
      <3>1. PICK i \in 1..Len(q) - 1 : x = r[i]
        BY <1>1 DEF Range
      <3>2. x = q[i + 1] /\ i + 1 \in 1..Len(q)
        BY <1>1, <3>1
      <3> QED  BY <1>1, <3>2 DEF Range
    <2>3. Head(q) \in Range(q)
      <3>1. 1 \in 1..Len(q)
        BY <1>1
      <3> QED  BY <1>1, <3>1 DEF Range
    <2> QED  BY <2>1, <2>2, <2>3
  <1>4. Head(q) \notin Range(r)
    BY <1>1 DEF Range, Distinct
  <1>5. Distinct(r)
    BY <1>1 DEF Distinct
  <1> QED  BY <1>1, <1>3, <1>4, <1>5

\* A queue has as many elements as places.
LEMMA CountElements ==
    ASSUME NEW S, NEW q \in Seq(S), Distinct(q)
    PROVE  IsFiniteSet(Range(q)) /\ Cardinality(Range(q)) = Len(q)
  <1>1. Len(q) \in Nat /\ DOMAIN q = 1..Len(q) /\ q \in [1..Len(q) -> S]
    BY LenProperties
  <1>2. q \in [1..Len(q) -> Range(q)]
    BY <1>1 DEF Range
  <1>3. q \in Bijection(1..Len(q), Range(q))
    BY <1>1, <1>2 DEF Bijection, Injection, Surjection, IsInjective, Range, Distinct
  <1>4. ExistsBijection(1..Len(q), Range(q))
    BY <1>3 DEF ExistsBijection
  <1> QED  BY <1>1, <1>4, FS_CountingElements, FS_NatBijection

-----------------------------------------------------------------------------
(* Induction                                                               *)

\* A set of natural numbers that is not empty has a least element.  Proofs by
\* induction look at the least counterexample.
LEMMA LeastNumber ==
    ASSUME NEW T, T \subseteq Nat, T # {}
    PROVE  \E x \in T : \A y \in T : x <= y
  <1> DEFINE R == OpToRel(<, Nat)
  <1>1. IsWellFoundedOn(R, Nat)
    BY NatLessThanWellFounded
  <1>2. \A x, y \in Nat : x < y => <<x, y>> \in R
    BY DEF OpToRel
  <1> HIDE DEF R
  <1>3. PICK x \in T : \A y \in T : ~(<<y, x>> \in R)
    BY <1>1, WFMin
  <1>4. \A y \in T : ~(y < x)
    BY <1>2, <1>3
  <1> QED  BY <1>4

\* So has one with an upper bound a greatest, which Max finds.
LEMMA GreatestNumber ==
    ASSUME NEW n \in Nat, NEW T, T \subseteq 0..n, T # {}
    PROVE  Max(T) \in T /\ \A y \in T : Max(T) >= y
  <1> DEFINE D == {n - y : y \in T}
  <1>1. D \subseteq Nat /\ D # {}
    <2>1. \A y \in T : n - y \in Nat
      OBVIOUS
    <2>2. PICK y : y \in T
      OBVIOUS
    <2> QED  BY <2>1, <2>2
  <1> HIDE DEF D
  <1>2. PICK d \in D : \A e \in D : d <= e
    BY <1>1, LeastNumber
  <1>3. PICK x \in T : d = n - x
    BY <1>2 DEF D
  <1>4. ASSUME NEW y \in T  PROVE x >= y
    <2>1. n - y \in D
      BY DEF D
    <2> QED  BY <2>1, <1>2, <1>3
  <1> QED  BY <1>4, Zenon DEF Max

-----------------------------------------------------------------------------
(* A queue of writes                                                       *)

\* Functions on some elements of S
Partial(S, T) == UNION {[D -> T] : D \in SUBSET S}

\* They have a domain in S and values in T.
LEMMA PartialFunctions ==
    ASSUME NEW S, NEW T
    PROVE  /\ <<>> \in Partial(S, T) /\ DOMAIN <<>> = {}
           /\ \A D \in SUBSET S : [D -> T] \subseteq Partial(S, T)
           /\ \A f \in Partial(S, T) : DOMAIN f \subseteq S /\ \A x \in DOMAIN f : f[x] \in T
  <1>1. <<>> \in [{} -> T] /\ DOMAIN <<>> = {}
    OBVIOUS
  <1> QED  BY <1>1 DEF Partial

\* What table has at x when the first k writes of the queue have been executed
LastWrite(table, writes, k, x) ==
    LET at == {m \in 1..k : x \in DOMAIN writes[m]}
    IN  IF at = {} THEN table[x] ELSE writes[Max(at)][x]

\* No write executed: the table itself
LEMMA NoWrite ==
    ASSUME NEW table, NEW w, NEW x
    PROVE  LastWrite(table, w, 0, x) = table[x]
  BY DEF LastWrite

\* The last write counts if it is to x.
LEMMA LastWriteHits ==
    ASSUME NEW table, NEW w, NEW k \in Nat \ {0}, NEW x, x \in DOMAIN w[k]
    PROVE  LastWrite(table, w, k, x) = w[k][x]
  <1> DEFINE at == {m \in 1..k : x \in DOMAIN w[m]}
  <1>1. k \in at /\ \A m \in at : m \in Int /\ k >= m
    OBVIOUS
  <1> HIDE DEF at
  <1>2. Max(at) = k
    <2>1. Max(at) \in at /\ \A m \in at : Max(at) >= m
      BY <1>1, Zenon DEF Max
    <2>2. Max(at) \in Int /\ k >= Max(at) /\ Max(at) >= k
      BY <1>1, <2>1
    <2> QED  BY <2>2
  <1> QED  BY <1>1, <1>2 DEF LastWrite, at

\* Otherwise it changes nothing at x.
LEMMA LastWriteMisses ==
    ASSUME NEW table, NEW w, NEW k \in Nat \ {0}, NEW x, x \notin DOMAIN w[k]
    PROVE  LastWrite(table, w, k, x) = LastWrite(table, w, k - 1, x)
  <1>1. {m \in 1..k : x \in DOMAIN w[m]} = {m \in 1..(k - 1) : x \in DOMAIN w[m]}
    OBVIOUS
  <1> QED  BY <1>1 DEF LastWrite

\* Later writes do not matter.
LEMMA LastWritePrefix ==
    ASSUME NEW table, NEW v, NEW w, NEW k \in Nat, NEW x, \A m \in 1..k : v[m] = w[m]
    PROVE  LastWrite(table, v, k, x) = LastWrite(table, w, k, x)
  <1> SUFFICES ASSUME LastWrite(table, v, k, x) # LastWrite(table, w, k, x)
               PROVE  FALSE
    OBVIOUS
  <1> DEFINE T == {n \in 0..k : LastWrite(table, v, n, x) # LastWrite(table, w, n, x)}
  <1>1. T \subseteq Nat /\ k \in T
    OBVIOUS
  <1>2. PICK n \in T : \A m \in T : n <= m
    <2> HIDE DEF T
    <2> QED  BY <1>1, LeastNumber
  <1>3. n # 0
    BY <1>2, NoWrite
  <1>4. /\ n \in 1..k /\ n \in Nat \ {0} /\ n - 1 \in 0..k
        /\ LastWrite(table, v, n - 1, x) = LastWrite(table, w, n - 1, x)
    BY <1>2, <1>3
  <1>5. CASE x \in DOMAIN w[n]
    BY <1>2, <1>4, <1>5, LastWriteHits
  <1>6. CASE x \notin DOMAIN w[n]
    BY <1>2, <1>4, <1>6, LastWriteMisses
  <1> QED  BY <1>5, <1>6

\* The first write is executed: the rest of the queue finds a table that has it.
LEMMA FirstWrite ==
    ASSUME NEW table, NEW w, NEW k \in Nat, NEW l, l = k + 1, NEW x, NEW next, NEW rest,
           \A m \in 1..k : rest[m] = w[m + 1],
           next[x] = IF x \in DOMAIN w[1] THEN w[1][x] ELSE table[x]
    PROVE  LastWrite(next, rest, k, x) = LastWrite(table, w, l, x)
  <1> SUFFICES ASSUME LastWrite(next, rest, k, x) # LastWrite(table, w, k + 1, x)
               PROVE  FALSE
    OBVIOUS
  <1> DEFINE T == {n \in 0..k : LastWrite(next, rest, n, x) # LastWrite(table, w, n + 1, x)}
  <1>1. T \subseteq Nat /\ k \in T
    OBVIOUS
  <1>2. PICK n \in T : \A m \in T : n <= m
    <2> HIDE DEF T
    <2> QED  BY <1>1, LeastNumber
  <1>3. n # 0
    <2>1. LastWrite(next, rest, 0, x) = next[x]
      BY NoWrite
    <2>2. x \in DOMAIN w[1] => LastWrite(table, w, 1, x) = w[1][x]
      BY LastWriteHits
    <2>3. x \notin DOMAIN w[1] => LastWrite(table, w, 1, x) = table[x]
      <3>1. PICK i \in Nat \ {0} : i = 1 /\ i - 1 = 0
        OBVIOUS
      <3>2. x \notin DOMAIN w[i] => LastWrite(table, w, i, x) = LastWrite(table, w, 0, x)
        BY <3>1, LastWriteMisses
      <3> QED  BY <3>1, <3>2, NoWrite
    <2> QED  BY <1>2, <2>1, <2>2, <2>3
  <1>4. /\ n \in 1..k /\ n \in Nat \ {0} /\ n + 1 \in Nat \ {0}
        /\ n - 1 \in 0..k /\ (n - 1) + 1 = n /\ (n + 1) - 1 = n
        /\ rest[n] = w[n + 1]
    BY <1>2, <1>3
  <1>5. LastWrite(next, rest, n - 1, x) = LastWrite(table, w, n, x)
    <2>1. n - 1 \notin T
      BY <1>2, <1>4
    <2> QED  BY <2>1, <1>4
  <1>6. CASE x \in DOMAIN w[n + 1]
    <2>1. LastWrite(next, rest, n, x) = rest[n][x]
      BY <1>4, <1>6, LastWriteHits
    <2>2. LastWrite(table, w, n + 1, x) = w[n + 1][x]
      BY <1>4, <1>6, LastWriteHits
    <2> QED  BY <1>2, <1>4, <2>1, <2>2
  <1>7. CASE x \notin DOMAIN w[n + 1]
    <2>1. LastWrite(next, rest, n, x) = LastWrite(next, rest, n - 1, x)
      BY <1>4, <1>7, LastWriteMisses
    <2>2. LastWrite(table, w, n + 1, x) = LastWrite(table, w, (n + 1) - 1, x)
      BY <1>4, <1>7, LastWriteMisses
    <2> QED  BY <1>2, <1>4, <1>5, <2>1, <2>2
  <1> QED  BY <1>6, <1>7

-----------------------------------------------------------------------------
(* Sums                                                                    *)

\* MapThenSumSet(LAMBDA x : table[x], S), with its recursion spelled out
AnyOf(s) == CHOOSE x \in s : TRUE
SumFrom(table, sum, s) == IF s = {} THEN 0 ELSE table[AnyOf(s)] + sum[s \ {AnyOf(s)}]
SumLoop(table, S, sum) == sum = [s \in SUBSET S |-> SumFrom(table, sum, s)]
Total(table, S) == (CHOOSE sum : SumLoop(table, S, sum))[S]

\* The coins in a table, which make its sum a cardinality
Coins(table, s) == UNION {{x} \X (1..table[x]) : x \in s}

\* A row has as many coins as it says.
LEMMA RowOfCoins ==
    ASSUME NEW x, NEW n \in Nat
    PROVE  IsFiniteSet({x} \X (1..n)) /\ Cardinality({x} \X (1..n)) = n
  <1> DEFINE b == [k \in 1..n |-> <<x, k>>]
  <1>1. b \in Bijection(1..n, {x} \X (1..n))
    <2>1. b \in [1..n -> {x} \X (1..n)]
      OBVIOUS
    <2>2. \A k, l \in 1..n : b[k] = b[l] => k = l
      OBVIOUS
    <2>3. \A c \in {x} \X (1..n) : \E k \in 1..n : b[k] = c
      OBVIOUS
    <2> HIDE DEF b
    <2> QED  BY <2>1, <2>2, <2>3 DEF Bijection, Injection, Surjection, IsInjective
  <1>2. ExistsBijection(1..n, {x} \X (1..n))
    BY <1>1 DEF ExistsBijection
  <1> QED  BY <1>2, FS_CountingElements, FS_NatBijection

\* Taking one row out takes its coins out.
LEMMA CountCoins ==
    ASSUME NEW S, IsFiniteSet(S), NEW table, \A x \in S : table[x] \in Nat
    PROVE  /\ IsFiniteSet(Coins(table, S)) /\ Cardinality(Coins(table, S)) \in Nat
           /\ \A x \in S : Cardinality(Coins(table, S))
                             = table[x] + Cardinality(Coins(table, S \ {x}))
  <1>1. ASSUME NEW s \in SUBSET S  PROVE IsFiniteSet(Coins(table, s))
    <2> DEFINE R == {{x} \X (1..table[x]) : x \in s}
               f == [x \in s |-> {x} \X (1..table[x])]
    <2>1. f \in Surjection(s, R)
      <3>1. f \in [s -> R] /\ \A r \in R : \E x \in s : f[x] = r
        OBVIOUS
      <3> HIDE DEF f, R
      <3> QED  BY <3>1 DEF Surjection
    <2>2. IsFiniteSet(s)
      BY FS_Subset
    <2>3. ASSUME NEW r \in R  PROVE IsFiniteSet(r)
      <3>1. PICK x \in s : r = {x} \X (1..table[x])
        OBVIOUS
      <3>2. table[x] \in Nat
        OBVIOUS
      <3> QED  BY <3>1, <3>2, RowOfCoins
    <2> HIDE DEF f, R
    <2>4. IsFiniteSet(R)
      BY <2>1, <2>2, FS_Surjection
    <2>5. IsFiniteSet(UNION R)
      BY <2>3, <2>4, FS_UNION
    <2> QED  BY <2>5 DEF Coins, R
  <1>2. ASSUME NEW x \in S
        PROVE  Cardinality(Coins(table, S)) = table[x] + Cardinality(Coins(table, S \ {x}))
    <2> DEFINE row == {x} \X (1..table[x])
               rest == Coins(table, S \ {x})
    <2>1. Coins(table, S) = row \union rest
      BY DEF Coins
    <2>2. row \intersect rest = {}
      BY DEF Coins
    <2>3. IsFiniteSet(row) /\ Cardinality(row) = table[x]
      BY RowOfCoins
    <2>4. IsFiniteSet(rest) /\ Cardinality(rest) \in Nat
      BY <1>1, FS_CardinalityType
    <2> HIDE DEF row, rest
    <2>5. Cardinality(row \union rest) = Cardinality(row) + Cardinality(rest) - Cardinality({})
      BY <2>2, <2>3, <2>4, FS_Union
    <2> QED  BY <2>1, <2>3, <2>4, <2>5, FS_EmptySet DEF rest
  <1>3. IsFiniteSet(Coins(table, S)) /\ Cardinality(Coins(table, S)) \in Nat
    BY <1>1, FS_CardinalityType
  <1> QED  BY <1>2, <1>3

\* The sum of a table is the number of its coins.
LEMMA TotalIsCoins ==
    ASSUME NEW S, IsFiniteSet(S), NEW table, \A x \in S : table[x] \in Nat
    PROVE  Total(table, S) = Cardinality(Coins(table, S))
  <1> DEFINE g == [s \in SUBSET S |-> Cardinality(Coins(table, s))]
             h == CHOOSE sum : SumLoop(table, S, sum)
  <1>1. ASSUME NEW s \in SUBSET S, s # {}
        PROVE  /\ AnyOf(s) \in s /\ s \ {AnyOf(s)} \in SUBSET S
               /\ IsFiniteSet(s) /\ Cardinality(s) \in Nat
               /\ Cardinality(s \ {AnyOf(s)}) = Cardinality(s) - 1
               /\ Cardinality(Coins(table, s))
                    = table[AnyOf(s)] + Cardinality(Coins(table, s \ {AnyOf(s)}))
    <2>1. AnyOf(s) \in s
      BY <1>1 DEF AnyOf
    <2>2. IsFiniteSet(s)
      BY FS_Subset
    <2>3. \A x \in s : table[x] \in Nat
      OBVIOUS
    <2>4. Cardinality(s) \in Nat /\ Cardinality(s \ {AnyOf(s)}) = Cardinality(s) - 1
      BY <2>1, <2>2, FS_CardinalityType, FS_RemoveElement
    <2>5. \A x \in s : Cardinality(Coins(table, s))
                         = table[x] + Cardinality(Coins(table, s \ {x}))
      BY <2>2, <2>3, CountCoins
    <2> QED  BY <2>1, <2>2, <2>4, <2>5
  <1>2. Cardinality(Coins(table, {})) = 0
    BY FS_EmptySet DEF Coins
  <1>3. \A s \in SUBSET S : g[s] = SumFrom(table, g, s)
    BY <1>1, <1>2 DEF SumFrom
  <1>4. SumLoop(table, S, g)
    BY <1>3 DEF SumLoop
  <1>5. SumLoop(table, S, h)
    BY <1>4
  <1> HIDE DEF h
  <1>6. \A s \in SUBSET S : h[s] = SumFrom(table, h, s)
    BY <1>5 DEF SumLoop
  <1>7. SUFFICES ASSUME NEW s \in SUBSET S, h[s] # g[s]  PROVE FALSE
    BY DEF Total, h
  <1> DEFINE Bad == {s1 \in SUBSET S : h[s1] # g[s1]}
             T == {n \in Nat : \E s1 \in Bad : Cardinality(s1) = n}
  <1>8. T # {}
    <2>1. IsFiniteSet(s)
      BY FS_Subset
    <2> QED  BY <1>7, <2>1, FS_CardinalityType
  <1>9. PICK n \in T : \A m \in T : n <= m
    <2> HIDE DEF T
    <2>1. T \subseteq Nat
      BY DEF T
    <2> QED  BY <1>8, <2>1, LeastNumber
  <1>10. PICK b \in Bad : Cardinality(b) = n
    OBVIOUS
  <1>11. b # {}
    BY <1>2, <1>6, <1>10 DEF SumFrom
  <1> DEFINE c == b \ {AnyOf(b)}
  <1>12. c \in SUBSET S /\ Cardinality(c) = n - 1 /\ n \in Nat
    BY <1>1, <1>10, <1>11
  <1>13. n - 1 \in Nat
    <2>1. IsFiniteSet(c)
      BY <1>12, FS_Subset
    <2> QED  BY <1>12, <2>1, FS_CardinalityType
  <1>14. c \notin Bad
    <2> HIDE DEF Bad, c
    <2>1. ASSUME c \in Bad  PROVE n - 1 \in T
      BY <1>12, <1>13, <2>1
    <2> HIDE DEF T
    <2> QED  BY <1>9, <1>12, <2>1
  <1>15. h[c] = g[c]
    BY <1>12, <1>14
  <1>16. h[b] = table[AnyOf(b)] + h[c]
    BY <1>6, <1>10, <1>11 DEF SumFrom
  <1>17. g[b] = table[AnyOf(b)] + g[c]
    BY <1>3, <1>10, <1>11 DEF SumFrom
  <1> QED  BY <1>10, <1>15, <1>16, <1>17

\* One row can be split off a sum.
LEMMA TotalSplit ==
    ASSUME NEW S, IsFiniteSet(S), NEW table, \A x \in S : table[x] \in Nat
    PROVE  /\ Total(table, S) \in Nat
           /\ \A x \in S : Total(table, S) = table[x] + Total(table, S \ {x})
  <1>1. ASSUME NEW x \in S
        PROVE  Total(table, S) = table[x] + Total(table, S \ {x})
    <2>1. IsFiniteSet(S \ {x})
      BY FS_RemoveElement
    <2> QED  BY <2>1, CountCoins, TotalIsCoins
  <1> QED  BY <1>1, CountCoins, TotalIsCoins

\* Tables with the same rows have the same sum.
LEMMA SameTotal ==
    ASSUME NEW S, IsFiniteSet(S), NEW table, NEW other,
           \A x \in S : table[x] \in Nat /\ other[x] = table[x]
    PROVE  Total(table, S) = Total(other, S)
  <1>1. Coins(table, S) = Coins(other, S)
    BY DEF Coins
  <1> QED  BY <1>1, TotalIsCoins

\* Nor does a payment from one row to another change it.
LEMMA Payment ==
    ASSUME NEW S, IsFiniteSet(S), NEW table, NEW other,
           \A x \in S : table[x] \in Nat /\ other[x] \in Nat,
           NEW p \in S, NEW q \in S, p # q,
           \A x \in S \ {p, q} : other[x] = table[x],
           other[p] + other[q] = table[p] + table[q]
    PROVE  Total(table, S) = Total(other, S)
  <1> DEFINE R == S \ {p}
             Q == R \ {q}
  <1>1. IsFiniteSet(R) /\ IsFiniteSet(Q)
    BY FS_RemoveElement
  <1>2. /\ Total(table, S) = table[p] + Total(table, R)
        /\ Total(other, S) = other[p] + Total(other, R)
    BY TotalSplit
  <1>3. /\ Total(table, R) = table[q] + Total(table, Q)
        /\ Total(other, R) = other[q] + Total(other, Q)
    BY <1>1, TotalSplit
  <1>4. Total(table, Q) \in Nat /\ Total(other, Q) \in Nat
    BY <1>1, TotalSplit
  <1>5. Total(table, Q) = Total(other, Q)
    BY <1>1, SameTotal
  <1> QED  BY <1>2, <1>3, <1>4, <1>5
=============================================================================
