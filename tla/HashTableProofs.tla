-------------------------- MODULE HashTableProofs --------------------------
(***************************************************************************)
(* Proofs about the hash table, for any keys, values, hash and capacities. *)
(*                                                                         *)
(* Walk and find are recursive, so the chains are described without them:  *)
(* a chain is a list of buckets.  Every operation pushes on such lists,    *)
(* pops, cuts or builds them anew; what walking and finding yield follows. *)
(***************************************************************************)
EXTENDS HashTable, RecursionProofs, FiniteSetTheorems

(* Chains of buckets *)

\* st lists the n buckets of S that are met from index i in array arr, the
\* first one met last.
Lists(arr, i, S, n, st) ==
    /\ \A a, b \in 1 .. n : st[a] = st[b] => a = b
    /\ S = {st[a] : a \in 1 .. n}
    /\ i = IF n = 0 THEN Nil ELSE st[n]
    /\ \A a \in 1 .. n : arr[st[a]].next = IF a = 1 THEN Nil ELSE st[a - 1]

\* The chain that begins with index i ends and holds exactly the buckets S.
Chain(arr, i, S) == \E n \in Nat : \E st \in [1 .. n -> Nat] : Lists(arr, i, S, n, st)

\* The empty chain.
LEMMA ChainEmpty == ASSUME NEW arr PROVE Chain(arr, Nil, {})
<1>1. [a \in 1 .. 0 |-> 0] \in [1 .. 0 -> Nat]
    OBVIOUS
<1>2. PICK st \in [1 .. 0 -> Nat] : TRUE
    BY <1>1
<1>3. Lists(arr, Nil, {}, 0, st)
    BY DEF Lists
<1> QED
    BY <1>3 DEF Chain

\* What that says of the buckets.
Covers(i, S, n, st) ==
    /\ \A a \in 1 .. n : st[a] \in S /\ st[a] \in Nat /\ st[a] # Nil
    /\ \A x \in S : \E a \in 1 .. n : x = st[a]
    /\ S \subseteq Nat
    /\ n = 0 <=> i = Nil
    /\ n = 0 <=> S = {}
    /\ n > 0 => n \in 1 .. n /\ i = st[n] /\ i \in S

\* A list of buckets that links them covers their set.
LEMMA ListFacts ==
    ASSUME NEW arr, NEW i, NEW S, NEW n \in Nat, NEW st \in [1 .. n -> Nat],
           Lists(arr, i, S, n, st)
    PROVE  Covers(i, S, n, st)
<1>1. \A a \in 1 .. n : st[a] \in S /\ st[a] \in Nat
    BY DEF Lists
<1>2. \A x \in S : \E a \in 1 .. n : x = st[a]
    BY DEF Lists
<1>3. \A x \in Nat : x # Nil
    BY DEF Nil
<1>4. n > 0 => n \in 1 .. n /\ i = st[n] /\ i \in S
    BY <1>1 DEF Lists
<1>5. n = 0 => i = Nil /\ S = {}
    BY DEF Lists
<1> QED
    BY <1>1, <1>2, <1>3, <1>4, <1>5 DEF Covers

\* What a chain gives at once.
LEMMA ChainFacts ==
    ASSUME NEW arr, NEW i, NEW S, Chain(arr, i, S)
    PROVE  /\ S \subseteq Nat
           /\ i = Nil \/ i \in S
           /\ i = Nil <=> S = {}
           /\ Nil \notin S
           /\ \A x \in S : arr[x].next = Nil \/ arr[x].next \in S
           /\ \A x, y \in S : arr[x].next = arr[y].next => x = y
           /\ \A x \in S : i # Nil => arr[x].next # i
<1>1. PICK n \in Nat : \E st \in [1 .. n -> Nat] : Lists(arr, i, S, n, st)
    BY DEF Chain
<1>2. PICK st \in [1 .. n -> Nat] : Lists(arr, i, S, n, st)
    BY <1>1
<1>c. Covers(i, S, n, st)
    BY <1>2, ListFacts
<1>3. /\ \A a \in 1 .. n : st[a] \in S /\ st[a] \in Nat /\ st[a] # Nil
      /\ \A x \in S : \E a \in 1 .. n : x = st[a]
      /\ S \subseteq Nat
      /\ n = 0 <=> i = Nil
      /\ n = 0 <=> S = {}
      /\ n > 0 => n \in 1 .. n /\ i = st[n] /\ i \in S
    BY <1>c DEF Covers
<1>4. \A a \in 1 .. n : a # 1 => a - 1 \in 1 .. n
    OBVIOUS
<1>5. /\ \A a, b \in 1 .. n : st[a] = st[b] => a = b
      /\ \A a \in 1 .. n : arr[st[a]].next = IF a = 1 THEN Nil ELSE st[a - 1]
    BY <1>2 DEF Lists
<1>6. ASSUME NEW x \in S PROVE arr[x].next = Nil \/ arr[x].next \in S
  <2>1. PICK a \in 1 .. n : x = st[a]
    BY <1>3
  <2>2. CASE a = 1
    BY <1>5, <2>1, <2>2
  <2>3. CASE a # 1
    BY <1>3, <1>4, <1>5, <2>1, <2>3
  <2> QED
    BY <2>2, <2>3
<1>7. ASSUME NEW x \in S, NEW y \in S, arr[x].next = arr[y].next PROVE x = y
  <2>1. PICK a \in 1 .. n : x = st[a]
    BY <1>3
  <2>2. PICK b \in 1 .. n : y = st[b]
    BY <1>3
  <2>3. CASE a = 1 \/ b = 1
    <3>1. ASSUME NEW d \in 1 .. n PROVE arr[st[d]].next = Nil <=> d = 1
      <4>1. d = 1 => arr[st[d]].next = Nil
        BY <1>5
      <4>2. d # 1 => arr[st[d]].next = st[d - 1] /\ st[d - 1] # Nil
        BY <1>3, <1>4, <1>5
      <4> QED
        BY <4>1, <4>2
    <3>2. a = 1 /\ b = 1
      BY <1>7, <2>1, <2>2, <2>3, <3>1
    <3> QED
      BY <2>1, <2>2, <3>2
  <2>4. CASE a # 1 /\ b # 1
    <3>1. st[a - 1] = st[b - 1] /\ a - 1 \in 1 .. n /\ b - 1 \in 1 .. n
      BY <1>4, <1>5, <1>7, <2>1, <2>2, <2>4
    <3>2. a - 1 = b - 1
      BY <1>5, <3>1
    <3> QED
      BY <2>1, <2>2, <3>2
  <2> QED
    BY <2>3, <2>4
<1>8. ASSUME NEW x \in S, i # Nil, arr[x].next = i PROVE FALSE
  <2>1. PICK a \in 1 .. n : x = st[a]
    BY <1>3
  <2>a. arr[st[a]].next = i /\ i # Nil /\ i = st[n] /\ n \in 1 .. n
    BY <1>3, <1>8, <2>1
  <2>b. a # 1
    BY <1>5, <2>a
  <2>2. st[a - 1] = st[n] /\ a - 1 \in 1 .. n /\ n \in 1 .. n
    BY <1>4, <1>5, <2>a, <2>b
  <2>3. a - 1 = n
    BY <1>5, <2>2
  <2> QED
    BY <2>3
<1>9. Nil \notin S
    BY <1>3
<1> QED
    BY <1>3, <1>6, <1>7, <1>8, <1>9

\* A chain is where its buckets' links are.
LEMMA ChainFrame ==
    ASSUME NEW arr, NEW brr, NEW i, NEW S, Chain(arr, i, S),
           \A x \in S : brr[x].next = arr[x].next
    PROVE  Chain(brr, i, S)
<1>1. PICK n \in Nat : \E st \in [1 .. n -> Nat] : Lists(arr, i, S, n, st)
    BY DEF Chain
<1>2. PICK st \in [1 .. n -> Nat] : Lists(arr, i, S, n, st)
    BY <1>1
<1>c. Covers(i, S, n, st)
    BY <1>2, ListFacts
<1>3. \A a \in 1 .. n : st[a] \in S
    BY <1>c DEF Covers
<1>4. Lists(brr, i, S, n, st)
    BY <1>2, <1>3 DEF Lists
<1> QED
    BY <1>4 DEF Chain

\* A bucket put in front.
LEMMA ChainPush ==
    ASSUME NEW arr, NEW brr, NEW i, NEW S, Chain(arr, i, S), NEW x \in Nat, x \notin S,
           brr[x].next = i, \A y \in S : brr[y].next = arr[y].next
    PROVE  Chain(brr, x, S \cup {x})
<1>1. PICK n \in Nat : \E st \in [1 .. n -> Nat] : Lists(arr, i, S, n, st)
    BY DEF Chain
<1>2. PICK st \in [1 .. n -> Nat] : Lists(arr, i, S, n, st)
    BY <1>1
<1>c. Covers(i, S, n, st)
    BY <1>2, ListFacts
<1> DEFINE new == [a \in 1 .. n + 1 |-> IF a = n + 1 THEN x ELSE st[a]]
<1>3. /\ new \in [1 .. n + 1 -> Nat]
      /\ new[n + 1] = x /\ n + 1 \in 1 .. n + 1
      /\ \A a \in 1 .. n + 1 : a # n + 1 => a \in 1 .. n /\ new[a] = st[a]
      /\ \A a \in 1 .. n : a \in 1 .. n + 1 /\ a # n + 1 /\ new[a] = st[a]
    OBVIOUS
<1> HIDE DEF new
<1>4. /\ \A a \in 1 .. n : st[a] \in S
      /\ \A y \in S : \E a \in 1 .. n : y = st[a]
      /\ n = 0 <=> i = Nil
      /\ n > 0 => n \in 1 .. n /\ i = st[n]
    BY <1>c DEF Covers
<1>5. \A a, b \in 1 .. n + 1 : new[a] = new[b] => a = b
  <2>1. \A a, b \in 1 .. n : st[a] = st[b] => a = b
    BY <1>2 DEF Lists
  <2>2. \A a \in 1 .. n : st[a] # x
    BY <1>4
  <2> QED
    BY <1>3, <2>1, <2>2
<1>6. S \cup {x} = {new[a] : a \in 1 .. n + 1}
    BY <1>3, <1>4
<1>7. x = IF n + 1 = 0 THEN Nil ELSE new[n + 1]
    BY <1>3
<1>8. ASSUME NEW a \in 1 .. n + 1
      PROVE  brr[new[a]].next = IF a = 1 THEN Nil ELSE new[a - 1]
  <2>1. CASE a = n + 1
    <3>1. a # 1 => a - 1 = n /\ n > 0 /\ new[n] = st[n]
      BY <1>3, <2>1
    <3>2. a = 1 => n = 0
      BY <2>1
    <3> QED
      BY <1>3, <1>4, <2>1, <3>1, <3>2
  <2>2. CASE a # n + 1
    <3>1. a \in 1 .. n /\ new[a] = st[a] /\ brr[new[a]].next = arr[st[a]].next
      BY <1>3, <1>4, <2>2
    <3>2. a # 1 => a - 1 \in 1 .. n /\ new[a - 1] = st[a - 1]
      BY <1>3, <3>1
    <3> QED
      BY <1>2, <3>1, <3>2 DEF Lists
  <2> QED
    BY <2>1, <2>2
<1>9. Lists(brr, x, S \cup {x}, n + 1, new)
    BY <1>5, <1>6, <1>7, <1>8 DEF Lists
<1>10. n + 1 \in Nat
    OBVIOUS
<1> QED
    BY <1>3, <1>9, <1>10, Zenon DEF Chain

\* The first bucket taken away.
LEMMA ChainPop ==
    ASSUME NEW arr, NEW i, NEW S, Chain(arr, i, S), i # Nil
    PROVE  Chain(arr, arr[i].next, S \ {i})
<1>1. PICK n \in Nat : \E st \in [1 .. n -> Nat] : Lists(arr, i, S, n, st)
    BY DEF Chain
<1>2. PICK st \in [1 .. n -> Nat] : Lists(arr, i, S, n, st)
    BY <1>1
<1>c. Covers(i, S, n, st)
    BY <1>2, ListFacts
<1> DEFINE new == [a \in 1 .. n - 1 |-> st[a]]
<1>3. /\ \A a \in 1 .. n : st[a] \in S
      /\ \A y \in S : \E a \in 1 .. n : y = st[a]
      /\ n > 0 /\ n \in 1 .. n /\ i = st[n]
    BY <1>c DEF Covers
<1>4. /\ n - 1 \in Nat /\ new \in [1 .. n - 1 -> Nat]
      /\ \A a \in 1 .. n - 1 : a \in 1 .. n /\ a # n /\ new[a] = st[a]
      /\ \A a \in 1 .. n : a # n => a \in 1 .. n - 1
    BY <1>3
<1> HIDE DEF new
<1>5. \A a, b \in 1 .. n - 1 : new[a] = new[b] => a = b
    BY <1>2, <1>4 DEF Lists
<1>6. S \ {i} = {new[a] : a \in 1 .. n - 1}
  <2>1. \A a \in 1 .. n - 1 : st[a] # i
    BY <1>2, <1>3, <1>4 DEF Lists
  <2> QED
    BY <1>3, <1>4, <2>1
<1>7. arr[i].next = IF n - 1 = 0 THEN Nil ELSE new[n - 1]
  <2>1. arr[st[n]].next = IF n = 1 THEN Nil ELSE st[n - 1]
    BY <1>2, <1>3 DEF Lists
  <2>2. n # 1 => new[n - 1] = st[n - 1]
    BY <1>3, <1>4
  <2> QED
    BY <1>3, <2>1, <2>2
<1>8. \A a \in 1 .. n - 1 : arr[new[a]].next = IF a = 1 THEN Nil ELSE new[a - 1]
  <2>1. \A a \in 1 .. n - 1 : a # 1 => a - 1 \in 1 .. n - 1 /\ new[a - 1] = st[a - 1]
    BY <1>3, <1>4
  <2> QED
    BY <1>2, <1>4, <2>1 DEF Lists
<1>9. Lists(arr, arr[i].next, S \ {i}, n - 1, new)
    BY <1>5, <1>6, <1>7, <1>8 DEF Lists
<1> QED
    BY <1>4, <1>9 DEF Chain

\* A bucket that is not the first has one before it.
LEMMA ChainBefore ==
    ASSUME NEW arr, NEW i, NEW S, Chain(arr, i, S), NEW x \in S, x # i
    PROVE  \E j \in S : arr[j].next = x
<1>1. PICK n \in Nat : \E st \in [1 .. n -> Nat] : Lists(arr, i, S, n, st)
    BY DEF Chain
<1>2. PICK st \in [1 .. n -> Nat] : Lists(arr, i, S, n, st)
    BY <1>1
<1>c. Covers(i, S, n, st)
    BY <1>2, ListFacts
<1>3. /\ \A a \in 1 .. n : st[a] \in S
      /\ n > 0 => i = st[n]
      /\ \E a \in 1 .. n : x = st[a]
    BY <1>c DEF Covers
<1>4. PICK m \in 1 .. n : x = st[m]
    BY <1>3
<1>5. m + 1 \in 1 .. n /\ m + 1 # 1 /\ (m + 1) - 1 = m
    BY <1>3, <1>4
<1>6. arr[st[m + 1]].next = st[m] /\ st[m + 1] \in S
    BY <1>2, <1>3, <1>5 DEF Lists
<1> QED
    BY <1>4, <1>6

\* It is taken out by linking the one before to the one behind.
LEMMA ChainCut ==
    ASSUME NEW arr, NEW brr, NEW i, NEW S, Chain(arr, i, S), NEW x \in S, NEW j \in S,
           arr[j].next = x, brr[j].next = arr[x].next,
           \A y \in S : y # j /\ y # x => brr[y].next = arr[y].next
    PROVE  Chain(brr, i, S \ {x})
<1>1. PICK n \in Nat : \E st \in [1 .. n -> Nat] : Lists(arr, i, S, n, st)
    BY DEF Chain
<1>2. PICK st \in [1 .. n -> Nat] : Lists(arr, i, S, n, st)
    BY <1>1
<1>c. Covers(i, S, n, st)
    BY <1>2, ListFacts
<1>3. /\ \A a \in 1 .. n : st[a] \in S /\ st[a] # Nil
      /\ \A y \in S : \E a \in 1 .. n : y = st[a]
      /\ n > 0 => i = st[n]
    BY <1>c DEF Covers
<1>4. PICK m \in 1 .. n : x = st[m]
    BY <1>3
<1>5. PICK l \in 1 .. n : j = st[l]
    BY <1>3
<1>6. /\ \A a, b \in 1 .. n : st[a] = st[b] => a = b
      /\ \A a \in 1 .. n : arr[st[a]].next = IF a = 1 THEN Nil ELSE st[a - 1]
    BY <1>2 DEF Lists
<1>7. l = m + 1 /\ m < n
  <2>1. l # 1 /\ st[l - 1] = st[m]
    BY <1>3, <1>4, <1>5, <1>6
  <2>2. l - 1 \in 1 .. n
    BY <2>1
  <2>3. l - 1 = m
    BY <1>6, <2>1, <2>2
  <2> QED
    BY <2>3
<1> DEFINE new == [a \in 1 .. n - 1 |-> IF a < m THEN st[a] ELSE st[a + 1]]
<1>8. /\ n - 1 \in Nat /\ new \in [1 .. n - 1 -> Nat]
      /\ \A a \in 1 .. n - 1 : a < m => a \in 1 .. n /\ new[a] = st[a]
      /\ \A a \in 1 .. n - 1 : ~ (a < m) => a + 1 \in 1 .. n /\ new[a] = st[a + 1]
    BY <1>7
<1> HIDE DEF new
<1>9. \A a, b \in 1 .. n - 1 : new[a] = new[b] => a = b
  <2> SUFFICES ASSUME NEW a \in 1 .. n - 1, NEW b \in 1 .. n - 1, new[a] = new[b] PROVE a = b
    OBVIOUS
  <2>1. CASE a < m /\ b < m
    BY <1>6, <1>8, <2>1
  <2>2. CASE a < m /\ ~ (b < m)
    <3>1. a = b + 1
      BY <1>6, <1>8, <2>2
    <3> QED
      BY <2>2, <3>1
  <2>3. CASE ~ (a < m) /\ b < m
    <3>1. a + 1 = b
      BY <1>6, <1>8, <2>3
    <3> QED
      BY <2>3, <3>1
  <2>4. CASE ~ (a < m) /\ ~ (b < m)
    <3>1. a + 1 = b + 1
      BY <1>6, <1>8, <2>4
    <3> QED
      BY <3>1
  <2> QED
    BY <2>1, <2>2, <2>3, <2>4
<1>10. S \ {x} = {new[a] : a \in 1 .. n - 1}
  <2>1. ASSUME NEW a \in 1 .. n - 1 PROVE new[a] \in S /\ new[a] # x
    <3>1. CASE a < m
      <4>1. a # m /\ a \in 1 .. n
        BY <3>1
      <4>2. new[a] = st[a]
        BY <1>8, <3>1
      <4> QED
        BY <1>3, <1>4, <1>6, <4>1, <4>2
    <3>2. CASE ~ (a < m)
      <4>1. a + 1 # m
        BY <3>2
      <4>2. a + 1 \in 1 .. n /\ new[a] = st[a + 1]
        BY <1>8, <3>2
      <4>3. st[a + 1] \in S /\ st[a + 1] # st[m]
        BY <1>3, <1>6, <4>1, <4>2
      <4> QED
        BY <1>4, <4>2, <4>3
    <3> QED
      BY <3>1, <3>2
  <2>2. ASSUME NEW y \in S, y # x PROVE \E a \in 1 .. n - 1 : y = new[a]
    <3>1. PICK b \in 1 .. n : y = st[b]
      BY <1>3
    <3>2. b # m
      BY <1>4, <2>2, <3>1
    <3>3. CASE b < m
      <4>1. b \in 1 .. n - 1
        BY <1>7, <3>3
      <4> QED
        BY <1>8, <3>1, <3>3, <4>1
    <3>4. CASE b > m
      <4>1. b - 1 \in 1 .. n - 1 /\ ~ (b - 1 < m) /\ (b - 1) + 1 = b
        BY <1>7, <3>4
      <4> QED
        BY <1>8, <3>1, <4>1
    <3> QED
      BY <3>2, <3>3, <3>4
  <2> QED
    BY <2>1, <2>2
<1>11. i = IF n - 1 = 0 THEN Nil ELSE new[n - 1]
  <2>1. n - 1 # 0 /\ n - 1 \in 1 .. n - 1 /\ ~ (n - 1 < m) /\ (n - 1) + 1 = n
    BY <1>7
  <2> QED
    BY <1>3, <1>8, <2>1
<1>12. ASSUME NEW a \in 1 .. n - 1
       PROVE  brr[new[a]].next = IF a = 1 THEN Nil ELSE new[a - 1]
  <2>1. CASE a < m
    <3>0. a # m /\ a # l /\ a \in 1 .. n /\ new[a] = st[a]
      BY <1>7, <1>8, <2>1
    <3>1. st[a] \in S /\ st[a] # j /\ st[a] # x /\ new[a] = st[a] /\ a \in 1 .. n
      BY <1>3, <1>4, <1>5, <1>6, <3>0
    <3>2. a # 1 => a - 1 \in 1 .. n - 1 /\ a - 1 < m
      BY <2>1
    <3> QED
      BY <1>6, <1>8, <3>1, <3>2
  <2>2. CASE a = m
    <3>1. new[a] = j /\ brr[j].next = IF m = 1 THEN Nil ELSE st[m - 1]
      BY <1>4, <1>5, <1>6, <1>7, <1>8, <2>2
    <3>2. a # 1 => a - 1 \in 1 .. n - 1 /\ a - 1 < m
      BY <2>2
    <3> QED
      BY <1>8, <2>2, <3>1, <3>2
  <2>3. CASE a > m
    <3>1. new[a] = st[a + 1] /\ a + 1 \in 1 .. n /\ a + 1 # l /\ a + 1 # m
      BY <1>7, <1>8, <2>3
    <3>2. new[a] \in S /\ new[a] # j /\ new[a] # x
      BY <1>3, <1>4, <1>5, <1>6, <3>1
    <3>3. brr[new[a]].next = st[(a + 1) - 1]
      BY <1>6, <3>1, <3>2
    <3>m. m \in Nat /\ m >= 1 /\ a \in Nat /\ n \in Nat /\ a <= n - 1
      OBVIOUS
    <3>4. a # 1 /\ a - 1 \in 1 .. n - 1 /\ ~ (a - 1 < m) /\ (a - 1) + 1 = (a + 1) - 1
      BY <2>3, <3>m
    <3>5. new[a - 1] = st[(a - 1) + 1]
      BY <1>8, <3>4
    <3> QED
      BY <3>3, <3>4, <3>5
  <2> QED
    BY <2>1, <2>2, <2>3
<1>13. Lists(brr, i, S \ {x}, n - 1, new)
    BY <1>9, <1>10, <1>11, <1>12 DEF Lists
<1> QED
    BY <1>8, <1>13 DEF Chain

\* A chain does not run in circles: no set of buckets that the links never
\* leave has one of it.
LEMMA ChainNoLoop ==
    ASSUME NEW arr, NEW i, NEW S, Chain(arr, i, S), NEW D, Nil \notin D,
           \A x \in D : arr[x].next \in D
    PROVE  D \cap S = {}
<1>1. PICK n \in Nat : \E st \in [1 .. n -> Nat] : Lists(arr, i, S, n, st)
    BY DEF Chain
<1>2. PICK st \in [1 .. n -> Nat] : Lists(arr, i, S, n, st)
    BY <1>1
<1>c. Covers(i, S, n, st)
    BY <1>2, ListFacts
<1> DEFINE Met == {a \in 1 .. n : st[a] \in D}
<1>3. ASSUME NEW a \in Met PROVE a - 1 \in Met
  <2>1. arr[st[a]].next \in D /\ arr[st[a]].next = IF a = 1 THEN Nil ELSE st[a - 1]
    BY <1>2 DEF Lists
  <2>2. a # 1 /\ a - 1 \in 1 .. n
    BY <2>1
  <2> QED
    BY <2>1, <2>2
<1>4. Met \subseteq Nat
    OBVIOUS
<1> HIDE DEF Met
<1>5. Met = {}
  <2> SUFFICES ASSUME Met # {} PROVE FALSE
    OBVIOUS
  <2>1. PICK a \in Met : \A l \in Met : ~ (<<l, a>> \in OpToRel(<, Nat))
    BY <1>4, WFMin, NatLessThanWellFounded
  <2>2. a - 1 \in Met /\ a - 1 \in Nat /\ a \in Nat /\ a - 1 < a
    BY <1>3, <1>4
  <2> QED
    BY <2>1, <2>2 DEF OpToRel
<1>6. \A x \in S : \E a \in 1 .. n : x = st[a]
    BY <1>c DEF Covers
<1> QED
    BY <1>5, <1>6 DEF Met
-----------------------------------------------------------------------------
(* What Walk and find compute *)

\* The equation that defines Walk.
Walks(t, i, at) == at = [n \in 0 .. t.cap |-> IF n = 0 THEN i ELSE After(t, at[n - 1])]

\* Two functions that satisfy it do not differ at a least argument.
LEMMA WalksUnique ==
    ASSUME NEW t, NEW i, NEW at, Walks(t, i, at), NEW bt, Walks(t, i, bt), t.cap \in Nat
    PROVE  at = bt
<1> DEFINE N == t.cap
           Differ == {n \in 0 .. N : at[n] # bt[n]}
<1>1. \A n \in 0 .. N : at[n] = IF n = 0 THEN i ELSE After(t, at[n - 1])
    BY DEF Walks
<1>2. \A n \in 0 .. N : bt[n] = IF n = 0 THEN i ELSE After(t, bt[n - 1])
    BY DEF Walks
<1>3. at = [n \in 0 .. N |-> at[n]] /\ bt = [n \in 0 .. N |-> bt[n]]
    BY DEF Walks
<1>4. N \in Nat /\ Differ \subseteq Nat
    OBVIOUS
<1> HIDE DEF N
<1>5. ASSUME NEW n \in Differ PROVE \E l \in Differ : l < n
  <2>1. n # 0
    BY <1>1, <1>2
  <2>2. n - 1 \in 0 .. N /\ n - 1 < n
    BY <1>4, <2>1
  <2>3. at[n - 1] # bt[n - 1]
    BY <1>1, <1>2, <2>1
  <2> QED
    BY <2>2, <2>3
<1> HIDE DEF Differ
<1>6. Differ = {}
  <2> SUFFICES ASSUME Differ # {} PROVE FALSE
    OBVIOUS
  <2>1. PICK n \in Differ : \A l \in Differ : ~ (<<l, n>> \in OpToRel(<, Nat))
    BY <1>4, WFMin, NatLessThanWellFounded
  <2> QED
    BY <1>4, <1>5, <2>1 DEF OpToRel
<1>7. \A n \in 0 .. N : at[n] = bt[n]
    BY <1>6 DEF Differ
<1> QED
    BY <1>3, <1>7

\* The list read from its end satisfies it.
WalkOf(t, n, st) == [k \in 0 .. t.cap |-> IF k < n THEN st[n - k] ELSE Nil]

\* It satisfies the equation of a walk.
LEMMA WalkOfWalks ==
    ASSUME NEW t, NEW i, NEW S, NEW n \in Nat, NEW st \in [1 .. n -> Nat],
           Lists(t.arrData, i, S, n, st), t.cap \in Nat
    PROVE  Walks(t, i, WalkOf(t, n, st))
<1> DEFINE F == WalkOf(t, n, st)
           N == t.cap
<1>1. Covers(i, S, n, st)
    BY ListFacts
<1>2. /\ F = [k \in 0 .. N |-> F[k]]
      /\ \A k \in 0 .. N : F[k] = IF k < n THEN st[n - k] ELSE Nil
    BY DEF WalkOf
<1>3. N \in Nat
    OBVIOUS
<1> HIDE DEF F, N
<1>4. ASSUME NEW k \in 0 .. N PROVE F[k] = IF k = 0 THEN i ELSE After(t, F[k - 1])
  <2>1. CASE k = 0
    BY <1>1, <1>2, <2>1 DEF Covers
  <2>2. CASE k # 0 /\ k - 1 < n
    <3>1. k - 1 \in 0 .. N /\ n - (k - 1) \in 1 .. n
      BY <1>3, <2>2
    <3>2. F[k - 1] = st[n - (k - 1)]
      BY <1>2, <2>2, <3>1
    <3>3. t.arrData[st[n - (k - 1)]].next = IF n - (k - 1) = 1 THEN Nil ELSE st[n - (k - 1) - 1]
      BY <3>1 DEF Lists
    <3>4. F[k - 1] # Nil
      BY <1>1, <3>1, <3>2 DEF Covers
    <3>5. After(t, F[k - 1]) = IF n - (k - 1) = 1 THEN Nil ELSE st[n - (k - 1) - 1]
      BY <3>2, <3>3, <3>4 DEF After
    <3>6. (k = n <=> n - (k - 1) = 1) /\ n - (k - 1) - 1 = n - k /\ (k # n => k < n)
      BY <2>2
    <3>7. k = n => F[k] = Nil
      BY <1>2
    <3>8. k # n => F[k] = st[n - k]
      BY <1>2, <3>6
    <3> QED
      BY <2>2, <3>5, <3>6, <3>7, <3>8
  <2>3. CASE k # 0 /\ ~ (k - 1 < n)
    <3>1. k - 1 \in 0 .. N /\ ~ (k < n)
      BY <1>3, <2>3
    <3>2. F[k] = Nil /\ F[k - 1] = Nil
      BY <1>2, <2>3, <3>1
    <3> QED
      BY <2>3, <3>2 DEF After
  <2> QED
    BY <2>1, <2>2, <2>3
<1>5. F = [k \in 0 .. N |-> IF k = 0 THEN i ELSE After(t, F[k - 1])]
    BY <1>2, <1>4
<1> QED
    BY <1>5 DEF Walks, F, N

\* Different buckets below the capacity are at most as many.
LEMMA ListLength ==
    ASSUME NEW n \in Nat, NEW cap \in Nat, NEW st \in [1 .. n -> 0 .. cap - 1],
           \A a, b \in 1 .. n : st[a] = st[b] => a = b
    PROVE  n <= cap
<1>1. st \in Injection(1 .. n, 0 .. cap - 1)
    BY DEF Injection, IsInjective
<1>2. /\ IsFiniteSet(0 .. cap - 1)
      /\ Cardinality(0 .. cap - 1) = IF 0 > cap - 1 THEN 0 ELSE cap - 1 - 0 + 1
    BY FS_Interval
<1>3. Cardinality(1 .. n) = IF 1 > n THEN 0 ELSE n - 1 + 1
    BY FS_Interval
<1>4. Cardinality(1 .. n) <= Cardinality(0 .. cap - 1)
    BY <1>1, <1>2, FS_Injection
<1> QED
    BY <1>2, <1>3, <1>4

\* Walking a chain visits its buckets and ends.
LEMMA ChainWalk ==
    ASSUME NEW t, t.cap \in Nat, NEW i, NEW S, Chain(t.arrData, i, S), S \subseteq 0 .. t.cap - 1
    PROVE  Ends(t, i) /\ Reached(t, i) = S
<1>1. PICK n \in Nat : \E st \in [1 .. n -> Nat] : Lists(t.arrData, i, S, n, st)
    BY DEF Chain
<1>2. PICK st \in [1 .. n -> Nat] : Lists(t.arrData, i, S, n, st)
    BY <1>1
<1>3. Covers(i, S, n, st)
    BY <1>2, ListFacts
<1>4. Walk(t, i) = CHOOSE at : Walks(t, i, at)
    BY DEF Walk, Walks
<1>5. Walks(t, i, WalkOf(t, n, st))
    BY <1>2, WalkOfWalks
<1>6. Walks(t, i, Walk(t, i))
    BY <1>4, <1>5
<1>7. Walk(t, i) = WalkOf(t, n, st)
    BY <1>5, <1>6, WalksUnique
<1>8. n <= t.cap
  <2>1. st \in [1 .. n -> 0 .. t.cap - 1]
    BY <1>3 DEF Covers
  <2>2. \A a, b \in 1 .. n : st[a] = st[b] => a = b
    BY <1>2 DEF Lists
  <2> QED
    BY <2>1, <2>2, ListLength
<1>9. \A k \in 0 .. t.cap : Walk(t, i)[k] = IF k < n THEN st[n - k] ELSE Nil
    BY <1>7 DEF WalkOf
<1>10. Ends(t, i)
    BY <1>8, <1>9 DEF Ends
<1>11. ASSUME NEW k \in 0 .. t.cap, Walk(t, i)[k] # Nil PROVE Walk(t, i)[k] \in S
  <2>1. k < n /\ n - k \in 1 .. n
    BY <1>9, <1>11
  <2> QED
    BY <1>3, <1>9, <2>1 DEF Covers
<1>12. ASSUME NEW x \in S PROVE x # Nil /\ \E k \in 0 .. t.cap : Walk(t, i)[k] = x
  <2>1. PICK a \in 1 .. n : x = st[a]
    BY <1>3 DEF Covers
  <2>2. n - a \in 0 .. t.cap /\ n - a < n /\ n - (n - a) = a
    BY <1>8
  <2>3. Walk(t, i)[n - a] = st[a]
    BY <1>9, <2>2
  <2> QED
    BY <1>3, <2>1, <2>2, <2>3 DEF Covers
<1> QED
    BY <1>10, <1>11, <1>12 DEF Reached

\* The equation that defines find.
Finds(t, k, f) ==
    f = [i \in -1 .. t.cap - 1 |-> IF i = Nil \/ t.arrData[i].key = k THEN i
                                   ELSE f[t.arrData[i].next]]

\* Where links stay in range, two functions that satisfy it agree along a
\* chain: where they differ the links never leave.
LEMMA FindsUnique ==
    ASSUME NEW t, NEW k, NEW f, Finds(t, k, f), NEW g, Finds(t, k, g), t.cap \in Nat,
           \A x \in 0 .. t.cap - 1 : t.arrData[x].next \in -1 .. t.cap - 1,
           NEW i \in -1 .. t.cap - 1, NEW S, Chain(t.arrData, i, S)
    PROVE  f[i] = g[i]
<1> DEFINE D == {x \in -1 .. t.cap - 1 : f[x] # g[x]}
<1>1. \A x \in -1 .. t.cap - 1 : f[x] = IF x = Nil \/ t.arrData[x].key = k THEN x
                                        ELSE f[t.arrData[x].next]
    BY DEF Finds
<1>2. \A x \in -1 .. t.cap - 1 : g[x] = IF x = Nil \/ t.arrData[x].key = k THEN x
                                        ELSE g[t.arrData[x].next]
    BY DEF Finds
<1>3. Nil \notin D
    BY <1>1, <1>2
<1>4. ASSUME NEW x \in D PROVE t.arrData[x].next \in D
  <2>1. x \in 0 .. t.cap - 1
    BY <1>3 DEF Nil
  <2>2. t.arrData[x].next \in -1 .. t.cap - 1
    BY <2>1
  <2>3. f[t.arrData[x].next] # g[t.arrData[x].next]
    BY <1>1, <1>2
  <2> QED
    BY <2>2, <2>3
<1> HIDE DEF D
<1>5. D \cap S = {}
    BY <1>3, <1>4, ChainNoLoop
<1>6. i = Nil \/ i \in S
    BY ChainFacts
<1>7. i \notin D
    BY <1>3, <1>5, <1>6
<1> QED
    BY <1>7 DEF D

\* No bucket has the key.
LEMMA FindsNothing ==
    ASSUME NEW t, NEW k, t.cap \in Nat,
           \A x \in 0 .. t.cap - 1 : t.arrData[x].key # k /\ t.arrData[x].next \in -1 .. t.cap - 1
    PROVE  Finds(t, k, [x \in -1 .. t.cap - 1 |-> Nil])
<1> DEFINE F == [x \in -1 .. t.cap - 1 |-> Nil]
<1>1. \A x \in -1 .. t.cap - 1 : F[x] = Nil
    OBVIOUS
<1>2. F = [x \in -1 .. t.cap - 1 |-> F[x]]
    OBVIOUS
<1> HIDE DEF F
<1>3. ASSUME NEW x \in -1 .. t.cap - 1
      PROVE  F[x] = IF x = Nil \/ t.arrData[x].key = k THEN x ELSE F[t.arrData[x].next]
  <2>1. CASE x = Nil
    BY <1>1, <2>1
  <2>2. CASE x # Nil
    <3>1. x \in 0 .. t.cap - 1
      BY <2>2 DEF Nil
    <3>2. t.arrData[x].key # k /\ t.arrData[x].next \in -1 .. t.cap - 1
      BY <3>1
    <3>3. F[x] = Nil /\ F[t.arrData[x].next] = Nil
      BY <1>1, <3>2
    <3> QED
      BY <2>2, <3>2, <3>3
  <2> QED
    BY <2>1, <2>2
<1>4. F = [x \in -1 .. t.cap - 1 |-> IF x = Nil \/ t.arrData[x].key = k THEN x
                                     ELSE F[t.arrData[x].next]]
    BY <1>2, <1>3
<1> QED
    BY <1>4 DEF Finds, F

\* One has it, and G are those from which it is met.
LEMMA FindsBucket ==
    ASSUME NEW t, NEW k, t.cap \in Nat,
           \A x \in 0 .. t.cap - 1 : t.arrData[x].next \in -1 .. t.cap - 1,
           NEW G \in SUBSET (0 .. t.cap - 1), NEW w \in G, t.arrData[w].key = k,
           \A x \in 0 .. t.cap - 1 : t.arrData[x].key = k => x = w,
           \A x \in G : x # w => t.arrData[x].next \in G,
           \A x \in 0 .. t.cap - 1 : x \notin G => t.arrData[x].next \notin G
    PROVE  Finds(t, k, [x \in -1 .. t.cap - 1 |-> IF x \in G THEN w ELSE Nil])
<1> DEFINE F == [x \in -1 .. t.cap - 1 |-> IF x \in G THEN w ELSE Nil]
<1>1. \A x \in -1 .. t.cap - 1 : F[x] = IF x \in G THEN w ELSE Nil
    OBVIOUS
<1>2. F = [x \in -1 .. t.cap - 1 |-> F[x]]
    OBVIOUS
<1>3. Nil \notin G
    BY DEF Nil
<1> HIDE DEF F
<1>4. ASSUME NEW x \in -1 .. t.cap - 1
      PROVE  F[x] = IF x = Nil \/ t.arrData[x].key = k THEN x ELSE F[t.arrData[x].next]
  <2>1. CASE x = Nil
    BY <1>1, <1>3, <2>1
  <2>2. CASE x # Nil
    <3>1. x \in 0 .. t.cap - 1
      BY <2>2 DEF Nil
    <3>2. t.arrData[x].next \in -1 .. t.cap - 1
      BY <3>1
    <3>3. t.arrData[x].key = k <=> x = w
      BY <3>1
    <3>4. x # w => (x \in G <=> t.arrData[x].next \in G)
      BY <3>1
    <3> QED
      BY <1>1, <2>2, <3>2, <3>3, <3>4
  <2> QED
    BY <2>1, <2>2
<1>5. F = [x \in -1 .. t.cap - 1 |-> IF x = Nil \/ t.arrData[x].key = k THEN x
                                     ELSE F[t.arrData[x].next]]
    BY <1>2, <1>4
<1> QED
    BY <1>5 DEF Finds, F

\* The buckets of a chain from which w is met are those before it.
LEMMA ChainUpTo ==
    ASSUME NEW arr, NEW i, NEW S, Chain(arr, i, S), NEW w \in S
    PROVE  \E G \in SUBSET S : /\ w \in G /\ i \in G
                               /\ \A x \in G : x # w => arr[x].next \in G
                               /\ \A x \in S : x \notin G => arr[x].next \notin G
<1>1. PICK n \in Nat : \E st \in [1 .. n -> Nat] : Lists(arr, i, S, n, st)
    BY DEF Chain
<1>2. PICK st \in [1 .. n -> Nat] : Lists(arr, i, S, n, st)
    BY <1>1
<1>3. Covers(i, S, n, st)
    BY <1>2, ListFacts
<1>4. PICK m \in 1 .. n : w = st[m]
    BY <1>3 DEF Covers
<1>5. /\ \A a, b \in 1 .. n : st[a] = st[b] => a = b
      /\ \A a \in 1 .. n : arr[st[a]].next = IF a = 1 THEN Nil ELSE st[a - 1]
    BY <1>2 DEF Lists
<1> DEFINE G == {st[a] : a \in m .. n}
<1>6. G \in SUBSET S /\ w \in G /\ i \in G
  <2>1. m \in m .. n /\ n \in m .. n /\ \A a \in m .. n : a \in 1 .. n
    OBVIOUS
  <2>2. i = st[n] /\ \A a \in 1 .. n : st[a] \in S
    BY <1>3 DEF Covers
  <2> QED
    BY <1>4, <2>1, <2>2
<1>7. ASSUME NEW x \in G, x # w PROVE arr[x].next \in G
  <2>1. PICK a \in m .. n : x = st[a]
    OBVIOUS
  <2>2. a \in 1 .. n /\ a # 1 /\ a - 1 \in m .. n
    BY <1>4, <1>7, <2>1
  <2> QED
    BY <1>5, <2>1, <2>2
<1>8. ASSUME NEW x \in S, x \notin G PROVE arr[x].next \notin G
  <2>1. PICK a \in 1 .. n : x = st[a]
    BY <1>3 DEF Covers
  <2>2. a < m
    BY <1>8, <2>1
  <2>3. CASE a = 1
    <3>1. arr[x].next = Nil
      BY <1>5, <2>1, <2>3
    <3>2. Nil \notin G
      BY <1>3, <1>6 DEF Covers, Nil
    <3> QED
      BY <3>1, <3>2
  <2>4. CASE a # 1
    <3>1. a - 1 \in 1 .. n /\ a - 1 \notin m .. n
      BY <2>2, <2>4
    <3>2. arr[x].next = st[a - 1]
      BY <1>5, <2>1, <2>4
    <3>3. \A b \in m .. n : b \in 1 .. n /\ b # a - 1
      BY <3>1
    <3> QED
      BY <1>5, <3>1, <3>2, <3>3
  <2> QED
    BY <2>3, <2>4
<1> HIDE DEF G
<1> QED
    BY <1>6, <1>7, <1>8
-----------------------------------------------------------------------------
(* The invariant of a table *)

Bucket(cap) == [key : Key \cup {NoKey}, val : Val \cup {NoKey}, next : -1 .. cap - 1]

\* The fields and what they range over.
Shape(t) ==
    /\ DOMAIN t = {"cap", "used", "next", "removed", "entry", "arrData"}
    /\ t.cap \in Nat \ {0}
    /\ t.used \in Nat
    /\ t.next \in 0 .. t.cap
    /\ t.removed \in -1 .. t.cap - 1
    /\ t.entry \in [0 .. t.cap - 1 -> -1 .. t.cap - 1]
    /\ t.arrData \in [0 .. t.cap - 1 -> Bucket(t.cap)]

\* The live buckets are chained by slot and have different keys, those that
\* were never used are as they were allocated, and R is on the removed list.
Sound(t, R) ==
    /\ Shape(t)
    /\ \A s \in 0 .. t.cap - 1 : Chain(t.arrData, t.entry[s], InSlot(t, s))
    /\ \A i, j \in Live(t) : t.arrData[i].key = t.arrData[j].key => i = j
    /\ \A i \in t.next .. t.cap - 1 : t.arrData[i] = Unused
    /\ Chain(t.arrData, t.removed, R)

Removed(t) == (0 .. t.next - 1) \ Live(t)

\* A table between two calls.
Whole(t) == Sound(t, Removed(t)) /\ t.used = Cardinality(Live(t))

\* One that has bucket i taken out for a new key.
Spared(t, i) == /\ i \in 0 .. t.next - 1 /\ i \notin Live(t)
                /\ Sound(t, Removed(t) \ {i})
                /\ t.used = Cardinality(Live(t))

\* The slot of a key is a slot.
LEMMA SlotInRange ==
    ASSUME NEW t, t.cap \in Nat \ {0}, NEW k \in Key
    PROVE  Slot(t, k) \in 0 .. t.cap - 1
BY KeyAssumption DEF Slot

\* The fields of a table, each for itself.
Ranges(t) ==
    /\ t.cap \in Nat /\ t.cap > 0 /\ t.next \in Nat /\ t.next <= t.cap /\ t.used \in Nat
    /\ 0 \in 0 .. t.cap - 1
    /\ \A i \in 0 .. t.next - 1 : i \in 0 .. t.cap - 1 /\ i \in Nat
    /\ \A i \in 0 .. t.cap - 1 : /\ t.arrData[i].next \in -1 .. t.cap - 1
                                 /\ t.arrData[i].key \in Key \cup {NoKey}
                                 /\ t.arrData[i].val \in Val \cup {NoKey}
    /\ \A i \in Live(t) : i \in 0 .. t.next - 1 /\ i \in 0 .. t.cap - 1 /\ t.arrData[i].key \in Key
    /\ \A s : InSlot(t, s) \subseteq Live(t)

\* A table's sets of buckets lie in its array.
LEMMA ShapeFacts == ASSUME NEW t, Shape(t) PROVE Ranges(t)
<1>1. /\ t.cap \in Nat /\ t.cap > 0 /\ t.next \in Nat /\ t.next <= t.cap /\ t.used \in Nat
      /\ 0 \in 0 .. t.cap - 1
    BY DEF Shape
<1>2. \A i \in 0 .. t.next - 1 : i \in 0 .. t.cap - 1 /\ i \in Nat
    BY <1>1
<1>3. ASSUME NEW i \in 0 .. t.cap - 1
      PROVE  /\ t.arrData[i].next \in -1 .. t.cap - 1
             /\ t.arrData[i].key \in Key \cup {NoKey}
             /\ t.arrData[i].val \in Val \cup {NoKey}
  <2>1. t.arrData[i] \in Bucket(t.cap)
    BY DEF Shape
  <2> QED
    BY <2>1 DEF Bucket
<1>4. \A i \in Live(t) : i \in 0 .. t.next - 1 /\ i \in 0 .. t.cap - 1 /\ t.arrData[i].key \in Key
    BY <1>2, <1>3 DEF Live
<1>5. \A s : InSlot(t, s) \subseteq Live(t)
    BY DEF InSlot
<1> QED
    BY <1>1, <1>2, <1>3, <1>4, <1>5 DEF Ranges

\* A search finds the bucket of the key, and nothing if there is none.
LEMMA FindIs ==
    ASSUME NEW t, Whole(t), NEW k \in Key
    PROVE  LET i == ef_hashtable_find_key(t, k)
           IN  \/ i \in Live(t) /\ t.arrData[i].key = k
               \/ i = Nil /\ \A x \in Live(t) : t.arrData[x].key # k
<1> DEFINE s == Slot(t, k)
           h == t.entry[s]
           S == InSlot(t, s)
           arr == t.arrData
<1>1. Sound(t, Removed(t)) /\ Shape(t)
    BY DEF Whole, Sound
<1>2. /\ t.cap \in Nat /\ t.cap > 0 /\ t.next \in Nat /\ t.next <= t.cap
      /\ 0 \in 0 .. t.cap - 1
      /\ \A i \in 0 .. t.next - 1 : i \in 0 .. t.cap - 1
      /\ \A i \in 0 .. t.cap - 1 : /\ arr[i].next \in -1 .. t.cap - 1
                                   /\ arr[i].key \in Key \cup {NoKey}
      /\ \A i \in Live(t) : i \in 0 .. t.next - 1 /\ i \in 0 .. t.cap - 1 /\ arr[i].key \in Key
      /\ \A q : InSlot(t, q) \subseteq Live(t)
    BY <1>1, ShapeFacts DEF Ranges
<1>3. s \in 0 .. t.cap - 1 /\ h \in -1 .. t.cap - 1
  <2>1. s \in 0 .. t.cap - 1
    BY <1>1, SlotInRange DEF Shape
  <2> QED
    BY <1>1, <2>1 DEF Shape
<1>4. Chain(arr, h, S)
    BY <1>1, <1>3 DEF Sound
<1>5. /\ \A i \in t.next .. t.cap - 1 : arr[i] = Unused
      /\ \A q \in 0 .. t.cap - 1 : Chain(arr, t.entry[q], InSlot(t, q))
      /\ Chain(arr, t.removed, Removed(t))
      /\ \A i, j \in Live(t) : arr[i].key = arr[j].key => i = j
    BY <1>1 DEF Sound
<1>6. \A i \in t.next .. t.cap - 1 : arr[i].next = 0 /\ arr[i].key = NoKey
    BY <1>5 DEF Unused
<1>7. k # NoKey
    BY KeyAssumption
<1>8. \A x \in 0 .. t.cap - 1 : arr[x].key = k => x \in Live(t)
    BY <1>2, <1>6, <1>7 DEF Live
<1>9. ef_hashtable_find_key(t, k) = (CHOOSE f : Finds(t, k, f))[h]
    BY DEF ef_hashtable_find_key, Finds
<1> HIDE DEF s, h, S, arr
<1>10. CASE \A x \in Live(t) : arr[x].key # k
  <2> DEFINE F == [x \in -1 .. t.cap - 1 |-> Nil]
  <2>1. Finds(t, k, F)
    BY <1>2, <1>8, <1>10, FindsNothing DEF arr
  <2>2. F[h] = Nil
    BY <1>3
  <2> HIDE DEF F
  <2>3. Finds(t, k, CHOOSE f : Finds(t, k, f))
    BY <2>1
  <2>4. (CHOOSE f : Finds(t, k, f))[h] = F[h]
    BY <1>2, <1>3, <1>4, <2>1, <2>3, FindsUnique DEF arr
  <2> QED
    BY <1>9, <1>10, <2>2, <2>4 DEF arr
<1>11. ASSUME NEW w \in Live(t), arr[w].key = k
       PROVE  ef_hashtable_find_key(t, k) = w
  <2>1. w \in S /\ w \in 0 .. t.cap - 1
    BY <1>2, <1>11 DEF S, s, InSlot, arr
  <2>2. PICK G0 \in SUBSET S : /\ w \in G0 /\ h \in G0
                               /\ \A x \in G0 : x # w => arr[x].next \in G0
                               /\ \A x \in S : x \notin G0 => arr[x].next \notin G0
    BY <1>4, <2>1, ChainUpTo
  <2> DEFINE G == G0 \cup {x \in t.next .. t.cap - 1 : 0 \in G0}
             F == [x \in -1 .. t.cap - 1 |-> IF x \in G THEN w ELSE Nil]
  <2>3. /\ \A x \in G0 : x \in Live(t) /\ x \in 0 .. t.next - 1 /\ x \in 0 .. t.cap - 1
        /\ \A x \in S : x \in Live(t)
    BY <1>2 DEF S
  <2>4. G \in SUBSET (0 .. t.cap - 1) /\ w \in G
    BY <1>2, <2>2, <2>3
  <2>g. /\ \A x : x \in G <=> x \in G0 \/ (x \in t.next .. t.cap - 1 /\ 0 \in G0)
        /\ \A x \in 0 .. t.next - 1 : x \in G <=> x \in G0
        /\ Nil \notin G
    BY <1>2, <2>4 DEF Nil
  <2> HIDE DEF G
  <2>5. \A x \in 0 .. t.cap - 1 : arr[x].key = k => x = w
    BY <1>5, <1>8, <1>11
  <2>6. ASSUME NEW x \in G, x # w PROVE arr[x].next \in G
    BY <1>6, <2>2, <2>6, <2>g
  <2>7. ASSUME NEW x \in 0 .. t.cap - 1, x \notin G PROVE arr[x].next \notin G
    <3>1. CASE x \in S
      <4>1. arr[x].next = Nil \/ arr[x].next \in S
        BY <1>4, <3>1, ChainFacts
      <4>2. x \notin G0
        BY <2>7, <2>g
      <4>3. arr[x].next \notin G0
        BY <2>2, <3>1, <4>2
      <4>4. arr[x].next \in S => arr[x].next \in 0 .. t.next - 1
        BY <2>3, <1>2
      <4> QED
        BY <2>g, <4>1, <4>3, <4>4
    <3>2. CASE x \in Live(t) /\ x \notin S
      <4> DEFINE q == Slot(t, arr[x].key)
      <4>1. q \in 0 .. t.cap - 1 /\ x \in InSlot(t, q) /\ q # s
        <5>1. q \in 0 .. t.cap - 1
          BY <1>1, <1>2, <3>2, SlotInRange DEF Shape
        <5> QED
          BY <3>2, <5>1 DEF InSlot, S, arr
      <4> HIDE DEF q
      <4>2. arr[x].next = Nil \/ arr[x].next \in InSlot(t, q)
        BY <1>5, <4>1, ChainFacts
      <4>3. \A y \in InSlot(t, q) : y \notin S /\ y \in 0 .. t.next - 1
        BY <1>2, <4>1 DEF InSlot, S
      <4> QED
        BY <2>g, <4>2, <4>3
    <3>3. CASE x \in Removed(t)
      <4>1. arr[x].next = Nil \/ arr[x].next \in Removed(t)
        BY <1>5, <3>3, ChainFacts
      <4>2. \A y \in Removed(t) : y \in 0 .. t.next - 1 /\ y \notin G0
        BY <2>3 DEF Removed
      <4> QED
        BY <2>g, <4>1, <4>2
    <3>4. CASE x \in t.next .. t.cap - 1
      <4>1. arr[x].next = 0 /\ 0 \notin G0
        BY <1>6, <2>7, <2>g, <3>4
      <4> QED
        BY <2>g, <4>1
    <3>5. x \in 0 .. t.next - 1 \/ x \in t.next .. t.cap - 1
      BY <1>2
    <3> QED
      BY <3>1, <3>2, <3>3, <3>4, <3>5 DEF Removed
  <2>8. Finds(t, k, F)
    <3>1. /\ \A x \in 0 .. t.cap - 1 : t.arrData[x].next \in -1 .. t.cap - 1
          /\ t.arrData[w].key = k
          /\ \A x \in 0 .. t.cap - 1 : t.arrData[x].key = k => x = w
          /\ \A x \in G : x # w => t.arrData[x].next \in G
          /\ \A x \in 0 .. t.cap - 1 : x \notin G => t.arrData[x].next \notin G
      BY <1>2, <1>11, <2>5, <2>6, <2>7 DEF arr
    <3>2. t.cap \in Nat /\ G \in SUBSET (0 .. t.cap - 1) /\ w \in G
      BY <1>2, <2>4
    <3> HIDE DEF arr
    <3> QED
      BY <3>1, <3>2, FindsBucket
  <2>9. F[h] = w
    BY <1>3, <2>2, <2>g
  <2> HIDE DEF F
  <2>10. Finds(t, k, CHOOSE f : Finds(t, k, f))
    BY <2>8
  <2>11. (CHOOSE f : Finds(t, k, f))[h] = F[h]
    BY <1>2, <1>3, <1>4, <2>8, <2>10, FindsUnique DEF arr
  <2> QED
    BY <1>9, <2>9, <2>11
<1> QED
    BY <1>10, <1>11 DEF arr
-----------------------------------------------------------------------------
(* The operations on a table *)

\* What a table holds.
Entries(t) == {<<t.arrData[i].key, t.arrData[i].val>> : i \in Live(t)}

\* There are no more live buckets than buckets handed out.
LEMMA LiveFinite ==
    ASSUME NEW t, Shape(t)
    PROVE  IsFiniteSet(Live(t)) /\ Cardinality(Live(t)) \in Nat /\ Cardinality(Live(t)) <= t.next
<1>1. Live(t) \in SUBSET (0 .. t.next - 1)
    BY ShapeFacts DEF Ranges
<1>2. t.next \in Nat /\ 0 \in Int /\ t.next - 1 \in Int
    BY ShapeFacts DEF Ranges
<1>3. /\ IsFiniteSet(0 .. t.next - 1)
      /\ Cardinality(0 .. t.next - 1) = IF 0 > t.next - 1 THEN 0 ELSE t.next - 1 - 0 + 1
    BY <1>2, FS_Interval
<1>4. IsFiniteSet(Live(t)) /\ Cardinality(Live(t)) <= Cardinality(0 .. t.next - 1)
    BY <1>1, <1>3, FS_Subset
<1>5. Cardinality(Live(t)) \in Nat
    BY <1>4, FS_CardinalityType
<1> QED
    BY <1>2, <1>3, <1>4, <1>5

\* A bucket put at the head of its chain completes the table.
LEMMA LinkWhole ==
    ASSUME NEW t, NEW i, Spared(t, i), NEW k \in Key, NEW v \in Val,
           \A x \in Live(t) : t.arrData[x].key # k
    PROVE  /\ Whole(Link(t, i, k, v))
           /\ Live(Link(t, i, k, v)) = Live(t) \cup {i}
           /\ Entries(Link(t, i, k, v)) = Entries(t) \cup {<<k, v>>}
           /\ Link(t, i, k, v).cap = t.cap
<1> DEFINE s == Slot(t, k)
           r == Link(t, i, k, v)
           new == [key |-> k, val |-> v, next |-> t.entry[s]]
<1>1. /\ Shape(t) /\ i \in 0 .. t.next - 1 /\ i \notin Live(t)
      /\ \A q \in 0 .. t.cap - 1 : Chain(t.arrData, t.entry[q], InSlot(t, q))
      /\ \A x, y \in Live(t) : t.arrData[x].key = t.arrData[y].key => x = y
      /\ \A x \in t.next .. t.cap - 1 : t.arrData[x] = Unused
      /\ Chain(t.arrData, t.removed, Removed(t) \ {i})
      /\ t.used = Cardinality(Live(t))
    BY DEF Spared, Sound
<1>2. /\ t.cap \in Nat /\ t.cap > 0 /\ t.next \in Nat /\ t.next <= t.cap /\ t.used \in Nat
      /\ i \in 0 .. t.cap - 1 /\ i \in Nat
      /\ \A x \in Live(t) : x \in 0 .. t.next - 1 /\ x \in 0 .. t.cap - 1 /\ t.arrData[x].key \in Key
      /\ \A q : InSlot(t, q) \subseteq Live(t)
      /\ t.entry \in [0 .. t.cap - 1 -> -1 .. t.cap - 1]
      /\ t.arrData \in [0 .. t.cap - 1 -> Bucket(t.cap)]
    BY <1>1, ShapeFacts DEF Shape, Ranges
<1>3. s \in 0 .. t.cap - 1
    BY <1>1, SlotInRange DEF Shape
<1>5. /\ r.cap = t.cap /\ r.used = t.used + 1 /\ r.next = t.next /\ r.removed = t.removed
      /\ r.entry = [t.entry EXCEPT ![s] = i] /\ r.arrData = [t.arrData EXCEPT ![i] = new]
      /\ DOMAIN r = DOMAIN t
    BY <1>1 DEF Link, Shape
<1>6. new \in Bucket(t.cap) /\ new.key = k /\ new.val = v /\ new.next = t.entry[s]
    BY <1>2, <1>3 DEF Bucket
<1> HIDE DEF r, new
<1>7. /\ r.arrData[i] = new
      /\ \A x \in 0 .. t.cap - 1 : x # i => r.arrData[x] = t.arrData[x]
      /\ r.entry[s] = i
      /\ \A q \in 0 .. t.cap - 1 : q # s => r.entry[q] = t.entry[q]
    BY <1>2, <1>3, <1>5
<1>8. Shape(r)
  <2>1. r.entry \in [0 .. t.cap - 1 -> -1 .. t.cap - 1]
    <3>1. i \in -1 .. t.cap - 1
      BY <1>2
    <3>2. [t.entry EXCEPT ![s] = i] \in [0 .. t.cap - 1 -> -1 .. t.cap - 1]
      BY <1>2, <3>1
    <3> QED
      BY <1>5, <3>2
  <2>2. r.arrData \in [0 .. t.cap - 1 -> Bucket(t.cap)]
    BY <1>2, <1>5, <1>6
  <2> QED
    BY <1>1, <1>2, <1>5, <2>1, <2>2 DEF Shape
<1>9. k # NoKey
    BY KeyAssumption
<1>10. Live(r) = Live(t) \cup {i}
  <2>1. \A x \in 0 .. t.next - 1 : x \in 0 .. t.cap - 1
    BY <1>2
  <2>2. \A x \in 0 .. t.next - 1 : x # i => r.arrData[x].key = t.arrData[x].key
    BY <1>7, <2>1
  <2>3. r.arrData[i].key # NoKey /\ r.next = t.next /\ i \in 0 .. t.next - 1
    BY <1>1, <1>5, <1>6, <1>7, <1>9
  <2> QED
    BY <1>1, <2>2, <2>3 DEF Live
<1>11. \A j : Slot(r, j) = Slot(t, j)
    BY <1>5 DEF Slot
<1>12. \A x \in Live(t) : x # i /\ r.arrData[x] = t.arrData[x]
    BY <1>1, <1>2, <1>7
<1>13. InSlot(r, s) = InSlot(t, s) \cup {i} /\ \A q : q # s => InSlot(r, q) = InSlot(t, q)
    BY <1>6, <1>7, <1>10, <1>11, <1>12 DEF InSlot
<1>14. ASSUME NEW q \in 0 .. r.cap - 1 PROVE Chain(r.arrData, r.entry[q], InSlot(r, q))
  <2>0. q \in 0 .. t.cap - 1 /\ Chain(t.arrData, t.entry[q], InSlot(t, q))
    BY <1>1, <1>5
  <2>1. CASE q = s
    <3>1. i \notin InSlot(t, s) /\ r.arrData[i].next = t.entry[s]
      BY <1>1, <1>2, <1>6, <1>7
    <3>2. \A x \in InSlot(t, s) : r.arrData[x].next = t.arrData[x].next
      BY <1>2, <1>12
    <3>3. Chain(r.arrData, i, InSlot(t, s) \cup {i})
      BY <1>2, <2>0, <2>1, <3>1, <3>2, ChainPush
    <3> QED
      BY <1>7, <1>13, <2>1, <3>3
  <2>2. CASE q # s
    <3>1. \A x \in InSlot(t, q) : r.arrData[x].next = t.arrData[x].next
      BY <1>2, <1>12
    <3>2. Chain(r.arrData, t.entry[q], InSlot(t, q))
      BY <2>0, <3>1, ChainFrame
    <3> QED
      BY <1>7, <1>13, <2>0, <2>2, <3>2
  <2> QED
    BY <2>1, <2>2
<1>15. \A x, y \in Live(r) : r.arrData[x].key = r.arrData[y].key => x = y
    BY <1>1, <1>6, <1>7, <1>10, <1>12
<1>16. \A x \in r.next .. r.cap - 1 : r.arrData[x] = Unused
  <2>1. \A x \in t.next .. t.cap - 1 : x # i /\ x \in 0 .. t.cap - 1
    BY <1>1, <1>2
  <2> QED
    BY <1>1, <1>5, <1>7, <2>1
<1>17. Removed(r) = Removed(t) \ {i}
    BY <1>5, <1>10 DEF Removed
<1>18. Chain(r.arrData, r.removed, Removed(r))
  <2>1. \A x \in Removed(t) \ {i} : r.arrData[x].next = t.arrData[x].next
    BY <1>2, <1>7 DEF Removed
  <2>2. Chain(r.arrData, t.removed, Removed(t) \ {i})
    BY <1>1, <2>1, ChainFrame
  <2> QED
    BY <1>5, <1>17, <2>2
<1>19. r.used = Cardinality(Live(r))
  <2>1. IsFiniteSet(Live(t)) /\ Cardinality(Live(t)) \in Nat
    BY <1>1, LiveFinite
  <2>2. Cardinality(Live(t) \cup {i}) = Cardinality(Live(t)) + 1
    BY <1>1, <2>1, FS_AddElement
  <2> QED
    BY <1>1, <1>5, <1>10, <2>2
<1>20. Entries(r) = Entries(t) \cup {<<k, v>>}
    BY <1>6, <1>7, <1>10, <1>12 DEF Entries
<1>21. Whole(r)
    BY <1>8, <1>14, <1>15, <1>16, <1>18, <1>19 DEF Whole, Sound
<1> QED
    BY <1>5, <1>10, <1>20, <1>21 DEF r

\* Without memory for the key the bucket goes back to the removed list.
LEMMA PutBackWhole ==
    ASSUME NEW t, NEW i, Spared(t, i)
    PROVE  LET r == [t EXCEPT !.arrData[i].next = t.removed, !.removed = i]
           IN  Whole(r) /\ Entries(r) = Entries(t) /\ r.cap = t.cap
<1> DEFINE r == [t EXCEPT !.arrData[i].next = t.removed, !.removed = i]
<1>1. /\ Shape(t) /\ i \in 0 .. t.next - 1 /\ i \notin Live(t)
      /\ \A q \in 0 .. t.cap - 1 : Chain(t.arrData, t.entry[q], InSlot(t, q))
      /\ \A x, y \in Live(t) : t.arrData[x].key = t.arrData[y].key => x = y
      /\ \A x \in t.next .. t.cap - 1 : t.arrData[x] = Unused
      /\ Chain(t.arrData, t.removed, Removed(t) \ {i})
      /\ t.used = Cardinality(Live(t))
    BY DEF Spared, Sound
<1>2. /\ t.cap \in Nat /\ t.cap > 0 /\ t.next \in Nat /\ t.next <= t.cap /\ t.used \in Nat
      /\ i \in 0 .. t.cap - 1 /\ i \in Nat
      /\ \A x \in Live(t) : x \in 0 .. t.next - 1 /\ x \in 0 .. t.cap - 1 /\ t.arrData[x].key \in Key
      /\ \A q : InSlot(t, q) \subseteq Live(t)
      /\ t.arrData \in [0 .. t.cap - 1 -> Bucket(t.cap)]
      /\ t.removed \in -1 .. t.cap - 1
    BY <1>1, ShapeFacts DEF Shape, Ranges
<1>3. /\ r.cap = t.cap /\ r.used = t.used /\ r.next = t.next /\ r.removed = i
      /\ r.entry = t.entry /\ r.arrData = [t.arrData EXCEPT ![i].next = t.removed]
      /\ DOMAIN r = DOMAIN t
    BY <1>1 DEF Shape
<1> HIDE DEF r
<1>4. /\ r.arrData[i].key = t.arrData[i].key /\ r.arrData[i].next = t.removed
      /\ r.arrData[i] \in Bucket(t.cap)
      /\ \A x \in 0 .. t.cap - 1 : x # i => r.arrData[x] = t.arrData[x]
  <2>1. t.arrData[i] \in Bucket(t.cap)
    BY <1>2
  <2>2. r.arrData[i] = [t.arrData[i] EXCEPT !.next = t.removed]
    BY <1>2, <1>3
  <2>3. /\ [t.arrData[i] EXCEPT !.next = t.removed] \in Bucket(t.cap)
        /\ [t.arrData[i] EXCEPT !.next = t.removed].key = t.arrData[i].key
        /\ [t.arrData[i] EXCEPT !.next = t.removed].next = t.removed
    BY <1>2, <2>1 DEF Bucket
  <2> QED
    BY <1>2, <1>3, <2>2, <2>3
<1>5. Shape(r)
  <2>1. r.arrData \in [0 .. t.cap - 1 -> Bucket(t.cap)]
    BY <1>2, <1>3, <1>4
  <2>2. i \in -1 .. t.cap - 1
    BY <1>2
  <2> QED
    BY <1>1, <1>2, <1>3, <2>1, <2>2 DEF Shape
<1>6. Live(r) = Live(t)
    BY <1>1, <1>2, <1>3, <1>4 DEF Live
<1>7. \A x \in Live(t) : x # i /\ r.arrData[x] = t.arrData[x]
    BY <1>1, <1>2, <1>4
<1>8. \A q : InSlot(r, q) = InSlot(t, q)
    BY <1>3, <1>6, <1>7 DEF InSlot, Slot
<1>9. ASSUME NEW q \in 0 .. r.cap - 1 PROVE Chain(r.arrData, r.entry[q], InSlot(r, q))
  <2>1. Chain(t.arrData, t.entry[q], InSlot(t, q))
    BY <1>1, <1>3
  <2>2. \A x \in InSlot(t, q) : r.arrData[x].next = t.arrData[x].next
    BY <1>2, <1>7
  <2>3. Chain(r.arrData, t.entry[q], InSlot(t, q))
    BY <2>1, <2>2, ChainFrame
  <2> QED
    BY <1>3, <1>8, <2>3
<1>10. \A x, y \in Live(r) : r.arrData[x].key = r.arrData[y].key => x = y
    BY <1>1, <1>6, <1>7
<1>11. \A x \in r.next .. r.cap - 1 : r.arrData[x] = Unused
  <2>1. \A x \in t.next .. t.cap - 1 : x # i /\ x \in 0 .. t.cap - 1
    BY <1>1, <1>2
  <2> QED
    BY <1>1, <1>3, <1>4, <2>1
<1>12. Chain(r.arrData, r.removed, Removed(r))
  <2>1. Removed(r) = (Removed(t) \ {i}) \cup {i}
    BY <1>1, <1>3, <1>6 DEF Removed
  <2>2. \A x \in Removed(t) \ {i} : r.arrData[x].next = t.arrData[x].next
    BY <1>2, <1>4 DEF Removed
  <2>3. Chain(r.arrData, i, (Removed(t) \ {i}) \cup {i})
    BY <1>1, <1>2, <1>4, <2>2, ChainPush
  <2> QED
    BY <1>3, <2>1, <2>3
<1>13. Entries(r) = Entries(t)
    BY <1>6, <1>7 DEF Entries
<1>14. Whole(r)
    BY <1>1, <1>3, <1>5, <1>6, <1>9, <1>10, <1>11, <1>12 DEF Whole, Sound
<1> QED
    BY <1>3, <1>13, <1>14 DEF r

\* A bucket that was never used is taken.
LEMMA FreshSpared ==
    ASSUME NEW t, Whole(t), t.next < t.cap
    PROVE  LET r == [t EXCEPT !.next = @ + 1]
           IN  /\ Spared(r, t.next) /\ Live(r) = Live(t)
               /\ Entries(r) = Entries(t) /\ r.cap = t.cap
<1> DEFINE r == [t EXCEPT !.next = @ + 1]
           i == t.next
<1>1. /\ Shape(t)
      /\ \A q \in 0 .. t.cap - 1 : Chain(t.arrData, t.entry[q], InSlot(t, q))
      /\ \A x, y \in Live(t) : t.arrData[x].key = t.arrData[y].key => x = y
      /\ \A x \in t.next .. t.cap - 1 : t.arrData[x] = Unused
      /\ Chain(t.arrData, t.removed, Removed(t))
      /\ t.used = Cardinality(Live(t))
    BY DEF Whole, Sound
<1>2. /\ t.cap \in Nat /\ t.next \in Nat
      /\ \A x \in Live(t) : x \in 0 .. t.next - 1
    BY <1>1, ShapeFacts DEF Ranges
<1>3. /\ r.cap = t.cap /\ r.used = t.used /\ r.next = i + 1 /\ r.removed = t.removed
      /\ r.entry = t.entry /\ r.arrData = t.arrData /\ DOMAIN r = DOMAIN t
    BY <1>1 DEF Shape
<1> HIDE DEF r
<1>4. Shape(r)
    BY <1>1, <1>2, <1>3 DEF Shape
<1>5. t.arrData[i].key = NoKey
    BY <1>1, <1>2 DEF Unused
<1>6. Live(r) = Live(t)
  <2>1. \A x : x \in 0 .. r.next - 1 <=> x \in 0 .. t.next - 1 \/ x = i
    BY <1>2, <1>3
  <2> QED
    BY <1>3, <1>5, <2>1 DEF Live
<1>7. i \in 0 .. r.next - 1 /\ i \notin Live(r)
    BY <1>2, <1>3, <1>6
<1>8. Removed(r) \ {i} = Removed(t)
  <2>1. \A x : x \in 0 .. r.next - 1 <=> x \in 0 .. t.next - 1 \/ x = i
    BY <1>2, <1>3
  <2>2. i \notin 0 .. t.next - 1
    BY <1>2
  <2> QED
    BY <1>6, <2>1, <2>2 DEF Removed
<1>9. \A q : InSlot(r, q) = InSlot(t, q)
    BY <1>3, <1>6 DEF InSlot, Slot
<1>10. \A x \in r.next .. r.cap - 1 : r.arrData[x] = Unused
  <2>1. \A x \in r.next .. r.cap - 1 : x \in t.next .. t.cap - 1
    BY <1>2, <1>3
  <2> QED
    BY <1>1, <1>3, <2>1
<1>11. Spared(r, i)
    BY <1>1, <1>3, <1>4, <1>6, <1>7, <1>8, <1>9, <1>10 DEF Spared, Sound
<1>12. Entries(r) = Entries(t)
    BY <1>3, <1>6 DEF Entries
<1> QED
    BY <1>3, <1>6, <1>11, <1>12 DEF r

\* The first one of the removed list is taken.
LEMMA AgainSpared ==
    ASSUME NEW t, Whole(t), t.removed # Nil
    PROVE  LET r == [t EXCEPT !.removed = t.arrData[t.removed].next]
           IN  /\ Spared(r, t.removed) /\ Live(r) = Live(t)
               /\ Entries(r) = Entries(t) /\ r.cap = t.cap
<1> DEFINE r == [t EXCEPT !.removed = t.arrData[t.removed].next]
           i == t.removed
<1>1. /\ Shape(t)
      /\ \A q \in 0 .. t.cap - 1 : Chain(t.arrData, t.entry[q], InSlot(t, q))
      /\ \A x, y \in Live(t) : t.arrData[x].key = t.arrData[y].key => x = y
      /\ \A x \in t.next .. t.cap - 1 : t.arrData[x] = Unused
      /\ Chain(t.arrData, t.removed, Removed(t))
      /\ t.used = Cardinality(Live(t))
    BY DEF Whole, Sound
<1>2. i \in Removed(t) /\ Chain(t.arrData, t.arrData[i].next, Removed(t) \ {i})
    BY <1>1, ChainFacts, ChainPop
<1>3. i \in 0 .. t.next - 1 /\ i \notin Live(t)
    BY <1>2 DEF Removed
<1>4. t.arrData[i].next \in -1 .. t.cap - 1
    BY <1>1, <1>3, ShapeFacts DEF Ranges
<1>5. /\ r.cap = t.cap /\ r.used = t.used /\ r.next = t.next /\ r.removed = t.arrData[i].next
      /\ r.entry = t.entry /\ r.arrData = t.arrData /\ DOMAIN r = DOMAIN t
    BY <1>1 DEF Shape
<1> HIDE DEF r, i
<1>6. Shape(r)
    BY <1>1, <1>4, <1>5 DEF Shape
<1>7. Live(r) = Live(t)
    BY <1>5 DEF Live
<1>8. Removed(r) = Removed(t) /\ \A q : InSlot(r, q) = InSlot(t, q)
    BY <1>5, <1>7 DEF InSlot, Slot, Removed
<1>9. Spared(r, i)
    BY <1>1, <1>2, <1>3, <1>5, <1>6, <1>7, <1>8 DEF Spared, Sound
<1>10. Entries(r) = Entries(t)
    BY <1>5, <1>7 DEF Entries
<1> QED
    BY <1>5, <1>7, <1>9, <1>10 DEF r, i

\* Replacing a value touches no link.
LEMMA ReplaceWhole ==
    ASSUME NEW t, Whole(t), NEW i \in Live(t), NEW v \in Val
    PROVE  LET r == [t EXCEPT !.arrData[i].val = v]
           IN  /\ Whole(r) /\ r.cap = t.cap
               /\ Entries(r) = (Entries(t) \ {<<t.arrData[i].key, t.arrData[i].val>>})
                                   \cup {<<t.arrData[i].key, v>>}
<1> DEFINE r == [t EXCEPT !.arrData[i].val = v]
<1>1. /\ Shape(t)
      /\ \A q \in 0 .. t.cap - 1 : Chain(t.arrData, t.entry[q], InSlot(t, q))
      /\ \A x, y \in Live(t) : t.arrData[x].key = t.arrData[y].key => x = y
      /\ \A x \in t.next .. t.cap - 1 : t.arrData[x] = Unused
      /\ Chain(t.arrData, t.removed, Removed(t))
      /\ t.used = Cardinality(Live(t))
    BY DEF Whole, Sound
<1>2. /\ t.cap \in Nat /\ t.next \in Nat /\ t.next <= t.cap /\ i \in 0 .. t.cap - 1
      /\ \A x \in Live(t) : x \in 0 .. t.next - 1 /\ x \in 0 .. t.cap - 1
      /\ \A x \in 0 .. t.next - 1 : x \in 0 .. t.cap - 1
      /\ \A q : InSlot(t, q) \subseteq Live(t)
      /\ t.arrData \in [0 .. t.cap - 1 -> Bucket(t.cap)]
    BY <1>1, ShapeFacts DEF Shape, Ranges
<1>3. /\ r.cap = t.cap /\ r.used = t.used /\ r.next = t.next /\ r.removed = t.removed
      /\ r.entry = t.entry /\ r.arrData = [t.arrData EXCEPT ![i].val = v]
      /\ DOMAIN r = DOMAIN t
    BY <1>1 DEF Shape
<1> HIDE DEF r
<1>4. /\ r.arrData[i].key = t.arrData[i].key /\ r.arrData[i].val = v
      /\ r.arrData[i].next = t.arrData[i].next
      /\ r.arrData[i] \in Bucket(t.cap)
      /\ \A x \in 0 .. t.cap - 1 : x # i => r.arrData[x] = t.arrData[x]
  <2>1. t.arrData[i] \in Bucket(t.cap)
    BY <1>2
  <2>2. r.arrData[i] = [t.arrData[i] EXCEPT !.val = v]
    BY <1>2, <1>3
  <2>3. /\ [t.arrData[i] EXCEPT !.val = v] \in Bucket(t.cap)
        /\ [t.arrData[i] EXCEPT !.val = v].key = t.arrData[i].key
        /\ [t.arrData[i] EXCEPT !.val = v].next = t.arrData[i].next
        /\ [t.arrData[i] EXCEPT !.val = v].val = v
    BY <2>1 DEF Bucket
  <2> QED
    BY <1>2, <1>3, <2>2, <2>3
<1>5. \A x \in 0 .. t.cap - 1 : /\ r.arrData[x].key = t.arrData[x].key
                                /\ r.arrData[x].next = t.arrData[x].next
    BY <1>4
<1>6. Shape(r)
  <2>1. r.arrData \in [0 .. t.cap - 1 -> Bucket(t.cap)]
    BY <1>2, <1>3, <1>4
  <2> QED
    BY <1>1, <1>2, <1>3, <2>1 DEF Shape
<1>7. Live(r) = Live(t)
    BY <1>2, <1>3, <1>5 DEF Live
<1>8. Removed(r) = Removed(t) /\ \A q : InSlot(r, q) = InSlot(t, q)
    BY <1>2, <1>3, <1>5, <1>7 DEF InSlot, Slot, Removed
<1>9. ASSUME NEW q \in 0 .. r.cap - 1 PROVE Chain(r.arrData, r.entry[q], InSlot(r, q))
  <2>1. Chain(t.arrData, t.entry[q], InSlot(t, q))
    BY <1>1, <1>3
  <2>2. \A x \in InSlot(t, q) : r.arrData[x].next = t.arrData[x].next
    BY <1>2, <1>5
  <2>3. Chain(r.arrData, t.entry[q], InSlot(t, q))
    BY <2>1, <2>2, ChainFrame
  <2> QED
    BY <1>3, <1>8, <2>3
<1>10. \A x, y \in Live(r) : r.arrData[x].key = r.arrData[y].key => x = y
    BY <1>1, <1>2, <1>5, <1>7
<1>11. \A x \in r.next .. r.cap - 1 : r.arrData[x] = Unused
  <2>1. \A x \in t.next .. t.cap - 1 : x # i /\ x \in 0 .. t.cap - 1
    BY <1>2
  <2> QED
    BY <1>1, <1>3, <1>4, <2>1
<1>12. Chain(r.arrData, r.removed, Removed(r))
  <2>1. \A x \in Removed(t) : r.arrData[x].next = t.arrData[x].next
    BY <1>2, <1>5 DEF Removed
  <2>2. Chain(r.arrData, t.removed, Removed(t))
    BY <1>1, <2>1, ChainFrame
  <2> QED
    BY <1>3, <1>8, <2>2
<1>13. Whole(r)
    BY <1>1, <1>3, <1>6, <1>7, <1>9, <1>10, <1>11, <1>12 DEF Whole, Sound
<1>14. Entries(r) = (Entries(t) \ {<<t.arrData[i].key, t.arrData[i].val>>})
                        \cup {<<t.arrData[i].key, v>>}
  <2>1. \A x \in Live(t) : x # i => r.arrData[x] = t.arrData[x] /\ t.arrData[x].key # t.arrData[i].key
    BY <1>1, <1>2, <1>4
  <2>2. ASSUME NEW e \in Entries(r)
        PROVE  e \in (Entries(t) \ {<<t.arrData[i].key, t.arrData[i].val>>})
                        \cup {<<t.arrData[i].key, v>>}
    <3>1. PICK x \in Live(t) : e = <<r.arrData[x].key, r.arrData[x].val>>
      BY <1>7 DEF Entries
    <3>2. CASE x = i
      BY <1>4, <3>1, <3>2
    <3>3. CASE x # i
      BY <2>1, <3>1, <3>3 DEF Entries
    <3> QED
      BY <3>2, <3>3
  <2>3. ASSUME NEW e \in Entries(t), e # <<t.arrData[i].key, t.arrData[i].val>>
        PROVE  e \in Entries(r)
    <3>1. PICK x \in Live(t) : e = <<t.arrData[x].key, t.arrData[x].val>>
      BY DEF Entries
    <3> QED
      BY <1>7, <2>1, <2>3, <3>1 DEF Entries
  <2>4. <<t.arrData[i].key, v>> \in Entries(r)
    BY <1>4, <1>7 DEF Entries
  <2> QED
    BY <2>2, <2>3, <2>4
<1> QED
    BY <1>3, <1>13, <1>14 DEF r

\* A new table is empty.
LEMMA NewWhole ==
    ASSUME NEW cap, hash_recap(cap) \in Nat \ {0}
    PROVE  /\ Whole(NewTable(cap)) /\ Entries(NewTable(cap)) = {}
           /\ NewTable(cap).cap = hash_recap(cap)
<1> DEFINE r == NewTable(cap)
           c == hash_recap(cap)
<1>1. /\ r.cap = c /\ r.used = 0 /\ r.next = 0 /\ r.removed = Nil
      /\ r.entry = [s \in 0 .. c - 1 |-> Nil] /\ r.arrData = [i \in 0 .. c - 1 |-> Unused]
      /\ DOMAIN r = {"cap", "used", "next", "removed", "entry", "arrData"}
    BY DEF NewTable
<1> HIDE DEF r, c
<1>2. c \in Nat \ {0}
    BY DEF c
<1>3. Unused \in Bucket(c)
    BY <1>2 DEF Unused, Bucket
<1>4. Nil \in -1 .. c - 1
    BY <1>2 DEF Nil
<1>5. Shape(r)
    BY <1>1, <1>2, <1>3, <1>4 DEF Shape
<1>6. Live(r) = {}
  <2>1. 0 .. r.next - 1 = {}
    BY <1>1
  <2> QED
    BY <2>1 DEF Live
<1>7. Removed(r) = {} /\ \A q : InSlot(r, q) = {}
  <2>1. 0 .. r.next - 1 = {}
    BY <1>1
  <2> QED
    BY <1>6, <2>1 DEF Removed, InSlot
<1>8. Cardinality(Live(r)) = 0
    BY <1>6, FS_EmptySet
<1>9. \A q \in 0 .. r.cap - 1 : r.entry[q] = Nil
    BY <1>1
<1>10. \A q \in 0 .. r.cap - 1 : Chain(r.arrData, r.entry[q], InSlot(r, q))
    BY <1>7, <1>9, ChainEmpty
<1>11. Chain(r.arrData, r.removed, Removed(r))
    BY <1>1, <1>7, ChainEmpty
<1>12. \A x \in r.next .. r.cap - 1 : r.arrData[x] = Unused
    BY <1>1
<1>13. Whole(r)
    BY <1>1, <1>5, <1>6, <1>8, <1>10, <1>11, <1>12 DEF Whole, Sound
<1>14. Entries(r) = {}
    BY <1>6 DEF Entries
<1> QED
    BY <1>1, <1>13, <1>14 DEF r, c

\* u is t with bucket i of key k taken out of its chain.
Cut(t, k, i, u) ==
    /\ u.cap = t.cap /\ u.used = t.used /\ u.next = t.next /\ u.removed = t.removed
    /\ DOMAIN u = DOMAIN t
    /\ u.entry \in [0 .. t.cap - 1 -> -1 .. t.cap - 1]
    /\ u.arrData \in [0 .. t.cap - 1 -> Bucket(t.cap)]
    /\ \A x \in 0 .. t.cap - 1 : /\ u.arrData[x].key = t.arrData[x].key
                                 /\ u.arrData[x].val = t.arrData[x].val
                                 /\ x \notin InSlot(t, Slot(t, k)) => u.arrData[x] = t.arrData[x]
    /\ \A q \in 0 .. t.cap - 1 : q # Slot(t, k) => u.entry[q] = t.entry[q]
    /\ Chain(u.arrData, u.entry[Slot(t, k)], InSlot(t, Slot(t, k)) \ {i})

\* ef_hashtable_remove_key cuts the bucket it found out of its chain.
LEMMA UnlinkedCut ==
    ASSUME NEW t, Whole(t), NEW i \in Live(t), NEW k, k = t.arrData[i].key
    PROVE  Cut(t, k, i, Unlinked(t, k, i))
<1> DEFINE s == Slot(t, k)
           S == InSlot(t, s)
           rest == t.arrData[i].next
           u == Unlinked(t, k, i)
<1>1. /\ Shape(t)
      /\ \A q \in 0 .. t.cap - 1 : Chain(t.arrData, t.entry[q], InSlot(t, q))
    BY DEF Whole, Sound
<1>2. /\ t.cap \in Nat /\ i \in 0 .. t.cap - 1 /\ k \in Key
      /\ \A x \in Live(t) : x \in 0 .. t.next - 1 /\ x \in 0 .. t.cap - 1
      /\ S \subseteq Live(t)
      /\ rest \in -1 .. t.cap - 1
      /\ t.entry \in [0 .. t.cap - 1 -> -1 .. t.cap - 1]
      /\ t.arrData \in [0 .. t.cap - 1 -> Bucket(t.cap)]
    BY <1>1, ShapeFacts DEF Shape, Ranges
<1>3. s \in 0 .. t.cap - 1
    BY <1>1, <1>2, SlotInRange DEF Shape
<1>4. Chain(t.arrData, t.entry[s], S) /\ i \in S
    BY <1>1, <1>3 DEF InSlot
<1>5. CASE t.entry[s] = i
  <2>1. u = [t EXCEPT !.entry[s] = rest]
    BY <1>5 DEF Unlinked
  <2>2. /\ u.cap = t.cap /\ u.used = t.used /\ u.next = t.next /\ u.removed = t.removed
        /\ DOMAIN u = DOMAIN t
        /\ u.entry = [t.entry EXCEPT ![s] = rest] /\ u.arrData = t.arrData
    BY <1>1, <2>1 DEF Shape
  <2> HIDE DEF u, s, S, rest
  <2>3. u.entry \in [0 .. t.cap - 1 -> -1 .. t.cap - 1] /\ u.entry[s] = rest
    BY <1>2, <1>3, <2>2
  <2>4. \A q \in 0 .. t.cap - 1 : q # s => u.entry[q] = t.entry[q]
    BY <1>2, <2>2
  <2>5. i # Nil
    BY <1>2 DEF Nil
  <2>6. Chain(t.arrData, rest, S \ {i})
    BY <1>4, <1>5, <2>5, ChainPop DEF rest
  <2> QED
    BY <1>2, <2>2, <2>3, <2>4, <2>6 DEF u, s, S, Cut
<1>6. CASE t.entry[s] # i
  <2> DEFINE before == CHOOSE j \in S : t.arrData[j].next = i
  <2>1. u = [t EXCEPT !.arrData[before].next = rest]
    BY <1>6 DEF Unlinked
  <2>2. before \in S /\ t.arrData[before].next = i
    <3>1. \E j \in S : t.arrData[j].next = i
      BY <1>4, <1>6, ChainBefore
    <3> QED
      BY <3>1
  <2>3. /\ u.cap = t.cap /\ u.used = t.used /\ u.next = t.next /\ u.removed = t.removed
        /\ DOMAIN u = DOMAIN t
        /\ u.entry = t.entry /\ u.arrData = [t.arrData EXCEPT ![before].next = rest]
    BY <1>1, <2>1 DEF Shape
  <2> HIDE DEF u, s, S, rest, before
  <2>4. before \in 0 .. t.cap - 1
    BY <1>2, <2>2
  <2>5. t.arrData[before] \in Bucket(t.cap)
    BY <1>2, <2>4
  <2>6. /\ u.arrData[before] = [t.arrData[before] EXCEPT !.next = rest]
        /\ \A x \in 0 .. t.cap - 1 : x # before => u.arrData[x] = t.arrData[x]
    BY <1>2, <2>3, <2>4
  <2>7. /\ u.arrData[before] \in Bucket(t.cap)
        /\ u.arrData[before].key = t.arrData[before].key
        /\ u.arrData[before].val = t.arrData[before].val
        /\ u.arrData[before].next = rest
    BY <1>2, <2>5, <2>6 DEF Bucket
  <2>8. u.arrData \in [0 .. t.cap - 1 -> Bucket(t.cap)]
    BY <1>2, <2>3, <2>6, <2>7
  <2>9. \A x \in 0 .. t.cap - 1 : /\ u.arrData[x].key = t.arrData[x].key
                                  /\ u.arrData[x].val = t.arrData[x].val
                                  /\ x \notin S => u.arrData[x] = t.arrData[x]
    BY <2>2, <2>6, <2>7
  <2>10. Chain(u.arrData, t.entry[s], S \ {i})
    <3>1. u.arrData[before].next = t.arrData[i].next
      BY <2>7 DEF rest
    <3>2. \A y \in S : y # before /\ y # i => u.arrData[y].next = t.arrData[y].next
      BY <1>2, <2>6
    <3> QED
      BY <1>4, <2>2, <3>1, <3>2, ChainCut
  <2> QED
    BY <1>2, <2>3, <2>8, <2>9, <2>10 DEF u, s, S, Cut
<1> QED
    BY <1>5, <1>6

\* Then it is emptied and kept on the removed list.
LEMMA RemoveWhole ==
    ASSUME NEW t, Whole(t), NEW i \in Live(t), NEW k, k = t.arrData[i].key
    PROVE  LET u == Unlinked(t, k, i)
               r == [u EXCEPT !.arrData[i] = [key |-> NoKey, val |-> NoKey, next |-> u.removed],
                              !.removed = i, !.used = @ - 1]
           IN  /\ Whole(r) /\ r.cap = t.cap
               /\ u.arrData[i].val = t.arrData[i].val
               /\ Entries(r) = Entries(t) \ {<<k, t.arrData[i].val>>}
<1> DEFINE s == Slot(t, k)
           u == Unlinked(t, k, i)
           free == [key |-> NoKey, val |-> NoKey, next |-> u.removed]
           r == [u EXCEPT !.arrData[i] = free, !.removed = i, !.used = @ - 1]
<1>1. /\ Shape(t)
      /\ \A q \in 0 .. t.cap - 1 : Chain(t.arrData, t.entry[q], InSlot(t, q))
      /\ \A x, y \in Live(t) : t.arrData[x].key = t.arrData[y].key => x = y
      /\ \A x \in t.next .. t.cap - 1 : t.arrData[x] = Unused
      /\ Chain(t.arrData, t.removed, Removed(t))
      /\ t.used = Cardinality(Live(t))
    BY DEF Whole, Sound
<1>2. /\ t.cap \in Nat /\ t.cap > 0 /\ t.next \in Nat /\ t.next <= t.cap /\ t.used \in Nat
      /\ i \in 0 .. t.cap - 1 /\ i \in 0 .. t.next - 1 /\ i \in Nat /\ k \in Key
      /\ \A x \in Live(t) : x \in 0 .. t.next - 1 /\ x \in 0 .. t.cap - 1 /\ t.arrData[x].key \in Key
      /\ \A x \in 0 .. t.next - 1 : x \in 0 .. t.cap - 1
      /\ \A q : InSlot(t, q) \subseteq Live(t)
      /\ t.removed \in -1 .. t.cap - 1
    BY <1>1, ShapeFacts DEF Shape, Ranges
<1>3. s \in 0 .. t.cap - 1
    BY <1>1, <1>2, SlotInRange DEF Shape
<1>4. /\ u.cap = t.cap /\ u.used = t.used /\ u.next = t.next /\ u.removed = t.removed
      /\ DOMAIN u = DOMAIN t
      /\ u.entry \in [0 .. t.cap - 1 -> -1 .. t.cap - 1]
      /\ u.arrData \in [0 .. t.cap - 1 -> Bucket(t.cap)]
      /\ \A x \in 0 .. t.cap - 1 : /\ u.arrData[x].key = t.arrData[x].key
                                   /\ u.arrData[x].val = t.arrData[x].val
                                   /\ x \notin InSlot(t, s) => u.arrData[x] = t.arrData[x]
      /\ \A q \in 0 .. t.cap - 1 : q # s => u.entry[q] = t.entry[q]
      /\ Chain(u.arrData, u.entry[s], InSlot(t, s) \ {i})
  <2>1. Cut(t, k, i, u)
    BY UnlinkedCut
  <2> HIDE DEF u
  <2> QED
    BY <2>1 DEF Cut
<1> HIDE DEF u
<1>5. /\ r.cap = t.cap /\ r.used = t.used - 1 /\ r.next = t.next /\ r.removed = i
      /\ r.entry = u.entry /\ r.arrData = [u.arrData EXCEPT ![i] = free]
      /\ DOMAIN r = DOMAIN t
    BY <1>1, <1>4 DEF Shape
<1>6. free \in Bucket(t.cap) /\ free.key = NoKey /\ free.next = t.removed
    BY <1>2, <1>4 DEF Bucket
<1> HIDE DEF r, free
<1>7. /\ r.arrData[i] = free
      /\ \A x \in 0 .. t.cap - 1 : x # i => r.arrData[x] = u.arrData[x]
    BY <1>2, <1>4, <1>5
<1>8. /\ IsFiniteSet(Live(t)) /\ Cardinality(Live(t)) \in Nat
    BY <1>1, LiveFinite
<1>9. Live(r) = Live(t) \ {i}
    BY <1>2, <1>4, <1>5, <1>6, <1>7 DEF Live
<1>10. Cardinality(Live(r)) = t.used - 1 /\ t.used - 1 \in Nat
  <2>1. Cardinality(Live(t) \ {i}) = Cardinality(Live(t)) - 1 /\ IsFiniteSet(Live(t) \ {i})
    BY <1>8, FS_RemoveElement
  <2>2. Cardinality(Live(t) \ {i}) \in Nat
    BY <2>1, FS_CardinalityType
  <2> QED
    BY <1>1, <1>9, <2>1, <2>2
<1>11. Shape(r)
  <2>1. r.arrData \in [0 .. t.cap - 1 -> Bucket(t.cap)]
    <3>1. u.arrData \in [0 .. t.cap - 1 -> Bucket(t.cap)]
      BY <1>4
    <3>2. [u.arrData EXCEPT ![i] = free] \in [0 .. t.cap - 1 -> Bucket(t.cap)]
      BY <1>6, <3>1
    <3> QED
      BY <1>5, <3>2
  <2>2. i \in -1 .. t.cap - 1
    BY <1>2
  <2> QED
    BY <1>1, <1>2, <1>4, <1>5, <1>10, <2>1, <2>2 DEF Shape
<1>12. \A x \in Live(r) : /\ x \in Live(t) /\ x # i /\ x \in 0 .. t.cap - 1
                          /\ r.arrData[x].key = t.arrData[x].key
                          /\ r.arrData[x].val = t.arrData[x].val
    BY <1>2, <1>4, <1>7, <1>9
<1>13. InSlot(r, s) = InSlot(t, s) \ {i}
    BY <1>5, <1>9, <1>12 DEF InSlot, Slot
<1>14. \A q : q # s => InSlot(r, q) = InSlot(t, q) /\ i \notin InSlot(t, q)
  <2>1. Slot(t, t.arrData[i].key) = s
    OBVIOUS
  <2> QED
    BY <1>5, <1>9, <1>12, <2>1 DEF InSlot, Slot
<1>15. ASSUME NEW q \in 0 .. r.cap - 1 PROVE Chain(r.arrData, r.entry[q], InSlot(r, q))
  <2>0. q \in 0 .. t.cap - 1
    BY <1>5
  <2>1. CASE q = s
    <3>1. \A x \in InSlot(t, s) \ {i} : r.arrData[x].next = u.arrData[x].next
      BY <1>2, <1>7
    <3>2. Chain(r.arrData, u.entry[s], InSlot(t, s) \ {i})
      BY <1>4, <3>1, ChainFrame
    <3> QED
      BY <1>5, <1>13, <2>1, <3>2
  <2>2. CASE q # s
    <3>1. \A x \in InSlot(t, q) : x # i /\ x \notin InSlot(t, s) /\ x \in 0 .. t.cap - 1
      BY <1>2, <1>14, <2>2 DEF InSlot
    <3>2. \A x \in InSlot(t, q) : r.arrData[x].next = t.arrData[x].next
      BY <1>4, <1>7, <3>1
    <3>3. Chain(t.arrData, t.entry[q], InSlot(t, q)) /\ u.entry[q] = t.entry[q]
      BY <1>1, <1>4, <2>0, <2>2
    <3>4. Chain(r.arrData, t.entry[q], InSlot(t, q))
      BY <3>2, <3>3, ChainFrame
    <3> QED
      BY <1>5, <1>14, <2>2, <3>3, <3>4
  <2> QED
    BY <2>1, <2>2
<1>16. \A x, y \in Live(r) : r.arrData[x].key = r.arrData[y].key => x = y
    BY <1>1, <1>12
<1>17. \A x \in r.next .. r.cap - 1 : r.arrData[x] = Unused
  <2>1. \A x \in t.next .. t.cap - 1 : x # i /\ x \in 0 .. t.cap - 1 /\ x \notin InSlot(t, s)
    BY <1>2
  <2> QED
    BY <1>1, <1>4, <1>5, <1>7, <2>1
<1>18. Chain(r.arrData, r.removed, Removed(r))
  <2>1. Removed(r) = Removed(t) \cup {i} /\ i \notin Removed(t)
    BY <1>2, <1>5, <1>9 DEF Removed
  <2>2. \A x \in Removed(t) : r.arrData[x].next = t.arrData[x].next
    <3>1. \A x \in Removed(t) : x \in 0 .. t.cap - 1 /\ x \notin InSlot(t, s) /\ x # i
      BY <1>2, <2>1 DEF Removed
    <3> QED
      BY <1>4, <1>7, <3>1
  <2>3. Chain(r.arrData, i, Removed(t) \cup {i})
    BY <1>1, <1>2, <1>6, <1>7, <2>1, <2>2, ChainPush
  <2> QED
    BY <1>5, <2>1, <2>3
<1>19. Whole(r)
    BY <1>5, <1>10, <1>11, <1>15, <1>16, <1>17, <1>18 DEF Whole, Sound
<1>20. Entries(r) = Entries(t) \ {<<k, t.arrData[i].val>>}
  <2>1. ASSUME NEW e \in Entries(r) PROVE e \in Entries(t) /\ e # <<k, t.arrData[i].val>>
    <3>1. PICK x \in Live(r) : e = <<r.arrData[x].key, r.arrData[x].val>>
      BY DEF Entries
    <3>2. t.arrData[x].key # k
      BY <1>1, <1>12
    <3> QED
      BY <1>12, <3>1, <3>2 DEF Entries
  <2>2. ASSUME NEW e \in Entries(t), e # <<k, t.arrData[i].val>> PROVE e \in Entries(r)
    <3>1. PICK x \in Live(t) : e = <<t.arrData[x].key, t.arrData[x].val>>
      BY DEF Entries
    <3>2. x \in Live(r)
      BY <1>9, <2>2, <3>1
    <3> QED
      BY <1>12, <3>1, <3>2 DEF Entries
  <2> QED
    BY <2>1, <2>2
<1>21. u.arrData[i].val = t.arrData[i].val
    BY <1>2, <1>4
<1> QED
    BY <1>5, <1>19, <1>20, <1>21 DEF r, u, free
-----------------------------------------------------------------------------
(* Resizing *)

\* What a table can have room for.
Capacities == {HASH_TABLE_INIT_CAP * p : p \in {1} \cup PowersOfTwo(2 * MaxCap)}

\* hash_recap finds a capacity that is large enough.
LEMMA Capacity ==
    ASSUME NEW cap \in Int, cap <= MaxCap
    PROVE  /\ hash_recap(cap) \in Nat \ {0} /\ cap <= hash_recap(cap)
           /\ hash_recap(cap) \in Capacities
<1>1. HASH_TABLE_INIT_CAP \in Nat \ {0} /\ MaxCap \in Nat
  BY CapAssumption DEF PowersOfTwo
<1>2. /\ hash_recap(cap) \in Nat /\ cap - 1 < hash_recap(cap)
      /\ HASH_TABLE_INIT_CAP <= hash_recap(cap)
      /\ hash_recap(cap) \in {HASH_TABLE_INIT_CAP * p : p \in {1} \cup PowersOfTwo(2 * (cap - 1))}
  <2>1. cap - 1 \in Int
    OBVIOUS
  <2> QED
    BY <1>1, <2>1, ExpandedFits, Zenon DEF hash_recap
<1>3. PowersOfTwo(2 * (cap - 1)) \subseteq PowersOfTwo(2 * MaxCap)
  <2>1. 2 * (cap - 1) \in Int /\ 2 * MaxCap \in Int /\ 2 * (cap - 1) <= 2 * MaxCap
    BY <1>1
  <2> QED
    BY <2>1, PowersGrow
<1>4. hash_recap(cap) \in Capacities
  BY <1>2, <1>3, Zenon DEF Capacities
<1> QED
  BY <1>1, <1>2, <1>4

\* How many of L come before i.
Rank(L, i) == Cardinality({j \in L : j < i})

\* Each of 0, 1, ... below their number is the rank of exactly one.
LEMMA Ranked ==
    ASSUME NEW L, L \subseteq Nat, IsFiniteSet(L)
    PROVE  /\ \A n \in 0 .. Cardinality(L) - 1 : \E i \in L : Rank(L, i) = n
           /\ \A i \in L : Rank(L, i) \in 0 .. Cardinality(L) - 1
           /\ \A i, j \in L : Rank(L, i) = Rank(L, j) => i = j
<1> DEFINE N == Cardinality(L)
           Below(i) == {j \in L : j < i}
<1>1. N \in Nat
    BY FS_CardinalityType
<1>2. ASSUME NEW i \in L
      PROVE  /\ Below(i) \in SUBSET L /\ IsFiniteSet(Below(i)) /\ i \notin Below(i)
             /\ Rank(L, i) = Cardinality(Below(i)) /\ Rank(L, i) \in Nat
  <2>1. Below(i) \in SUBSET L /\ i \notin Below(i)
    OBVIOUS
  <2>2. IsFiniteSet(Below(i))
    BY <2>1, FS_Subset
  <2>3. Cardinality(Below(i)) \in Nat
    BY <2>2, FS_CardinalityType
  <2> QED
    BY <2>1, <2>2, <2>3 DEF Rank
<1>3. ASSUME NEW i \in L, NEW j \in L, i < j PROVE Rank(L, i) < Rank(L, j)
  <2>1. Below(i) \in SUBSET Below(j) /\ i \in Below(j) /\ i \notin Below(i)
    <3>1. i \in Nat /\ j \in Nat /\ \A l \in L : l \in Nat
      OBVIOUS
    <3>2. \A l \in Below(i) : l \in Below(j)
      BY <1>3, <3>1
    <3> QED
      BY <1>2, <1>3, <3>2
  <2> HIDE DEF Below
  <2>2. Below(j) # Below(i)
    BY <2>1
  <2>3. Cardinality(Below(i)) <= Cardinality(Below(j)) /\ Cardinality(Below(j)) # Cardinality(Below(i))
    BY <1>2, <2>1, <2>2, FS_Subset
  <2> QED
    BY <1>2, <2>3
<1>4. ASSUME NEW i \in L PROVE Rank(L, i) \in 0 .. N - 1
  <2>1. L # Below(i)
    BY <1>2
  <2>2. Cardinality(Below(i)) <= N /\ N # Cardinality(Below(i))
    BY <1>2, <2>1, FS_Subset
  <2> QED
    BY <1>1, <1>2, <2>2
<1>5. ASSUME NEW i \in L, NEW j \in L, Rank(L, i) = Rank(L, j) PROVE i = j
  <2>1. i \in Nat /\ j \in Nat /\ Rank(L, i) \in Nat
    BY <1>2
  <2>2. ~ (i < j) /\ ~ (j < i)
    BY <1>3, <1>5, <2>1
  <2> QED
    BY <2>1, <2>2
<1> DEFINE f == [i \in L |-> Rank(L, i)]
<1>6. f \in Injection(L, 0 .. N - 1)
    BY <1>4, <1>5 DEF Injection, IsInjective
<1>7. IsFiniteSet(0 .. N - 1) /\ Cardinality(0 .. N - 1) = N
  <2>1. 0 \in Int /\ N - 1 \in Int
    BY <1>1
  <2>2. /\ IsFiniteSet(0 .. N - 1)
        /\ Cardinality(0 .. N - 1) = IF 0 > N - 1 THEN 0 ELSE N - 1 - 0 + 1
    BY <2>1, FS_Interval
  <2> QED
    BY <1>1, <2>2
<1>8. f \in Surjection(L, 0 .. N - 1)
    BY <1>6, <1>7, FS_Injection
<1>9. \A n \in 0 .. N - 1 : \E i \in L : Rank(L, i) = n
    BY <1>8 DEF Surjection
<1> QED
    BY <1>4, <1>5, <1>9

\* What a resized table is made of: at[n] is the bucket that becomes bucket
\* n, Chained(t, c, at, s, n) are those of slot s below n.
Chained(t, c, at, s, n) ==
    {m \in DOMAIN at : m < n /\ NewSlot(t, c, t.arrData[at[m]].key) = s}
LastOf(S) == IF S = {} THEN Nil ELSE Max(S)

Moved(t, c, at, r) ==
    /\ DOMAIN r = {"cap", "used", "next", "removed", "entry", "arrData"}
    /\ r.cap = c /\ r.used = t.used /\ r.next = t.used /\ r.removed = Nil
    /\ r.entry = [s \in 0 .. c - 1 |-> LastOf(Chained(t, c, at, s, c))]
    /\ r.arrData = [n \in 0 .. c - 1 |->
                      IF n \in DOMAIN at
                      THEN [t.arrData[at[n]] EXCEPT
                              !.next = LastOf(Chained(t, c, at,
                                                NewSlot(t, c, t.arrData[at[n]].key), n))]
                      ELSE Unused]

\* The live buckets in the order of their ranks.
InOrder(L) == [n \in 0 .. Cardinality(L) - 1 |-> CHOOSE i \in L : Rank(L, i) = n]

\* They are all there, each once.
LEMMA InOrderFacts ==
    ASSUME NEW L, L \subseteq Nat, IsFiniteSet(L)
    PROVE  /\ InOrder(L) \in [0 .. Cardinality(L) - 1 -> L]
           /\ \A m, n \in 0 .. Cardinality(L) - 1 : InOrder(L)[m] = InOrder(L)[n] => m = n
           /\ \A i \in L : \E n \in 0 .. Cardinality(L) - 1 : InOrder(L)[n] = i
<1> DEFINE N == Cardinality(L)
           at == InOrder(L)
<1>1. \A n \in 0 .. N - 1 : at[n] \in L /\ Rank(L, at[n]) = n
  <2>1. \A n \in 0 .. N - 1 : at[n] = CHOOSE i \in L : Rank(L, i) = n
    BY DEF InOrder
  <2> HIDE DEF at
  <2>2. \A n \in 0 .. N - 1 : \E i \in L : Rank(L, i) = n
    BY Ranked
  <2> QED
    BY <2>1, <2>2
<1>2. at = [n \in 0 .. N - 1 |-> at[n]]
    BY DEF InOrder
<1> HIDE DEF at, N
<1>3. \A i \in L : Rank(L, i) \in 0 .. N - 1
    BY Ranked DEF N
<1>4. \A i, j \in L : Rank(L, i) = Rank(L, j) => i = j
    BY Ranked
<1>5. \A i \in L : \E n \in 0 .. N - 1 : at[n] = i
    BY <1>1, <1>3, <1>4
<1>6. at \in [0 .. N - 1 -> L]
    BY <1>1, <1>2
<1>7. \A m, n \in 0 .. N - 1 : at[m] = at[n] => m = n
    BY <1>1
<1> QED
    BY <1>5, <1>6, <1>7 DEF at, N

\* That is what Resized makes.
LEMMA ResizedMoved ==
    ASSUME NEW t, NEW cap
    PROVE  Moved(t, hash_recap(cap), InOrder(Live(t)), Resized(t, cap))
<1> DEFINE c == hash_recap(cap)
           at == InOrder(Live(t))
           old == [n \in 0 .. Cardinality(Live(t)) - 1 |->
                     t.arrData[CHOOSE i \in Live(t) : Rank(Live(t), i) = n]]
           Old(s, n) == {m \in DOMAIN old : m < n /\ NewSlot(t, c, old[m].key) = s}
           r == Resized(t, cap)
<1>1. r = [cap     |-> c,
           used    |-> t.used,
           next    |-> t.used,
           removed |-> Nil,
           entry   |-> [s \in 0 .. c - 1 |-> LastOf(Old(s, c))],
           arrData |-> [n \in 0 .. c - 1 |->
                          IF n \in DOMAIN old
                          THEN [old[n] EXCEPT !.next = LastOf(Old(NewSlot(t, c, old[n].key), n))]
                          ELSE Unused]]
    BY DEF Resized, Rank, LastOf
<1>2. /\ DOMAIN old = DOMAIN at
      /\ \A n \in DOMAIN at : old[n] = t.arrData[at[n]]
    BY DEF InOrder
<1> HIDE DEF old, r, c, at
<1>3. \A s, n : Old(s, n) = Chained(t, c, at, s, n)
    BY <1>2 DEF Chained
<1> HIDE DEF Old
<1>4. /\ DOMAIN r = {"cap", "used", "next", "removed", "entry", "arrData"}
      /\ r.cap = c /\ r.used = t.used /\ r.next = t.used /\ r.removed = Nil
      /\ r.entry = [s \in 0 .. c - 1 |-> LastOf(Old(s, c))]
      /\ r.arrData = [n \in 0 .. c - 1 |->
                          IF n \in DOMAIN old
                          THEN [old[n] EXCEPT !.next = LastOf(Old(NewSlot(t, c, old[n].key), n))]
                          ELSE Unused]
    BY <1>1
<1>5. r.entry = [s \in 0 .. c - 1 |-> LastOf(Chained(t, c, at, s, c))]
    BY <1>3, <1>4
<1>6. r.arrData = [n \in 0 .. c - 1 |->
                     IF n \in DOMAIN at
                     THEN [t.arrData[at[n]] EXCEPT
                             !.next = LastOf(Chained(t, c, at,
                                               NewSlot(t, c, t.arrData[at[n]].key), n))]
                     ELSE Unused]
    BY <1>2, <1>3, <1>4
<1>7. Moved(t, c, at, r)
    BY <1>4, <1>5, <1>6 DEF Moved
<1> QED
    BY <1>7 DEF c, at, r

\* Linking each bucket in front of its chain, in order, chains them all.
LEMMA MovedChain ==
    ASSUME NEW t, NEW c, NEW at, NEW arr, NEW N \in Nat, DOMAIN at = 0 .. N - 1,
           \A n \in 0 .. N - 1 :
               arr[n].next = LastOf(Chained(t, c, at, NewSlot(t, c, t.arrData[at[n]].key), n)),
           NEW s, NEW n \in Nat
    PROVE  Chain(arr, LastOf(Chained(t, c, at, s, n)), Chained(t, c, at, s, n))
<1> DEFINE S(l) == Chained(t, c, at, s, l)
           Bad == {l \in Nat : ~ Chain(arr, LastOf(S(l)), S(l))}
<1>1. \A l : S(l) = {m \in 0 .. N - 1 : m < l /\ NewSlot(t, c, t.arrData[at[m]].key) = s}
    BY DEF Chained
<1>2. \A l : l \in Bad <=> l \in Nat /\ ~ Chain(arr, LastOf(S(l)), S(l))
    OBVIOUS
<1> HIDE DEF Bad, S
<1>3. 0 \notin Bad
  <2>1. S(0) = {}
    BY <1>1
  <2>2. LastOf(S(0)) = Nil
    BY <2>1 DEF LastOf
  <2> QED
    BY <1>2, <2>1, <2>2, ChainEmpty
<1>4. ASSUME NEW l \in Nat, l # 0, l \in Bad PROVE l - 1 \in Bad
  <2> DEFINE m == l - 1
  <2>0. m \in Nat /\ l = m + 1
    BY <1>4
  <2> HIDE DEF m
  <2>1. CASE m \in S(l)
    <3>1. m \in 0 .. N - 1 /\ NewSlot(t, c, t.arrData[at[m]].key) = s
      BY <1>1, <2>1
    <3>2. S(l) = S(m) \cup {m} /\ m \notin S(m)
      BY <1>1, <2>0, <3>1
    <3>3. \A x \in S(m) : x \in Nat /\ x < m
      BY <1>1, <2>0
    <3>4. LastOf(S(l)) = m
      <4>1. Max(S(l)) = CHOOSE x \in S(l) : \A y \in S(l) : x >= y
        BY DEF Max
      <4>2. m \in S(l) /\ \A y \in S(l) : m >= y
        BY <2>0, <3>2, <3>3
      <4>3. \A x \in S(l) : x # m => ~ (x >= m)
        BY <2>0, <3>2, <3>3
      <4>4. Max(S(l)) = m
        BY <4>1, <4>2, <4>3
      <4> QED
        BY <4>2, <4>4 DEF LastOf
    <3>5. arr[m].next = LastOf(S(m))
      BY <3>1 DEF S
    <3>6. CASE Chain(arr, LastOf(S(m)), S(m))
      <4>1. Chain(arr, m, S(m) \cup {m})
        BY <2>0, <3>2, <3>5, <3>6, ChainPush
      <4> QED
        BY <1>2, <1>4, <3>2, <3>4, <4>1
    <3> QED
      BY <1>2, <2>0, <3>6 DEF m
  <2>2. CASE m \notin S(l)
    <3>1. S(l) = S(m)
      <4>1. \A x \in 0 .. N - 1 : x < l <=> x < m \/ x = m
        BY <2>0
      <4>2. \A x : x \in S(l) <=> x \in 0 .. N - 1 /\ x < l /\ NewSlot(t, c, t.arrData[at[x]].key) = s
        BY <1>1
      <4>3. \A x : x \in S(m) <=> x \in 0 .. N - 1 /\ x < m /\ NewSlot(t, c, t.arrData[at[x]].key) = s
        BY <1>1
      <4>4. \A x : x \in S(l) <=> x \in S(m)
        BY <2>0, <2>2, <4>1, <4>2, <4>3
      <4> QED
        BY <4>4
    <3> QED
      BY <1>2, <1>4, <2>0, <3>1 DEF m
  <2> QED
    BY <2>1, <2>2
<1>5. Bad = {}
  <2> SUFFICES ASSUME Bad # {} PROVE FALSE
    OBVIOUS
  <2>0. Bad \subseteq Nat
    BY <1>2
  <2>1. PICK l \in Bad : \A k \in Bad : ~ (<<k, l>> \in OpToRel(<, Nat))
    BY <2>0, WFMin, NatLessThanWellFounded
  <2>2. l \in Nat /\ l # 0 /\ l - 1 \in Bad /\ l - 1 \in Nat /\ l - 1 < l
    BY <1>3, <1>4, <2>0
  <2> QED
    BY <2>1, <2>2 DEF OpToRel
<1> QED
    BY <1>2, <1>5 DEF S

\* The array made anew holds what the old one held.
LEMMA ResizedWhole ==
    ASSUME NEW t, Whole(t), NEW cap, hash_recap(cap) \in Nat \ {0}, t.used <= hash_recap(cap)
    PROVE  /\ Whole(Resized(t, cap)) /\ Entries(Resized(t, cap)) = Entries(t)
           /\ Resized(t, cap).cap = hash_recap(cap)
           /\ Resized(t, cap).next = t.used
<1> DEFINE c == hash_recap(cap)
           r == Resized(t, cap)
           L == Live(t)
           N == Cardinality(L)
           at == InOrder(L)
           In(s, n) == Chained(t, c, at, s, n)
<1>1. Moved(t, c, at, r)
    BY ResizedMoved
<1>2. /\ Shape(t) /\ t.used = N
      /\ \A x, y \in L : t.arrData[x].key = t.arrData[y].key => x = y
    BY DEF Whole, Sound
<1>3. IsFiniteSet(L) /\ N \in Nat
    BY <1>2, LiveFinite
<1>4. \A x \in L : x \in Nat /\ x \in 0 .. t.cap - 1 /\ t.arrData[x].key \in Key
    BY <1>2, ShapeFacts DEF Ranges
<1>5. /\ at \in [0 .. N - 1 -> L]
      /\ \A m, n \in 0 .. N - 1 : at[m] = at[n] => m = n
      /\ \A i \in L : \E n \in 0 .. N - 1 : at[n] = i
  <2>1. L \subseteq Nat
    BY <1>4
  <2> QED
    BY <1>3, <2>1, InOrderFacts
<1>6. c \in Nat /\ c > 0 /\ N <= c
    BY <1>2
<1> HIDE DEF c, r, L, N, at
<1>7. /\ DOMAIN r = {"cap", "used", "next", "removed", "entry", "arrData"}
      /\ r.cap = c /\ r.used = N /\ r.next = N /\ r.removed = Nil
      /\ r.entry = [s \in 0 .. c - 1 |-> LastOf(In(s, c))]
      /\ r.arrData = [n \in 0 .. c - 1 |->
                        IF n \in DOMAIN at
                        THEN [t.arrData[at[n]] EXCEPT
                                !.next = LastOf(In(NewSlot(t, c, t.arrData[at[n]].key), n))]
                        ELSE Unused]
    BY <1>1, <1>2 DEF Moved
<1>8. \A n \in 0 .. N - 1 : n \in 0 .. c - 1 /\ n \in DOMAIN at /\ at[n] \in L /\ n \in Nat
    BY <1>3, <1>5, <1>6
<1>9. \A n \in N .. c - 1 : n \in 0 .. c - 1 /\ r.arrData[n] = Unused
  <2>1. \A n \in N .. c - 1 : n \in 0 .. c - 1 /\ n \notin 0 .. N - 1
    BY <1>3, <1>6
  <2> QED
    BY <1>5, <1>7, <2>1
<1> DEFINE next(n) == LastOf(In(NewSlot(t, c, t.arrData[at[n]].key), n))
<1>10. \A n \in 0 .. N - 1 : r.arrData[n] = [t.arrData[at[n]] EXCEPT !.next = next(n)]
    BY <1>7, <1>8
<1>11. \A n \in 0 .. N - 1 : t.arrData[at[n]] \in Bucket(t.cap)
    BY <1>2, <1>4, <1>8 DEF Shape
<1> HIDE DEF next
<1>12. \A n \in 0 .. N - 1 : /\ r.arrData[n].next = next(n)
                             /\ r.arrData[n].key = t.arrData[at[n]].key
                             /\ r.arrData[n].val = t.arrData[at[n]].val
    BY <1>10, <1>11 DEF Bucket
<1>13. \A s : \A n \in Nat : Chain(r.arrData, LastOf(In(s, n)), In(s, n))
  <2>1. \A n \in 0 .. N - 1 : r.arrData[n].next
                                = LastOf(Chained(t, c, at, NewSlot(t, c, t.arrData[at[n]].key), n))
    BY <1>12 DEF next
  <2>2. DOMAIN at = 0 .. N - 1
    BY <1>5
  <2> QED
    BY <1>3, <2>1, <2>2, MovedChain
<1>14. \A s, n : In(s, n) \subseteq 0 .. N - 1
    BY <1>5 DEF Chained
<1> HIDE DEF In
<1>15. \A s : \A n \in Nat : LastOf(In(s, n)) \in -1 .. c - 1
  <2> SUFFICES ASSUME NEW s, NEW n \in Nat PROVE LastOf(In(s, n)) \in -1 .. c - 1
    OBVIOUS
  <2>1. LastOf(In(s, n)) = Nil \/ LastOf(In(s, n)) \in In(s, n)
    BY <1>13, ChainFacts
  <2>2. LastOf(In(s, n)) = Nil \/ LastOf(In(s, n)) \in 0 .. c - 1
    BY <1>8, <1>14, <2>1
  <2> QED
    BY <1>6, <2>2 DEF Nil
<1>16. r.arrData \in [0 .. c - 1 -> Bucket(c)]
  <2>1. ASSUME NEW n \in 0 .. N - 1 PROVE r.arrData[n] \in Bucket(c)
    <3>1. next(n) \in -1 .. c - 1
      BY <1>8, <1>15 DEF next, In
    <3> QED
      BY <1>10, <1>11, <3>1 DEF Bucket
  <2>2. Unused \in Bucket(c)
    BY <1>6 DEF Unused, Bucket
  <2>3. \A n \in 0 .. c - 1 : n \in 0 .. N - 1 \/ n \in N .. c - 1
    BY <1>3, <1>6
  <2>4. \A n \in 0 .. c - 1 : r.arrData[n] \in Bucket(c)
    BY <1>9, <2>1, <2>2, <2>3
  <2>5. r.arrData = [n \in 0 .. c - 1 |-> r.arrData[n]]
    BY <1>7
  <2> QED
    BY <2>4, <2>5
<1>17. Shape(r)
  <2>1. r.entry \in [0 .. c - 1 -> -1 .. c - 1]
    BY <1>6, <1>7, <1>15
  <2>2. Nil \in -1 .. c - 1
    BY <1>6 DEF Nil
  <2> QED
    BY <1>3, <1>6, <1>7, <1>16, <2>1, <2>2 DEF Shape
<1>18. Live(r) = 0 .. N - 1
  <2>1. \A n \in 0 .. N - 1 : r.arrData[n].key # NoKey
    BY <1>4, <1>8, <1>12, KeyAssumption
  <2> QED
    BY <1>7, <2>1 DEF Live
<1>19. \A s : InSlot(r, s) = In(s, c)
  <2>1. \A n \in 0 .. N - 1 : n < c
    BY <1>6, <1>8
  <2>2. DOMAIN at = 0 .. N - 1
    BY <1>5
  <2>3. \A n \in 0 .. N - 1 : Slot(r, r.arrData[n].key) = NewSlot(t, c, t.arrData[at[n]].key)
    BY <1>7, <1>12 DEF Slot, NewSlot
  <2> QED
    BY <1>18, <2>1, <2>2, <2>3 DEF InSlot, In, Chained
<1>20. \A s \in 0 .. r.cap - 1 : Chain(r.arrData, r.entry[s], InSlot(r, s))
    BY <1>6, <1>7, <1>13, <1>19
<1>21. \A x, y \in Live(r) : r.arrData[x].key = r.arrData[y].key => x = y
    BY <1>2, <1>5, <1>8, <1>12, <1>18
<1>22. Removed(r) = {}
    BY <1>7, <1>18 DEF Removed
<1>23. Cardinality(Live(r)) = N
  <2>1. 0 \in Int /\ N - 1 \in Int
    BY <1>3
  <2>2. Cardinality(0 .. N - 1) = IF 0 > N - 1 THEN 0 ELSE N - 1 - 0 + 1
    BY <2>1, FS_Interval
  <2> QED
    BY <1>3, <1>18, <2>2
<1>24. Whole(r)
    BY <1>7, <1>9, <1>17, <1>20, <1>21, <1>22, <1>23, ChainEmpty DEF Whole, Sound
<1>25. Entries(r) = Entries(t)
  <2>1. ASSUME NEW n \in 0 .. N - 1
        PROVE  <<r.arrData[n].key, r.arrData[n].val>> \in Entries(t)
    BY <1>8, <1>12 DEF Entries, L
  <2>2. ASSUME NEW i \in L
        PROVE  <<t.arrData[i].key, t.arrData[i].val>> \in Entries(r)
    <3>1. PICK n \in 0 .. N - 1 : at[n] = i
      BY <1>5
    <3>2. n \in Live(r) /\ <<t.arrData[i].key, t.arrData[i].val>> = <<r.arrData[n].key, r.arrData[n].val>>
      BY <1>12, <1>18, <3>1
    <3> QED
      BY <3>2 DEF Entries
  <2>3. Entries(r) = {<<r.arrData[n].key, r.arrData[n].val>> : n \in 0 .. N - 1}
    BY <1>18 DEF Entries
  <2>4. Entries(t) = {<<t.arrData[i].key, t.arrData[i].val>> : i \in L}
    BY DEF Entries, L
  <2> QED
    BY <2>1, <2>2, <2>3, <2>4
<1> QED
    BY <1>2, <1>7, <1>24, <1>25 DEF r, c

\* What Alloc hands out is a bucket taken out of the table.
LEMMA AllocSpared ==
    ASSUME Whole(ht), ht.cap \in Capacities, Full => 2 * ht.cap <= MaxCap
    PROVE  /\ Spared(Alloc.t, Alloc.i) /\ Entries(Alloc.t) = Entries(ht)
           /\ Alloc.t.cap \in Capacities
<1>1. Shape(ht) /\ ht.used = Cardinality(Live(ht))
    BY DEF Whole, Sound
<1>2. ht.cap \in Nat /\ ht.cap > 0 /\ ht.next \in Nat /\ ht.next <= ht.cap /\ ht.used \in Nat
    BY <1>1, ShapeFacts DEF Ranges
<1>3. CASE ht.next < ht.cap
  <2>1. Alloc = [i |-> ht.next, t |-> [ht EXCEPT !.next = @ + 1]]
    BY <1>3 DEF Alloc
  <2>2. Alloc.i = ht.next /\ Alloc.t = [ht EXCEPT !.next = @ + 1]
    BY <2>1
  <2> QED
    BY <1>3, <2>2, FreshSpared
<1>4. CASE ~ (ht.next < ht.cap) /\ ht.removed # Nil
  <2>1. Alloc = [i |-> ht.removed, t |-> [ht EXCEPT !.removed = ht.arrData[ht.removed].next]]
    BY <1>4 DEF Alloc
  <2>2. Alloc.i = ht.removed /\ Alloc.t = [ht EXCEPT !.removed = ht.arrData[ht.removed].next]
    BY <2>1
  <2> QED
    BY <1>4, <2>2, AgainSpared
<1>5. CASE ~ (ht.next < ht.cap) /\ ht.removed = Nil
  <2> DEFINE t == Resized(ht, 2 * ht.cap)
             c == hash_recap(2 * ht.cap)
  <2>1. Alloc = [i |-> t.next, t |-> [t EXCEPT !.next = @ + 1]]
    BY <1>5 DEF Alloc
  <2>2. 2 * ht.cap <= MaxCap /\ 2 * ht.cap \in Int
    BY <1>2, <1>5 DEF Full
  <2>3. c \in Nat \ {0} /\ 2 * ht.cap <= c /\ c \in Capacities
    BY <2>2, Capacity
  <2> HIDE DEF t, c
  <2>4. Alloc.i = t.next /\ Alloc.t = [t EXCEPT !.next = @ + 1]
    BY <2>1
  <2>5. ht.used <= ht.next
    BY <1>1, LiveFinite
  <2>6. ht.used <= c /\ ht.used < c
    BY <1>2, <2>3, <2>5
  <2>7. Whole(t) /\ Entries(t) = Entries(ht) /\ t.cap = c /\ t.next = ht.used
    BY <2>3, <2>6, ResizedWhole DEF t, c
  <2>8. t.next < t.cap
    BY <2>6, <2>7
  <2> QED
    BY <2>3, <2>4, <2>7, <2>8, FreshSpared
<1> QED
    BY <1>3, <1>4, <1>5
-----------------------------------------------------------------------------
(* The invariant *)

Values(t) == {e[2] : e \in Entries(t)}

Inv == /\ Whole(ht) /\ ht.cap \in Capacities
       /\ owned = Values(ht) /\ owned \subseteq Val
       /\ \A e, f \in Entries(ht) : e[2] = f[2] => e = f

\* Entries have different keys.
LEMMA EntryFacts ==
    ASSUME NEW t, Whole(t)
    PROVE  /\ \A e \in Entries(t) : e = <<e[1], e[2]>> /\ e[1] \in Key
           /\ \A e, f \in Entries(t) : e[1] = f[1] => e = f
           /\ \A i \in Live(t) : <<t.arrData[i].key, t.arrData[i].val>> \in Entries(t)
           /\ \A k \in Key : \A v : <<k, v>> \in Entries(t) =>
                  \E i \in Live(t) : t.arrData[i].key = k /\ t.arrData[i].val = v
           /\ Values(t) = {t.arrData[i].val : i \in Live(t)}
<1>1. Shape(t) /\ \A x, y \in Live(t) : t.arrData[x].key = t.arrData[y].key => x = y
    BY DEF Whole, Sound
<1>2. \A i \in Live(t) : t.arrData[i].key \in Key
    BY <1>1, ShapeFacts DEF Ranges
<1>3. \A e \in Entries(t) : \E i \in Live(t) : e = <<t.arrData[i].key, t.arrData[i].val>>
    BY DEF Entries
<1>4. \A i \in Live(t) : <<t.arrData[i].key, t.arrData[i].val>> \in Entries(t)
    BY DEF Entries
<1>5. \A e \in Entries(t) : e = <<e[1], e[2]>> /\ e[1] \in Key
    BY <1>2, <1>3
<1>6. ASSUME NEW e \in Entries(t), NEW f \in Entries(t), e[1] = f[1] PROVE e = f
  <2>1. PICK i \in Live(t) : e = <<t.arrData[i].key, t.arrData[i].val>>
    BY <1>3
  <2>2. PICK j \in Live(t) : f = <<t.arrData[j].key, t.arrData[j].val>>
    BY <1>3
  <2> QED
    BY <1>1, <1>6, <2>1, <2>2
<1>7. ASSUME NEW k \in Key, NEW v, <<k, v>> \in Entries(t)
      PROVE  \E i \in Live(t) : t.arrData[i].key = k /\ t.arrData[i].val = v
  <2>1. PICK i \in Live(t) : <<k, v>> = <<t.arrData[i].key, t.arrData[i].val>>
    BY <1>3, <1>7
  <2> QED
    BY <2>1
<1>8. Values(t) = {t.arrData[i].val : i \in Live(t)}
  <2>1. \A e \in Entries(t) : e[2] \in {t.arrData[i].val : i \in Live(t)}
    BY <1>3
  <2>2. \A i \in Live(t) : t.arrData[i].val \in Values(t)
    <3> SUFFICES ASSUME NEW i \in Live(t) PROVE t.arrData[i].val \in Values(t)
      OBVIOUS
    <3>1. <<t.arrData[i].key, t.arrData[i].val>>[2] = t.arrData[i].val
      OBVIOUS
    <3> QED
      BY <1>4, <3>1 DEF Values
  <2> QED
    BY <2>1, <2>2 DEF Values
<1> QED
    BY <1>4, <1>5, <1>6, <1>7, <1>8

\* Finding is looking up an entry.
LEMMA FindEntry ==
    ASSUME NEW t, Whole(t), NEW k \in Key
    PROVE  LET i == ef_hashtable_find_key(t, k)
           IN  /\ i # Nil => /\ i \in Live(t) /\ t.arrData[i].key = k
                             /\ <<k, t.arrData[i].val>> \in Entries(t)
               /\ i = Nil => \A v : <<k, v>> \notin Entries(t)
<1> DEFINE i == ef_hashtable_find_key(t, k)
<1>1. \/ i \in Live(t) /\ t.arrData[i].key = k
      \/ i = Nil /\ \A x \in Live(t) : t.arrData[x].key # k
    BY FindIs
<1>2. \A x \in Live(t) : x \in 0 .. t.next - 1
    BY DEF Live
<1>3. Nil \notin Live(t)
    BY <1>2 DEF Nil
<1> HIDE DEF i
<1>4. i # Nil => /\ i \in Live(t) /\ t.arrData[i].key = k
                 /\ <<k, t.arrData[i].val>> \in Entries(t)
    BY <1>1, EntryFacts
<1>5. i = Nil => \A v : <<k, v>> \notin Entries(t)
    BY <1>1, <1>3, EntryFacts
<1> QED
    BY <1>4, <1>5 DEF i
-----------------------------------------------------------------------------
(* The operations *)

\* A new table satisfies the invariant and is empty.
LEMMA NewInv ==
    ASSUME NEW cap \in CapArgs
    PROVE  /\ Whole(NewTable(cap)) /\ NewTable(cap).cap \in Capacities
           /\ Entries(NewTable(cap)) = {} /\ Values(NewTable(cap)) = {}
<1>1. cap \in Int /\ cap <= MaxCap
    BY CapAssumption
<1>2. hash_recap(cap) \in Nat \ {0} /\ hash_recap(cap) \in Capacities
    BY <1>1, Capacity
<1>3. /\ Whole(NewTable(cap)) /\ Entries(NewTable(cap)) = {}
      /\ NewTable(cap).cap = hash_recap(cap)
    BY <1>2, NewWhole
<1> QED
    BY <1>2, <1>3 DEF Values

\* What the calls do to the entries.
Freed == Entries(ht') = {}
Resizes == Entries(ht') = Entries(ht) /\ owned' = owned
Removes(k) == \E v : <<k, v>> \in Entries(ht) /\ Entries(ht') = Entries(ht) \ {<<k, v>>}
Replaces(k, v) ==
    \E w : <<k, w>> \in Entries(ht) /\ Entries(ht') = (Entries(ht) \ {<<k, w>>}) \cup {<<k, v>>}
Inserts(k, v) ==
    /\ \A w : <<k, w>> \notin Entries(ht)
    /\ Entries(ht') = Entries(ht) \cup {<<k, v>>} \/ Entries(ht') = Entries(ht)

\* One lemma for each call: it keeps the invariant and does that.
LEMMA FreeInv ==
    ASSUME Inv, ef_hashtable_free PROVE Inv' /\ Freed
<1>1. PICK cap \in CapArgs : ht' = NewTable(cap)
    BY DEF ef_hashtable_free
<1>2. /\ Whole(ht') /\ ht'.cap \in Capacities /\ Entries(ht') = {} /\ Values(ht') = {}
    BY <1>1, NewInv
<1>3. owned' = {}
  <2>1. Values(ht) = {ht.arrData[i].val : i \in Live(ht)}
    BY EntryFacts DEF Inv
  <2> QED
    BY <2>1 DEF Inv, ef_hashtable_free
<1> QED
    BY <1>2, <1>3 DEF Inv, Freed

\* A resize keeps the invariant and every entry.
LEMMA ResizeInv ==
    ASSUME Inv, NEW cap \in CapArgs, ef_hashtable_resize(cap) PROVE Inv' /\ Resizes
<1>1. cap \in Int /\ cap <= MaxCap
    BY CapAssumption
<1>2. hash_recap(cap) \in Nat \ {0} /\ hash_recap(cap) \in Capacities
    BY <1>1, Capacity
<1>3. ht.used \in Nat
    BY DEF Inv, Whole, Sound, Shape
<1>4. ht' = Resized(ht, cap) /\ ht.used <= hash_recap(cap) /\ owned' = owned
    BY <1>2, <1>3 DEF ef_hashtable_resize
<1>5. Whole(ht') /\ Entries(ht') = Entries(ht) /\ ht'.cap = hash_recap(cap)
    BY <1>2, <1>4, ResizedWhole DEF Inv
<1>6. Values(ht') = Values(ht)
    BY <1>5 DEF Values
<1> QED
    BY <1>2, <1>4, <1>5, <1>6 DEF Inv, Resizes

\* A removal keeps the invariant and takes one entry away.
LEMMA RemoveInv ==
    ASSUME Inv, NEW k \in Key, ef_hashtable_remove_key(k) PROVE Inv' /\ Removes(k)
<1> DEFINE i == ef_hashtable_find_key(ht, k)
           u == Unlinked(ht, k, i)
           v == ht.arrData[i].val
<1>1. i # Nil /\ ef_hashtable_free_bucket(i, u)
    BY DEF ef_hashtable_remove_key
<1>2. i \in Live(ht) /\ ht.arrData[i].key = k /\ <<k, v>> \in Entries(ht)
    BY <1>1, FindEntry DEF Inv
<1> HIDE DEF i
<1>3. /\ ht' = [u EXCEPT !.arrData[i] = [key |-> NoKey, val |-> NoKey, next |-> u.removed],
                         !.removed = i, !.used = @ - 1]
      /\ owned' = owned \ {u.arrData[i].val}
    BY <1>1 DEF ef_hashtable_free_bucket
<1>4. /\ Whole(ht') /\ ht'.cap = ht.cap /\ u.arrData[i].val = v
      /\ Entries(ht') = Entries(ht) \ {<<k, v>>}
  <2>1. Whole(ht) /\ k = ht.arrData[i].key
    BY <1>2 DEF Inv
  <2> DEFINE r == [u EXCEPT !.arrData[i] = [key |-> NoKey, val |-> NoKey, next |-> u.removed],
                            !.removed = i, !.used = @ - 1]
  <2>2. /\ Whole(r) /\ r.cap = ht.cap /\ u.arrData[i].val = ht.arrData[i].val
        /\ Entries(r) = Entries(ht) \ {<<k, ht.arrData[i].val>>}
    BY <1>2, <2>1, RemoveWhole
  <2>3. ht' = r
    BY <1>3
  <2> HIDE DEF r
  <2> QED
    BY <2>2, <2>3
<1> HIDE DEF u, v
<1>5. Values(ht') = owned'
  <2>1. \A e \in Entries(ht) : e[2] = v => e = <<k, v>>
    BY <1>2 DEF Inv
  <2>2. <<k, v>>[2] = v
    OBVIOUS
  <2> QED
    BY <1>3, <1>4, <2>1, <2>2 DEF Values, Inv
<1>6. Inv'
    BY <1>3, <1>4, <1>5 DEF Inv
<1> QED
    BY <1>2, <1>4, <1>6 DEF Removes

\* A replacement keeps the invariant and changes one entry.
LEMMA ReplaceInv ==
    ASSUME Inv, NEW k \in Key, NEW v \in Val, v \notin owned, Replace(k, v)
    PROVE  Inv' /\ Replaces(k, v)
<1> DEFINE i == ef_hashtable_find_key(ht, k)
           w == ht.arrData[i].val
<1>1. /\ i # Nil /\ ht' = [ht EXCEPT !.arrData[i].val = v]
      /\ owned' = (owned \ {w}) \cup {v}
    BY DEF Replace
<1>2. i \in Live(ht) /\ ht.arrData[i].key = k /\ <<k, w>> \in Entries(ht)
    BY <1>1, FindEntry DEF Inv
<1> HIDE DEF i
<1>3. /\ Whole(ht') /\ ht'.cap = ht.cap
      /\ Entries(ht') = (Entries(ht) \ {<<k, w>>}) \cup {<<k, v>>}
    BY <1>1, <1>2, ReplaceWhole DEF Inv
<1> HIDE DEF w
<1>4. /\ \A e \in Entries(ht) : e[2] = w => e = <<k, w>>
      /\ \A e \in Entries(ht) : e[2] # v
    BY <1>2 DEF Inv, Values
<1>5. <<k, v>>[2] = v /\ <<k, w>>[2] = w
    OBVIOUS
<1>6. Values(ht') = owned'
  <2>1. ASSUME NEW e \in Entries(ht') PROVE e[2] \in owned'
    <3>1. CASE e = <<k, v>>
      BY <1>1, <1>5, <3>1
    <3>2. CASE e \in Entries(ht) /\ e # <<k, w>>
      <4>1. e[2] # w
        BY <1>4, <3>2
      <4>2. e[2] \in owned
        BY <3>2 DEF Inv, Values
      <4> QED
        BY <1>1, <4>1, <4>2
    <3> QED
      BY <1>3, <3>1, <3>2
  <2>2. ASSUME NEW x \in owned' PROVE x \in Values(ht')
    <3>1. CASE x = v
      <4>1. <<k, v>> \in Entries(ht')
        BY <1>3
      <4> QED
        BY <1>5, <3>1, <4>1 DEF Values
    <3>2. CASE x \in owned /\ x # w
      <4>1. PICK e \in Entries(ht) : x = e[2]
        BY <3>2 DEF Inv, Values
      <4>2. e # <<k, w>>
        BY <1>5, <3>2, <4>1
      <4>3. e \in Entries(ht')
        BY <1>3, <4>2
      <4> QED
        BY <4>1, <4>3 DEF Values
    <3> QED
      BY <1>1, <3>1, <3>2
  <2> QED
    BY <2>1, <2>2 DEF Values
<1>7. \A e, f \in Entries(ht') : e[2] = f[2] => e = f
    BY <1>3, <1>4, <1>5 DEF Inv
<1>8. Inv'
    BY <1>1, <1>3, <1>6, <1>7 DEF Inv
<1> QED
    BY <1>2, <1>3, <1>8 DEF Replaces

\* An insertion keeps the invariant and adds one entry.
LEMMA InsertInv ==
    ASSUME Inv, NEW k \in Key, NEW v \in Val, v \notin owned, Insert(k, v)
    PROVE  Inv' /\ Inserts(k, v)
<1> DEFINE t == Alloc.t
           i == Alloc.i
<1>1. \A w : <<k, w>> \notin Entries(ht)
    BY FindEntry DEF Inv, Insert
<1>2. Spared(t, i) /\ Entries(t) = Entries(ht) /\ t.cap \in Capacities
    BY AllocSpared DEF Inv, Insert
<1>3. \/ ht' = Link(t, i, k, v) /\ owned' = owned \cup {v}
      \/ ht' = [t EXCEPT !.arrData[i].next = t.removed, !.removed = i] /\ owned' = owned
    BY DEF Insert
<1> HIDE DEF t, i
<1>4. CASE ht' = Link(t, i, k, v) /\ owned' = owned \cup {v}
  <2>1. \A x \in Live(t) : t.arrData[x].key # k
    <3>1. \A x \in Live(t) : <<t.arrData[x].key, t.arrData[x].val>> \in Entries(t)
      BY DEF Entries
    <3> QED
      BY <1>1, <1>2, <3>1
  <2>2. /\ Whole(ht') /\ Entries(ht') = Entries(ht) \cup {<<k, v>>} /\ ht'.cap = t.cap
    BY <1>2, <1>4, <2>1, LinkWhole
  <2>3. /\ <<k, v>>[2] = v /\ \A e \in Entries(ht) : e[2] # v
    BY DEF Inv, Values
  <2>4. Values(ht') = owned'
    BY <1>4, <2>2, <2>3 DEF Values, Inv
  <2>5. \A e, f \in Entries(ht') : e[2] = f[2] => e = f
    BY <2>2, <2>3 DEF Inv
  <2>6. Inv'
    BY <1>2, <1>4, <2>2, <2>4, <2>5 DEF Inv
  <2> QED
    BY <1>1, <2>2, <2>6 DEF Inserts
<1>5. CASE /\ ht' = [t EXCEPT !.arrData[i].next = t.removed, !.removed = i]
           /\ owned' = owned
  <2>1. Whole(ht') /\ Entries(ht') = Entries(ht) /\ ht'.cap = t.cap
    BY <1>2, <1>5, PutBackWhole
  <2>2. Values(ht') = Values(ht)
    BY <2>1 DEF Values
  <2>3. Inv'
    BY <1>2, <1>5, <2>1, <2>2 DEF Inv
  <2> QED
    BY <1>1, <2>1, <2>3 DEF Inserts
<1> QED
    BY <1>3, <1>4, <1>5

\* Inv holds of every table that was ever made.
LEMMA InvInductive == Spec => []Inv
<1>1. ASSUME Init PROVE Inv
  <2>1. PICK cap \in CapArgs : ht = NewTable(cap) /\ owned = {}
    BY <1>1 DEF Init
  <2> QED
    BY <2>1, NewInv DEF Inv
<1>2. ASSUME Inv, [Next]_vars PROVE Inv'
  <2>1. CASE ef_hashtable_free
    BY <1>2, <2>1, FreeInv
  <2>2. ASSUME NEW cap \in CapArgs, ef_hashtable_resize(cap) PROVE Inv'
    BY <1>2, <2>2, ResizeInv
  <2>3. ASSUME NEW k \in Key, ef_hashtable_remove_key(k) PROVE Inv'
    BY <1>2, <2>3, RemoveInv
  <2>4. ASSUME NEW k \in Key, NEW v \in Val, ef_hashtable_set_key_value(k, v) PROVE Inv'
    BY <1>2, <2>4, ReplaceInv, InsertInv DEF ef_hashtable_set_key_value
  <2>5. CASE UNCHANGED vars
    BY <1>2, <2>5 DEF vars, Inv
  <2> QED
    BY <1>2, <2>1, <2>2, <2>3, <2>4, <2>5 DEF Next
<1> QED
    BY <1>1, <1>2, PTL DEF Spec
-----------------------------------------------------------------------------
(* What follows from the invariant *)

\* A table between two calls has all that TableInv says of it.
LEMMA WholeTable ==
    ASSUME Inv
    PROVE  /\ ht.used \in 0 .. ht.next /\ ht.next \in 0 .. ht.cap
           /\ ht.removed \in -1 .. ht.next - 1
           /\ ht.entry \in [0 .. ht.cap - 1 -> -1 .. ht.next - 1]
           /\ ChainsComplete /\ RemovedComplete
<1>1. /\ Shape(ht) /\ ht.used = Cardinality(Live(ht))
      /\ \A s \in 0 .. ht.cap - 1 : Chain(ht.arrData, ht.entry[s], InSlot(ht, s))
      /\ Chain(ht.arrData, ht.removed, Removed(ht))
    BY DEF Inv, Whole, Sound
<1>2. /\ ht.cap \in Nat /\ ht.next \in Nat /\ ht.next <= ht.cap /\ ht.used \in Nat
      /\ \A i \in 0 .. ht.next - 1 : i \in 0 .. ht.cap - 1
      /\ \A i \in Live(ht) : i \in 0 .. ht.next - 1
      /\ \A s : InSlot(ht, s) \subseteq Live(ht)
    BY <1>1, ShapeFacts DEF Ranges
<1>3. ht.used <= ht.next
    BY <1>1, LiveFinite
<1>4. Removed(ht) \subseteq 0 .. ht.next - 1
    BY DEF Removed
<1>5. ht.removed \in -1 .. ht.next - 1
  <2>1. ht.removed = Nil \/ ht.removed \in Removed(ht)
    BY <1>1, ChainFacts
  <2> QED
    BY <1>2, <1>4, <2>1 DEF Nil
<1>6. ASSUME NEW s \in 0 .. ht.cap - 1 PROVE ht.entry[s] \in -1 .. ht.next - 1
  <2>1. ht.entry[s] = Nil \/ ht.entry[s] \in InSlot(ht, s)
    BY <1>1, ChainFacts
  <2>2. ht.entry[s] = Nil \/ ht.entry[s] \in 0 .. ht.next - 1
    BY <1>2, <2>1
  <2> QED
    BY <1>2, <2>2 DEF Nil
<1>7. ht.entry \in [0 .. ht.cap - 1 -> -1 .. ht.next - 1]
    BY <1>1, <1>6 DEF Shape
<1>8. ChainsComplete
  <2> SUFFICES ASSUME NEW s \in 0 .. ht.cap - 1
               PROVE  Ends(ht, ht.entry[s]) /\ Reached(ht, ht.entry[s]) = InSlot(ht, s)
    BY DEF ChainsComplete
  <2>1. InSlot(ht, s) \subseteq 0 .. ht.cap - 1
    BY <1>2
  <2> QED
    BY <1>1, <1>2, <2>1, ChainWalk
<1>9. RemovedComplete
  <2>1. Removed(ht) \subseteq 0 .. ht.cap - 1
    BY <1>2, <1>4
  <2>2. Ends(ht, ht.removed) /\ Reached(ht, ht.removed) = Removed(ht)
    BY <1>1, <1>2, <2>1, ChainWalk
  <2> QED
    BY <1>1, <2>2 DEF RemovedComplete, Removed
<1> QED
    BY <1>2, <1>3, <1>5, <1>7, <1>8, <1>9

\* Counters, chains and removed list agree through every order of setting,
\* removing, reusing and resizing, for any keys and any hash.
THEOREM TableSafe == Spec => []TableInv
<1>1. ASSUME Inv PROVE TableInv
  <2>1. ht.cap \in {HASH_TABLE_INIT_CAP * p : p \in {1} \cup PowersOfTwo(2 * MaxCap)}
    BY <1>1 DEF Inv, Capacities
  <2>2. ht.arrData \in [0 .. ht.cap - 1 -> [key : Key \cup {NoKey}, val : Val \cup {NoKey},
                                            next : -1 .. ht.cap - 1]]
    BY <1>1 DEF Inv, Whole, Sound, Shape, Bucket
  <2>3. owned \subseteq Val
    BY <1>1 DEF Inv
  <2>4. TypeOK
    BY <1>1, <2>1, <2>2, <2>3, WholeTable, Zenon DEF TypeOK
  <2> QED
    BY <1>1, <2>4, WholeTable DEF TableInv
<1> QED
    BY <1>1, InvInductive, PTL

\* The values handed over and not destroyed are those of the live buckets,
\* each in one bucket: none is leaked, none destroyed twice.
THEOREM OwnedKept == Spec => []OwnedStored
<1>1. ASSUME Inv PROVE OwnedStored
  <2>1. /\ owned = {ht.arrData[i].val : i \in Live(ht)}
        /\ \A i \in Live(ht) : <<ht.arrData[i].key, ht.arrData[i].val>> \in Entries(ht)
    BY <1>1, EntryFacts DEF Inv
  <2>2. /\ Shape(ht) /\ ht.used = Cardinality(Live(ht))
        /\ \A i, j \in Live(ht) : ht.arrData[i].key = ht.arrData[j].key => i = j
    BY <1>1 DEF Inv, Whole, Sound
  <2>3. ASSUME NEW i \in Live(ht), NEW j \in Live(ht), ht.arrData[i].val = ht.arrData[j].val
        PROVE  i = j
    <3>1. <<ht.arrData[i].key, ht.arrData[i].val>>[2] = <<ht.arrData[j].key, ht.arrData[j].val>>[2]
      BY <2>3
    <3>2. <<ht.arrData[i].key, ht.arrData[i].val>> = <<ht.arrData[j].key, ht.arrData[j].val>>
      BY <1>1, <2>1, <3>1 DEF Inv
    <3> QED
      BY <2>2, <3>2
  <2> DEFINE f == [i \in Live(ht) |-> ht.arrData[i].val]
  <2>4. f \in Bijection(Live(ht), owned)
    <3>1. f \in [Live(ht) -> owned] /\ \A i \in Live(ht) : f[i] = ht.arrData[i].val
      BY <2>1
    <3> HIDE DEF f
    <3>2. f \in Injection(Live(ht), owned)
      BY <2>3, <3>1 DEF Injection, IsInjective
    <3>3. f \in Surjection(Live(ht), owned)
      BY <2>1, <3>1 DEF Surjection
    <3> QED
      BY <3>2, <3>3 DEF Bijection
  <2>5. IsFiniteSet(Live(ht))
    BY <2>2, LiveFinite
  <2>6. ExistsBijection(Live(ht), owned)
    BY <2>4 DEF ExistsBijection
  <2>7. Cardinality(owned) = Cardinality(Live(ht))
    BY <2>5, <2>6, FS_Bijection
  <2> QED
    BY <2>1, <2>2, <2>7 DEF OwnedStored
<1> QED
    BY <1>1, InvInductive, PTL

\* What a search finds are the entries.
MapOf(t) == [k \in {j \in Key : ef_hashtable_find_key(t, j) # Nil} |->
               t.arrData[ef_hashtable_find_key(t, k)].val]

\* The map of a table is its entries.
LEMMA MapFacts ==
    ASSUME NEW t, Whole(t)
    PROVE  /\ MapOf(t) = [k \in DOMAIN MapOf(t) |-> MapOf(t)[k]]
           /\ DOMAIN MapOf(t) \subseteq Key
           /\ \A k \in Key : \A v : <<k, v>> \in Entries(t) <=> k \in DOMAIN MapOf(t) /\ MapOf(t)[k] = v
<1> DEFINE m == MapOf(t)
<1>1. /\ m = [k \in DOMAIN m |-> m[k]]
      /\ DOMAIN m = {j \in Key : ef_hashtable_find_key(t, j) # Nil}
      /\ \A k \in DOMAIN m : m[k] = t.arrData[ef_hashtable_find_key(t, k)].val
    BY DEF MapOf
<1> HIDE DEF m
<1>2. ASSUME NEW k \in Key, NEW v
      PROVE  <<k, v>> \in Entries(t) <=> k \in DOMAIN m /\ m[k] = v
  <2>1. CASE k \notin DOMAIN m
    <3>1. ef_hashtable_find_key(t, k) = Nil
      BY <1>1, <2>1
    <3> QED
      BY <2>1, <3>1, FindEntry
  <2>2. CASE k \in DOMAIN m
    <3>1. ef_hashtable_find_key(t, k) # Nil /\ m[k] = t.arrData[ef_hashtable_find_key(t, k)].val
      BY <1>1, <2>2
    <3>2. <<k, m[k]>> \in Entries(t)
      BY <3>1, FindEntry
    <3>3. <<k, v>> \in Entries(t) => <<k, v>> = <<k, m[k]>>
      <4>1. <<k, v>>[1] = <<k, m[k]>>[1]
        OBVIOUS
      <4> QED
        BY <3>2, <4>1, EntryFacts
    <3> QED
      BY <2>2, <3>2, <3>3
  <2> QED
    BY <2>1, <2>2
<1> QED
    BY <1>1, <1>2 DEF m

\* Two functions on keys are equal when they hold the same entries.
LEMMA MapUnique ==
    ASSUME NEW t, Whole(t), NEW f, f = [k \in DOMAIN f |-> f[k]], DOMAIN f \subseteq Key,
           \A k \in Key : \A v : <<k, v>> \in Entries(t) <=> k \in DOMAIN f /\ f[k] = v
    PROVE  MapOf(t) = f
<1> DEFINE m == MapOf(t)
<1>1. /\ m = [k \in DOMAIN m |-> m[k]] /\ DOMAIN m \subseteq Key
      /\ \A k \in Key : \A v : <<k, v>> \in Entries(t) <=> k \in DOMAIN m /\ m[k] = v
    BY MapFacts
<1> HIDE DEF m
<1>2. ASSUME NEW k \in Key PROVE k \in DOMAIN m <=> k \in DOMAIN f
  <2>1. k \in DOMAIN m => k \in DOMAIN f
    BY <1>1
  <2>2. k \in DOMAIN f => k \in DOMAIN m
    BY <1>1
  <2> QED
    BY <2>1, <2>2
<1>3. DOMAIN m = DOMAIN f
    BY <1>1, <1>2
<1>4. \A k \in DOMAIN f : m[k] = f[k]
    BY <1>1, <1>3
<1> QED
    BY <1>1, <1>3, <1>4 DEF m

\* Function m with k set to v.
With(m, k, v) == [j \in DOMAIN m \cup {k} |-> IF j = k THEN v ELSE m[j]]

\* Setting, deleting, and a table without entries, as functions.
LEMMA MapPut ==
    ASSUME NEW t, Whole(t), NEW u, Whole(u), NEW k \in Key, NEW v,
           \A j \in Key : \A w : <<j, w>> \in Entries(u) <=>
                                 IF j = k THEN w = v ELSE <<j, w>> \in Entries(t)
    PROVE  MapOf(u) = With(MapOf(t), k, v)
<1> DEFINE m == MapOf(t)
           f == With(m, k, v)
<1>1. /\ DOMAIN m \subseteq Key
      /\ \A j \in Key : \A w : <<j, w>> \in Entries(t) <=> j \in DOMAIN m /\ m[j] = w
    BY MapFacts
<1> HIDE DEF m
<1>2. /\ DOMAIN f = DOMAIN m \cup {k} /\ f = [j \in DOMAIN f |-> f[j]]
      /\ \A j \in DOMAIN f : f[j] = IF j = k THEN v ELSE m[j]
    BY DEF With
<1> HIDE DEF f
<1>3. \A j \in Key : \A w : <<j, w>> \in Entries(u) <=> j \in DOMAIN f /\ f[j] = w
    BY <1>1, <1>2
<1>4. DOMAIN f \subseteq Key
    BY <1>1, <1>2
<1> QED
    BY <1>2, <1>3, <1>4, MapUnique DEF m, f

\* A table with one key less has the map without that key.
LEMMA MapDelete ==
    ASSUME NEW t, Whole(t), NEW u, Whole(u), NEW k \in Key,
           \A j \in Key : \A w : <<j, w>> \in Entries(u) <=> j # k /\ <<j, w>> \in Entries(t)
    PROVE  MapOf(u) = [j \in DOMAIN MapOf(t) \ {k} |-> MapOf(t)[j]]
<1> DEFINE m == MapOf(t)
           f == [j \in DOMAIN m \ {k} |-> m[j]]
<1>1. /\ DOMAIN m \subseteq Key
      /\ \A j \in Key : \A w : <<j, w>> \in Entries(t) <=> j \in DOMAIN m /\ m[j] = w
    BY MapFacts
<1> HIDE DEF m
<1>2. /\ DOMAIN f = DOMAIN m \ {k} /\ f = [j \in DOMAIN f |-> f[j]]
      /\ \A j \in DOMAIN f : f[j] = m[j]
    OBVIOUS
<1> HIDE DEF f
<1>3. \A j \in Key : \A w : <<j, w>> \in Entries(u) <=> j \in DOMAIN f /\ f[j] = w
    BY <1>1, <1>2
<1>4. DOMAIN f \subseteq Key
    BY <1>1, <1>2
<1> QED
    BY <1>2, <1>3, <1>4, MapUnique DEF m, f

\* A table without entries has the empty map.
LEMMA MapEmpty ==
    ASSUME NEW t, Whole(t), Entries(t) = {} PROVE MapOf(t) = [j \in {} |-> j]
<1> DEFINE f == [j \in {} |-> j]
<1>1. DOMAIN f = {} /\ f = [j \in DOMAIN f |-> f[j]]
    OBVIOUS
<1> HIDE DEF f
<1>2. \A k \in Key : \A v : <<k, v>> \in Entries(t) <=> k \in DOMAIN f /\ f[k] = v
    BY <1>1
<1>3. DOMAIN f \subseteq Key
    BY <1>1
<1> QED
    BY <1>1, <1>2, <1>3, MapUnique DEF f

\* Tables with the same entries have the same map.
LEMMA MapSame ==
    ASSUME NEW t, Whole(t), NEW u, Whole(u), Entries(u) = Entries(t) PROVE MapOf(u) = MapOf(t)
BY MapFacts, MapUnique

\* Every call acts on the map as its name says: what a search finds is what
\* was set last.
THEOREM TableRefines == Spec => ImplementsMap
<1> DEFINE m == MapOf(ht)
<1>1. ASSUME Init PROVE MapOf(ht) = [j \in {} |-> j]
  <2>1. PICK cap \in CapArgs : ht = NewTable(cap)
    BY <1>1 DEF Init
  <2>2. Whole(ht) /\ Entries(ht) = {}
    BY <2>1, NewInv
  <2> QED
    BY <2>2, MapEmpty
<1> DEFINE Step == \/ MapOf(ht') = [j \in {} |-> j]
                   \/ MapOf(ht') = MapOf(ht)
                   \/ \E k \in Key :
                        \/ MapOf(ht') = [j \in DOMAIN m \ {k} |-> m[j]]
                        \/ \E v \in Val : MapOf(ht') = With(MapOf(ht), k, v)
<1>2. ASSUME Inv, Inv', [Next]_vars PROVE Step
  <2>1. Whole(ht) /\ Whole(ht')
    BY <1>2 DEF Inv
  <2>e. \A j, w, k, v : <<j, w>> = <<k, v>> <=> j = k /\ w = v
    OBVIOUS
  <2>k. \A k \in Key : \A v, w : <<k, v>> \in Entries(ht) /\ <<k, w>> \in Entries(ht) => v = w
    <3> SUFFICES ASSUME NEW k \in Key, NEW v, NEW w,
                        <<k, v>> \in Entries(ht), <<k, w>> \in Entries(ht)
                 PROVE  v = w
      OBVIOUS
    <3>1. <<k, v>>[1] = <<k, w>>[1]
      OBVIOUS
    <3>2. <<k, v>> = <<k, w>>
      BY <2>1, <3>1, EntryFacts
    <3> QED
      BY <2>e, <3>2
  <2>2. CASE ef_hashtable_free
    <3>1. Entries(ht') = {}
      BY <1>2, <2>2, FreeInv DEF Freed
    <3> QED
      BY <2>1, <3>1, MapEmpty
  <2>3. ASSUME NEW cap \in CapArgs, ef_hashtable_resize(cap) PROVE Step
    <3>1. Entries(ht') = Entries(ht)
      BY <1>2, <2>3, ResizeInv DEF Resizes
    <3> QED
      BY <2>1, <3>1, MapSame
  <2>4. ASSUME NEW k \in Key, ef_hashtable_remove_key(k) PROVE Step
    <3>1. PICK v : <<k, v>> \in Entries(ht) /\ Entries(ht') = Entries(ht) \ {<<k, v>>}
      BY <1>2, <2>4, RemoveInv DEF Removes
    <3>2. \A j \in Key : \A w : <<j, w>> \in Entries(ht') <=> j # k /\ <<j, w>> \in Entries(ht)
      BY <2>e, <2>k, <3>1
    <3>3. MapOf(ht') = [j \in DOMAIN m \ {k} |-> m[j]]
      BY <2>1, <3>2, MapDelete
    <3> QED
      BY <3>3
  <2>5. ASSUME NEW k \in Key, NEW v \in Val, ef_hashtable_set_key_value(k, v) PROVE Step
    <3>1. v \notin owned /\ (Replace(k, v) \/ Insert(k, v))
      BY <2>5 DEF ef_hashtable_set_key_value
    <3>2. Replaces(k, v) \/ Inserts(k, v)
      BY <1>2, <3>1, ReplaceInv, InsertInv
    <3>3. CASE Entries(ht') = Entries(ht)
      BY <2>1, <3>3, MapSame
    <3>4. CASE \A j \in Key : \A w : <<j, w>> \in Entries(ht') <=>
                                     IF j = k THEN w = v ELSE <<j, w>> \in Entries(ht)
      <4>1. MapOf(ht') = With(MapOf(ht), k, v)
        BY <2>1, <3>4, MapPut
      <4> QED
        BY <4>1
    <3>5. CASE Replaces(k, v)
      <4>1. PICK w : /\ <<k, w>> \in Entries(ht)
                     /\ Entries(ht') = (Entries(ht) \ {<<k, w>>}) \cup {<<k, v>>}
        BY <3>5 DEF Replaces
      <4> QED
        BY <2>e, <2>k, <3>4, <4>1
    <3>6. CASE /\ \A w : <<k, w>> \notin Entries(ht)
               /\ Entries(ht') = Entries(ht) \cup {<<k, v>>}
      BY <2>e, <3>4, <3>6
    <3> QED
      BY <3>2, <3>3, <3>5, <3>6 DEF Inserts
  <2>6. CASE UNCHANGED vars
    BY <2>6 DEF vars
  <2> QED
    BY <1>2, <2>2, <2>3, <2>4, <2>5, <2>6 DEF Next
<1>3. ASSUME Init PROVE M!Init
    BY <1>1, <1>3 DEF M!Init, M!Empty, MapOf, Found
<1>4. ASSUME Inv, Inv', [Next]_vars
      PROVE  [M!Next]_([k \in Found |-> ht.arrData[ef_hashtable_find_key(ht, k)].val])
    BY <1>2, <1>4 DEF MapOf, With, Found, M!Next, M!Put, M!Delete, M!Clear, M!Empty
<1> QED
    BY <1>3, <1>4, InvInductive, PTL DEF Spec, ImplementsMap, M!Spec
=============================================================================
