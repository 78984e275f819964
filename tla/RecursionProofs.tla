-------------------------- MODULE RecursionProofs ---------------------------
(***************************************************************************)
(* Facts about what is defined by recursion: induction over the naturals   *)
(* as a property of sets, functions that are defined step by step, the     *)
(* pieces of a sequence put together, and capacities that double.          *)
(***************************************************************************)
EXTENDS Doubling, SequencesExt, SequenceTheorems, WellFoundedInduction, TLAPS

\* A set of numbers that begins with zero and has no last one has them all.
LEMMA Induct ==
    ASSUME NEW S, 0 \in S, \A n \in Nat : n \in S => n + 1 \in S
    PROVE  Nat \subseteq S
<1> SUFFICES ASSUME NEW bad \in Nat, bad \notin S PROVE FALSE
    OBVIOUS
<1> DEFINE Bad == Nat \ S
<1>1. Bad # {} /\ Bad \subseteq Nat
    OBVIOUS
<1>2. PICK k \in Bad : \A l \in Bad : ~ (<<l, k>> \in OpToRel(<, Nat))
    BY <1>1, WFMin, NatLessThanWellFounded
<1>3. k \in Nat /\ k \notin S /\ k # 0
    OBVIOUS
<1>4. k - 1 \in Nat /\ k - 1 < k /\ (k - 1) + 1 = k
    BY <1>3
<1>5. k - 1 \in S
    BY <1>2, <1>3, <1>4 DEF OpToRel
<1> QED
    BY <1>3, <1>4, <1>5

\* The same up to a bound ...
LEMMA InductUpTo ==
    ASSUME NEW m \in Nat, NEW S, 0 \in S, \A n \in 0 .. m - 1 : n \in S => n + 1 \in S
    PROVE  0 .. m \subseteq S
<1> DEFINE T == S \cup {n \in Nat : n > m}
<1>1. 0 \in T
    OBVIOUS
<1>2. ASSUME NEW n \in Nat, n \in T PROVE n + 1 \in T
    BY <1>2
<1> HIDE DEF T
<1>3. Nat \subseteq T
    BY <1>1, <1>2, Induct
<1> QED
    BY <1>3 DEF T

\* ... and downwards from one.
LEMMA InductDown ==
    ASSUME NEW m \in Nat, NEW S, m \in S, \A n \in 1 .. m : n \in S => n - 1 \in S
    PROVE  0 .. m \subseteq S
<1> DEFINE T == {n \in 0 .. m : m - n \in S}
<1>1. 0 \in T
    OBVIOUS
<1>2. ASSUME NEW n \in 0 .. m - 1, n \in T PROVE n + 1 \in T
  <2>1. m - n \in 1 .. m /\ m - n \in S
    BY <1>2
  <2>2. (m - n) - 1 \in S /\ (m - n) - 1 = m - (n + 1)
    BY <2>1
  <2> QED
    BY <2>2
<1> HIDE DEF T
<1>3. 0 .. m \subseteq T
    BY <1>1, <1>2, InductUpTo
<1>4. ASSUME NEW n \in 0 .. m PROVE n \in S
  <2>1. m - n \in T
    BY <1>3
  <2>2. m - (m - n) \in S
    BY <2>1 DEF T
  <2> QED
    BY <2>2
<1> QED
    BY <1>4

\* The first value of f is given, and what follows a value.
Stepwise(m, first, step, f) == f[0] = first /\ \A i \in 1 .. m : f[i] = step[i][f[i - 1]]

\* There is such a function.
LEMMA DefinedUp ==
    ASSUME NEW m \in Nat, NEW S, NEW first \in S, NEW step \in [1 .. m -> [S -> S]]
    PROVE  \E f \in [0 .. m -> S] : Stepwise(m, first, step, f)
<1> DEFINE Upto(k) == \E f \in [0 .. m -> S] : Stepwise(k, first, step, f)
           T == {k \in 0 .. m : Upto(k)}
<1>1. 0 \in T
  <2> DEFINE f == [i \in 0 .. m |-> first]
  <2>1. f \in [0 .. m -> S] /\ f[0] = first
    OBVIOUS
  <2> HIDE DEF f
  <2>2. \A i \in 1 .. 0 : f[i] = step[i][f[i - 1]]
    OBVIOUS
  <2> QED
    BY <2>1, <2>2 DEF Stepwise
<1>2. ASSUME NEW k \in 0 .. m - 1, k \in T PROVE k + 1 \in T
  <2>1. PICK f \in [0 .. m -> S] : f[0] = first /\ \A i \in 1 .. k : f[i] = step[i][f[i - 1]]
    BY <1>2 DEF Stepwise
  <2> DEFINE next == step[k + 1][f[k]]
             g    == [f EXCEPT ![k + 1] = next]
  <2>2. next \in S
    BY <2>1
  <2>3. g \in [0 .. m -> S] /\ g[k + 1] = next /\ \A i \in 0 .. m : i # k + 1 => g[i] = f[i]
    BY <2>2
  <2> HIDE DEF g
  <2>4. \A i \in 1 .. k + 1 : g[i] = step[i][g[i - 1]]
    <3> SUFFICES ASSUME NEW i \in 1 .. k + 1 PROVE g[i] = step[i][g[i - 1]]
      OBVIOUS
    <3>1. i - 1 \in 0 .. m /\ i \in 0 .. m /\ g[i - 1] = f[i - 1]
      BY <2>3
    <3>2. CASE i = k + 1
      BY <2>3, <3>1, <3>2
    <3>3. CASE i # k + 1
      BY <2>1, <2>3, <3>1, <3>3
    <3> QED
      BY <3>2, <3>3
  <2>5. g[0] = first
    BY <2>1, <2>3
  <2> QED
    BY <2>3, <2>4, <2>5 DEF Stepwise
<1> HIDE DEF T
<1>3. m \in T
  <2>1. 0 .. m \subseteq T
    BY <1>1, <1>2, InductUpTo
  <2> QED
    BY <2>1
<1> QED
    BY <1>3 DEF T

\* Every value of f is made of those after it.
Backwards(m, step, f) == \A i \in 1 .. m : f[i] = step[i][f]

\* There is such a function, if no value depends on others.
LEMMA DefinedDown ==
    ASSUME NEW m \in Nat, NEW S, S # {}, NEW step \in [1 .. m -> [[1 .. m -> S] -> S]],
           \A i \in 1 .. m : \A f, g \in [1 .. m -> S] :
              (\A j \in i + 1 .. m : f[j] = g[j]) => step[i][f] = step[i][g]
    PROVE  \E f \in [1 .. m -> S] : Backwards(m, step, f)
<1> DEFINE From(k) == \E f \in [1 .. m -> S] : \A i \in 1 .. m : i > k => f[i] = step[i][f]
           T == {k \in 0 .. m : From(k)}
<1>1. m \in T
  <2>1. PICK s \in S : TRUE
    OBVIOUS
  <2> DEFINE f == [i \in 1 .. m |-> s]
  <2>2. f \in [1 .. m -> S]
    OBVIOUS
  <2> HIDE DEF f
  <2>3. \A i \in 1 .. m : ~ (i > m)
    OBVIOUS
  <2> QED
    BY <2>2, <2>3
<1>2. ASSUME NEW k \in 1 .. m, k \in T PROVE k - 1 \in T
  <2>1. PICK f \in [1 .. m -> S] : \A i \in 1 .. m : i > k => f[i] = step[i][f]
    BY <1>2
  <2> DEFINE this == step[k][f]
             g    == [f EXCEPT ![k] = this]
  <2>2. this \in S
    OBVIOUS
  <2>3. g \in [1 .. m -> S] /\ g[k] = this /\ \A i \in 1 .. m : i # k => g[i] = f[i]
    BY <2>2
  <2> HIDE DEF g
  <2>4. ASSUME NEW i \in 1 .. m, i > k - 1 PROVE g[i] = step[i][g]
    <3>1. (i = k \/ i > k) /\ \A j \in i + 1 .. m : f[j] = g[j]
        BY <2>3, <2>4
    <3>2. step[i][f] = step[i][g]
        BY <2>1, <2>3, <3>1
    <3>3. g[i] = step[i][f]
      <4>1. CASE i = k
        BY <2>3, <4>1
      <4>2. CASE i > k
        BY <2>1, <2>3, <4>2
      <4> QED
        BY <3>1, <4>1, <4>2
    <3> QED
        BY <3>2, <3>3
  <2>5. k - 1 \in 0 .. m
    OBVIOUS
  <2> QED
    BY <2>3, <2>4, <2>5
<1> HIDE DEF T
<1>3. 0 \in T
  <2>1. 0 .. m \subseteq T
    BY <1>1, <1>2, InductDown
  <2> QED
    BY <2>1
<1>4. PICK f \in [1 .. m -> S] : \A i \in 1 .. m : i > 0 => f[i] = step[i][f]
    BY <1>3 DEF T
<1>5. \A i \in 1 .. m : i > 0
    OBVIOUS
<1> QED
    BY <1>4, <1>5 DEF Backwards
-----------------------------------------------------------------------------
(* Sequences put together *)

\* Where each of the parts lies: off[k] elements are in the first k of them.
Offsets(parts, off) ==
    /\ off \in [0 .. Len(parts) -> Nat]
    /\ off[0] = 0
    /\ \A k \in 1 .. Len(parts) : off[k] = off[k - 1] + Len(parts[k])

\* `all` holds the parts one after the other.
Holds(all, parts, off) ==
    \A k \in 1 .. Len(parts) : \A j \in 1 .. Len(parts[k]) : all[off[k - 1] + j] = parts[k][j]

\* FlattenSeq puts one part after the other.
LEMMA FlattenIs ==
    ASSUME NEW T, NEW parts \in Seq(Seq(T)), NEW n, n = Len(parts),
           NEW f \in [0 .. n -> Seq(T)], f[0] = <<>>,
           \A i \in 1 .. n : f[i] = f[i - 1] \o parts[i]
    PROVE  FlattenSeq(parts) = f[n]
<1>1. n \in Nat /\ \A i \in 1 .. n : parts[i] \in Seq(T)
    BY LenProperties
<1>2. CASE n = 0
  <2>1. parts = <<>>
    BY <1>2, EmptySeq
  <2> QED
    BY <1>2, <2>1 DEF FlattenSeq
<1>3. CASE n # 0
  <2> DEFINE Rule(g) == g = [i \in 1 .. n |-> IF i = 1 THEN parts[i] ELSE g[i - 1] \o parts[i]]
             h == [i \in 1 .. n |-> f[i]]
  <2>1. Rule(h)
    <3>1. ASSUME NEW i \in 1 .. n
          PROVE  h[i] = IF i = 1 THEN parts[i] ELSE h[i - 1] \o parts[i]
      <4>1. CASE i = 1
        <5>a. 1 \in 1 .. n /\ 1 - 1 = 0
          BY <1>1, <1>3
        <5>1. parts[1] \in Seq(T) /\ f[1] = <<>> \o parts[1]
          BY <1>1, <5>a
        <5>2. f[1] = parts[1]
          BY <5>1, ConcatEmptySeq
        <5> QED
          BY <4>1, <5>2
      <4>2. CASE i # 1
        <5>1. i - 1 \in 1 .. n /\ h[i - 1] = f[i - 1] /\ h[i] = f[i]
          BY <1>1, <4>2
        <5>2. h[i] = h[i - 1] \o parts[i]
          BY <5>1
        <5> QED
          BY <4>2, <5>2
      <4> QED
        BY <4>1, <4>2
    <3> HIDE DEF h
    <3>2. h = [i \in 1 .. n |-> h[i]]
      BY DEF h
    <3> QED
      BY <3>1, <3>2
  <2>2. ASSUME NEW g, Rule(g) PROVE g[n] = f[n]
    <3> DEFINE S == {i \in 0 .. n : i = 0 \/ g[i] = f[i]}
    <3>1. 0 \in S
      BY <1>1
    <3>2. ASSUME NEW i \in 0 .. n - 1, i \in S PROVE i + 1 \in S
      <4>1. i + 1 \in 1 .. n /\ (i + 1) - 1 = i
        BY <1>1
      <4>2. g[i + 1] = IF i + 1 = 1 THEN parts[i + 1] ELSE g[i] \o parts[i + 1]
        BY <2>2, <4>1
      <4>3. CASE i = 0
        <5>a. 1 \in 1 .. n /\ 1 - 1 = 0
          BY <1>1, <1>3
        <5>1. parts[1] \in Seq(T) /\ f[1] = <<>> \o parts[1]
          BY <1>1, <5>a
        <5>2. f[1] = parts[1]
          BY <5>1, ConcatEmptySeq
        <5> QED
          BY <4>1, <4>2, <4>3, <5>2
      <4>4. CASE i # 0
        <5>1. g[i] = f[i] /\ f[i + 1] = f[i] \o parts[i + 1]
          BY <3>2, <4>1, <4>4
        <5>2. i + 1 # 1
          BY <4>4
        <5>3. g[i + 1] = f[i] \o parts[i + 1]
          BY <4>2, <5>1, <5>2, Zenon
        <5>4. g[i + 1] = f[i + 1]
          BY <5>1, <5>3
        <5> QED
          BY <4>1, <5>4
      <4> QED
        BY <4>3, <4>4
    <3> HIDE DEF S
    <3>3. 0 .. n \subseteq S
      BY <1>1, <3>1, <3>2, InductUpTo
    <3> QED
      BY <1>1, <1>3, <3>3 DEF S
  <2>3. Rule(CHOOSE g : Rule(g))
    BY <2>1
  <2>4. FlattenSeq(parts) = (CHOOSE g : Rule(g))[n]
    BY <1>3 DEF FlattenSeq
  <2> HIDE DEF Rule
  <2> QED
    BY <2>2, <2>3, <2>4
<1> QED
    BY <1>2, <1>3

\* What FlattenSeq puts together can be found at the offsets.
LEMMA FlattenLayout ==
    ASSUME NEW T, NEW parts \in Seq(Seq(T))
    PROVE  /\ FlattenSeq(parts) \in Seq(T)
           /\ \E off : /\ Offsets(parts, off)
                       /\ off[Len(parts)] = Len(FlattenSeq(parts))
                       /\ Holds(FlattenSeq(parts), parts, off)
                       /\ \A i, k \in 0 .. Len(parts) : i <= k => off[i] <= off[k]
<1> DEFINE n == Len(parts)
           step == [i \in 1 .. n |-> [s \in Seq(T) |-> s \o parts[i]]]
<1>1. n \in Nat /\ \A i \in 1 .. n : parts[i] \in Seq(T)
    BY LenProperties
<1>2. step \in [1 .. n -> [Seq(T) -> Seq(T)]]
  <2>1. ASSUME NEW i \in 1 .. n, NEW s \in Seq(T) PROVE s \o parts[i] \in Seq(T)
    BY <1>1, ConcatProperties
  <2> QED
    BY <2>1
<1>3. \A i \in 1 .. n : \A s \in Seq(T) : step[i][s] = s \o parts[i]
    OBVIOUS
<1> HIDE DEF n, step
<1>4. <<>> \in Seq(T)
    BY EmptySeq
<1>5. PICK f \in [0 .. n -> Seq(T)] : f[0] = <<>> /\ \A i \in 1 .. n : f[i] = step[i][f[i - 1]]
  <2> DEFINE Values == Seq(T)
             none   == <<>>
  <2>1. n \in Nat /\ none \in Values /\ step \in [1 .. n -> [Values -> Values]]
    BY <1>1, <1>2, <1>4
  <2> HIDE DEF Values, none
  <2>2. \E f \in [0 .. n -> Values] : Stepwise(n, none, step, f)
    BY <2>1, DefinedUp
  <2> QED
    BY <2>2 DEF Values, none, Stepwise
<1>6. \A i \in 1 .. n : f[i] = f[i - 1] \o parts[i]
  <2> SUFFICES ASSUME NEW i \in 1 .. n PROVE f[i] = f[i - 1] \o parts[i]
    OBVIOUS
  <2>1. i - 1 \in 0 .. n
    BY <1>1
  <2>2. f[i - 1] \in Seq(T)
    BY <1>5, <2>1
  <2> QED
    BY <1>3, <1>5, <2>2
<1>7. FlattenSeq(parts) = f[n]
    BY <1>5, <1>6, FlattenIs DEF n
<1> DEFINE off == [i \in 0 .. n |-> Len(f[i])]
<1>8. /\ off \in [0 .. n -> Nat] /\ \A i \in 0 .. n : off[i] = Len(f[i])
      /\ off[0] = 0
  <2>1. \A i \in 0 .. n : Len(f[i]) \in Nat
    BY <1>5, LenProperties
  <2> QED
    BY <1>1, <1>5, <2>1, EmptySeq
<1> HIDE DEF off
<1>9. ASSUME NEW k \in 1 .. n
      PROVE  /\ off[k] = off[k - 1] + Len(parts[k])
             /\ \A j \in 1 .. off[k - 1] : f[k][j] = f[k - 1][j]
             /\ \A j \in 1 .. Len(parts[k]) : f[k][off[k - 1] + j] = parts[k][j]
  <2>a. k - 1 \in 0 .. n /\ k \in 0 .. n
    BY <1>1
  <2>1. parts[k] \in Seq(T) /\ f[k - 1] \in Seq(T) /\ f[k] = f[k - 1] \o parts[k]
    BY <1>1, <1>5, <1>6, <2>a
  <2>2. off[k] = Len(f[k]) /\ off[k - 1] = Len(f[k - 1]) /\ off[k - 1] \in Nat
    BY <1>8, <2>a, <2>1, LenProperties
  <2> DEFINE s == f[k - 1]
             t == parts[k]
             u == f[k]
  <2> HIDE DEF s, t, u
  <2>3. s \in Seq(T) /\ t \in Seq(T) /\ u = s \o t /\ Len(t) \in Nat /\ Len(s) \in Nat
    BY <2>1, LenProperties DEF s, t, u
  <2>4. Len(u) = Len(s) + Len(t) /\ \A i \in 1 .. Len(s) + Len(t) :
                                      u[i] = IF i <= Len(s) THEN s[i] ELSE t[i - Len(s)]
    BY <2>3, ConcatProperties
  <2>5. \A j \in 1 .. Len(s) : u[j] = s[j]
    BY <2>3, <2>4
  <2>6. \A j \in 1 .. Len(t) : u[Len(s) + j] = t[j]
    <3> SUFFICES ASSUME NEW j \in 1 .. Len(t) PROVE u[Len(s) + j] = t[j]
      OBVIOUS
    <3>1. Len(s) + j \in 1 .. Len(s) + Len(t) /\ ~ (Len(s) + j <= Len(s)) /\ (Len(s) + j) - Len(s) = j
      BY <2>3
    <3> QED
      BY <2>4, <3>1
  <2> QED
    BY <2>2, <2>4, <2>5, <2>6 DEF s, t, u
<1>10. ASSUME NEW i \in 0 .. n
       PROVE  \A k \in i .. n : /\ off[i] <= off[k]
                                /\ \A j \in 1 .. off[i] : f[k][j] = f[i][j]
  <2> DEFINE Ok(k) == off[i] <= off[k] /\ \A j \in 1 .. off[i] : f[k][j] = f[i][j]
             S == {k \in 0 .. n : k >= i => Ok(k)}
  <2>1. 0 \in S
    BY <1>1, <1>8
  <2>2. ASSUME NEW k \in 0 .. n - 1, k \in S PROVE k + 1 \in S
    <3>1. k + 1 \in 1 .. n /\ (k + 1) - 1 = k /\ k \in 0 .. n
      BY <1>1
    <3>2. off[i] \in Nat /\ off[k] \in Nat /\ Len(parts[k + 1]) \in Nat
      BY <1>1, <1>8, <3>1, LenProperties
    <3>3. /\ off[k + 1] = off[k] + Len(parts[k + 1])
          /\ \A j \in 1 .. off[k] : f[k + 1][j] = f[k][j]
      BY <1>9, <3>1
    <3>4. CASE k + 1 = i
      BY <3>1, <3>2, <3>4
    <3>5. CASE k + 1 < i
      BY <3>1, <3>5
    <3>6. CASE k >= i
      <4>1. Ok(k)
        BY <2>2, <3>6
      <4>2. \A j \in 1 .. off[i] : j \in 1 .. off[k]
        BY <3>2, <4>1
      <4>3. Ok(k + 1)
        BY <3>2, <3>3, <4>1, <4>2
      <4> QED
        BY <3>1, <4>3
    <3> QED
      BY <3>1, <3>4, <3>5, <3>6
  <2> HIDE DEF S
  <2>3. 0 .. n \subseteq S
    BY <1>1, <2>1, <2>2, InductUpTo
  <2>4. ASSUME NEW k \in i .. n PROVE Ok(k)
    <3>1. k \in S /\ k >= i
      BY <1>1, <2>3
    <3> QED
      BY <3>1 DEF S
  <2> QED
    BY <2>4
<1>11. Holds(f[n], parts, off)
  <2> SUFFICES ASSUME NEW k \in 1 .. n, NEW j \in 1 .. Len(parts[k])
               PROVE  f[n][off[k - 1] + j] = parts[k][j]
    BY DEF Holds, n
  <2>1. Len(parts[k]) \in Nat /\ off[k - 1] \in Nat /\ off[k] = off[k - 1] + Len(parts[k])
    <3>1. k - 1 \in 0 .. n
      BY <1>1
    <3> QED
      BY <1>1, <1>8, <1>9, <3>1, LenProperties
  <2>2. off[k - 1] + j \in 1 .. off[k] /\ k \in 0 .. n /\ n \in k .. n
    BY <1>1, <2>1
  <2>3. f[n][off[k - 1] + j] = f[k][off[k - 1] + j]
    BY <1>10, <2>2
  <2> QED
    BY <1>9, <2>3
<1>12. Offsets(parts, off)
    BY <1>8, <1>9 DEF Offsets, n
<1>13. off[n] = Len(f[n]) /\ f[n] \in Seq(T)
    BY <1>1, <1>5, <1>8
<1>14. \A i, k \in 0 .. n : i <= k => off[i] <= off[k]
  <2> SUFFICES ASSUME NEW i \in 0 .. n, NEW k \in 0 .. n, i <= k PROVE off[i] <= off[k]
    OBVIOUS
  <2>1. k \in i .. n
    BY <1>1
  <2> QED
    BY <1>10, <2>1
<1> QED
    BY <1>7, <1>11, <1>12, <1>13, <1>14 DEF n
-----------------------------------------------------------------------------
(* Capacities that double *)

\* Twice a power of two is one: an odd divisor of the double divides it.
LEMMA Doubled ==
    ASSUME NEW n \in Nat, NEW m \in Nat, NEW p \in PowersOfTwo(n), 2 * p <= m
    PROVE  2 * p \in PowersOfTwo(m)
<1>1. p \in Nat /\ p >= 1 /\ \A d, q \in 1 .. p : p = d * q => d = 1 \/ d % 2 = 0
    BY DEF PowersOfTwo
<1>2. ASSUME NEW d \in 1 .. 2 * p, NEW q \in 1 .. 2 * p, 2 * p = d * q, d % 2 # 0
      PROVE  d = 1
  <2> DEFINE e == d \div 2
             t == p - e * q
  <2>1. e \in Nat /\ d = 2 * e + 1
    BY <1>1, <1>2
  <2>2. e * q \in Nat
    BY <1>1, <2>1
  <2> HIDE DEF e
  <2>3. d * q = 2 * (e * q) + q
    BY <1>1, <2>1
  <2>4. t \in Int /\ q = 2 * t
    BY <1>1, <1>2, <2>2, <2>3
  <2> HIDE DEF t
  <2>5. d * q = 2 * (d * t)
    BY <1>1, <2>4
  <2>6. d * t \in Int /\ p = d * t
    BY <1>1, <1>2, <2>4, <2>5
  <2>7. t >= 1 /\ t <= p
    BY <1>1, <2>4
  <2>8. d <= p
    <3>1. d * t >= d * 1
        BY <1>1, <2>4, <2>7
    <3> QED
        BY <1>1, <2>6, <3>1
  <2>9. d \in 1 .. p /\ t \in 1 .. p
    BY <1>1, <2>4, <2>7, <2>8
  <2> QED
    BY <1>1, <1>2, <2>6, <2>9
<1>3. 2 * p \in 1 .. m
    BY <1>1
<1> QED
    BY <1>2, <1>3 DEF PowersOfTwo

\* There is a last doubling that does not make room for fd.
LEMMA LastTooSmall ==
    ASSUME NEW room \in Nat \ {0}, NEW fd \in Nat, room <= fd
    PROVE  \E p \in PowersOfTwo(fd) : room * p <= fd /\ fd < room * (2 * p)
<1> DEFINE Left == {k \in Nat : \E p \in PowersOfTwo(fd) : k = fd - room * p}
<1>1. 1 \in PowersOfTwo(fd)
    BY DEF PowersOfTwo
<1>2. fd - room * 1 \in Nat
    OBVIOUS
<1>3. fd - room * 1 \in Left
    BY <1>1, <1>2
<1>4. Left # {} /\ Left \subseteq Nat
    BY <1>3
<1> HIDE DEF Left
<1>5. PICK k \in Left : \A l \in Left : ~ (<<l, k>> \in OpToRel(<, Nat))
    BY <1>4, WFMin, NatLessThanWellFounded
<1>6. PICK p \in PowersOfTwo(fd) : k = fd - room * p
    BY DEF Left
<1>7. p \in Nat /\ p >= 1 /\ k \in Nat
    BY <1>4 DEF PowersOfTwo
<1>8. /\ room * p \in Nat /\ room * p <= fd /\ room * p >= 1
      /\ room * (2 * p) = room * p + room * p
    BY <1>6, <1>7
<1>9. fd < room * (2 * p)
  <2> SUFFICES ASSUME room * (2 * p) <= fd PROVE FALSE
    BY <1>7, <1>8
  <2>1. 2 * p <= room * (2 * p)
    BY <1>7
  <2>2. 2 * p \in PowersOfTwo(fd)
    BY <1>7, <1>8, <2>1, Doubled
  <2> DEFINE l == fd - room * (2 * p)
  <2>3. l \in Nat /\ l < k
    BY <1>6, <1>7, <1>8
  <2>4. l \in Left
    BY <2>2, <2>3 DEF Left
  <2> QED
    BY <1>5, <1>7, <2>3, <2>4 DEF OpToRel
<1> QED
    BY <1>6, <1>8, <1>9

\* Powers of two up to a bound are some up to a higher one.
LEMMA PowersGrow ==
    ASSUME NEW n \in Int, NEW m \in Int, n <= m
    PROVE  PowersOfTwo(n) \subseteq PowersOfTwo(m)
<1>1. \A p \in 1 .. n : p \in 1 .. m
  OBVIOUS
<1> QED
  BY <1>1, Zenon DEF PowersOfTwo

\* Doubling comes to an end: the result is a capacity, not below the old one,
\* and the index fits; it is the old one times a power of two.
LEMMA ExpandedFits ==
    ASSUME NEW room \in Nat \ {0}, NEW i \in Int
    PROVE  /\ Expanded(room, i) \in Nat /\ i < Expanded(room, i) /\ room <= Expanded(room, i)
           /\ Expanded(room, i) \in {room * p : p \in {1} \cup PowersOfTwo(2 * i)}
<1>1. CASE i < room
  <2>1. Expanded(room, i) = room * 1
    BY <1>1 DEF Expanded
  <2> QED
    BY <1>1, <2>1
<1>2. CASE room <= i
  <2> DEFINE Caps == {room * p : p \in PowersOfTwo(2 * i)}
             Fits(c) == i < c /\ c \div 2 <= i
  <2>1. PICK p \in PowersOfTwo(i) : room * p <= i /\ i < room * (2 * p)
    BY <1>2, LastTooSmall
  <2>2. p \in Nat /\ p >= 1 /\ p <= i
    BY DEF PowersOfTwo
  <2>3. i \in Nat /\ 2 * i \in Nat /\ 2 * p <= 2 * i
    BY <1>2, <2>2
  <2>4. 2 * p \in PowersOfTwo(2 * i)
    BY <2>3, Doubled
  <2>5. room * p \in Nat /\ room * (2 * p) = 2 * (room * p)
    BY <2>2
  <2>6. (room * (2 * p)) \div 2 = room * p
    BY <2>5
  <2>7. \E c \in Caps : Fits(c)
    BY <2>1, <2>4, <2>6
  <2>8. Expanded(room, i) = CHOOSE c \in Caps : Fits(c)
    <3>1. ~ (i < room)
      BY <1>2
    <3> QED
      BY <3>1, Zenon DEF Expanded
  <2> HIDE DEF Fits
  <2>9. Expanded(room, i) \in Caps /\ Fits(Expanded(room, i))
    <3> HIDE DEF Caps
    <3> QED
      BY <2>7, <2>8
  <2>10. Caps \subseteq Nat
    <3> SUFFICES ASSUME NEW q \in PowersOfTwo(2 * i) PROVE room * q \in Nat
      OBVIOUS
    <3> QED
      BY DEF PowersOfTwo
  <2>11. Caps \subseteq {room * q : q \in {1} \cup PowersOfTwo(2 * i)}
    OBVIOUS
  <2> QED
    BY <1>2, <2>9, <2>10, <2>11 DEF Fits
<1> QED
  BY <1>1, <1>2
=============================================================================
