--------------------------- MODULE HandshakeProofs ---------------------------
(***************************************************************************)
(* What NodeSession promises about the handshake of the protocol, beyond   *)
(* the invariant of NodeSessionProofs: the handshake completes once,       *)
(* although two threads exchange its status, and all variables keep their  *)
(* types.  The invariant of the exchange of the versions with a peer that  *)
(* keeps to the protocol is stated here too, with the steps that have no   *)
(* part in the exchange; ExchangeProofs has the others and the theorems.   *)
(***************************************************************************)
EXTENDS NodeSessionProofs, SequenceTheorems, WellFoundedInduction

-----------------------------------------------------------------------------
(* The queue of messages.                                                  *)

\* Every nonempty set of naturals has a least member.
LEMMA LeastNatural ==
    ASSUME NEW T \in SUBSET Nat, T # {}
    PROVE  \E x \in T : \A y \in T : x <= y
<1> DEFINE R == {ss \in Nat \X Nat : ss[1] < ss[2]}
<1>1. IsWellFoundedOn(OpToRel(<, Nat), Nat)
  BY Zenon, NatLessThanWellFounded
<1>2. IsWellFoundedOn(R, Nat)
  BY <1>1 DEF OpToRel
<1>3. \A x, y \in Nat : y < x => <<y, x>> \in R
  OBVIOUS
<1> HIDE DEF R
<1>4. PICK x \in T : \A y \in T : ~ (<<y, x>> \in R)
  BY Zenon, <1>2, WFMin
<1>5. \A y \in T : x <= y
  <2> TAKE y \in T
  <2>1. ~ (y < x)
    BY Zenon, <1>3, <1>4
  <2>2. x \in Nat /\ y \in Nat
    OBVIOUS
  <2>3. QED
    BY <2>1, <2>2
<1>6. QED
  BY <1>5

\* Induction from 1: a set that holds a positive number whenever it holds all smaller ones holds them all.
LEMMA Induction ==
    ASSUME NEW S, \A n \in Nat : (\A m \in Nat : m < n => m \in S) => n \in S
    PROVE  Nat \subseteq S
<1> DEFINE T == Nat \ S
<1>1. SUFFICES ASSUME T # {} PROVE FALSE
  OBVIOUS
<1>2. PICK x \in T : \A y \in T : x <= y
  BY Zenon, <1>1, LeastNatural
<1>3. \A m \in Nat : m < x => m \in S
  BY <1>2
<1>4. QED
  BY <1>2, <1>3

\* The equation of the function that sift_up defines has a solution.
IsRise(f, heap, value) ==
    f = [i \in DOMAIN heap |-> IF i > 1 /\ Less(heap[i \div 2], value)
                               THEN [f[i \div 2] EXCEPT ![i] = heap[i \div 2]]
                               ELSE [heap EXCEPT ![i] = value]]


\* It is built upwards from the root: the solution for a hole extends the one for its parent.
LEMMA RiseExists ==
    ASSUME NEW V, NEW heap \in Seq(V), NEW value
    PROVE  \E f : IsRise(f, heap, value)
<1> DEFINE L == Len(heap)
           body(f, i) == IF i > 1 /\ Less(heap[i \div 2], value)
                         THEN [f[i \div 2] EXCEPT ![i] = heap[i \div 2]]
                         ELSE [heap EXCEPT ![i] = value]
           S == {n \in Nat : n <= L => \E f : f = [i \in 1 .. n |-> body(f, i)]}
<1>1. L \in Nat /\ DOMAIN heap = 1 .. L
  OBVIOUS
<1>2. \A i \in Nat : i > 1 => i \div 2 \in Nat /\ i \div 2 >= 1 /\ i \div 2 < i
  OBVIOUS
<1>3. ASSUME NEW n \in Nat, \A m \in Nat : m < n => m \in S PROVE n \in S
  <2>1. CASE n = 0
    <3>1. [i \in 1 .. 0 |-> 0] = [i \in 1 .. 0 |-> body([j \in 1 .. 0 |-> 0], i)]
      <4>1. 1 .. 0 = {}
        OBVIOUS
      <4> QED BY <4>1
    <3> QED BY Zenon, <2>1, <3>1
  <2>2. CASE n > 0 /\ n <= L
    <3>1. n - 1 \in Nat /\ n - 1 < n /\ n - 1 <= L
      BY <1>1, <2>2
    <3>2. PICK f : f = [i \in 1 .. n - 1 |-> body(f, i)]
      BY Zenon, <1>3, <3>1
    <3> DEFINE g == [i \in 1 .. n |-> IF i < n THEN f[i] ELSE body(f, n)]
    <3>3. \A i \in 1 .. n : body(g, i) = body(f, i)
      <4> TAKE i \in 1 .. n
      <4>1. i > 1 => g[i \div 2] = f[i \div 2]
        BY <1>2
      <4> HIDE DEF g
      <4> QED BY <4>1
    <3>4. \A i \in 1 .. n : g[i] = body(f, i)
      <4> TAKE i \in 1 .. n
      <4>1. CASE i < n
        <5>1. f[i] = body(f, i)
          <6>1. i \in 1 .. n - 1
            BY <4>1
          <6> HIDE DEF body
          <6> QED BY <3>2, <6>1
        <5> HIDE DEF body
        <5> QED BY <4>1, <5>1
      <4>2. CASE i = n
        BY <4>2
      <4> QED BY <4>1, <4>2
    <3>5. g = [i \in 1 .. n |-> body(g, i)]
      <4>1. \A i \in 1 .. n : g[i] = body(g, i)
        <5> HIDE DEF body, g
        <5> QED BY <3>3, <3>4
      <4>2. g = [i \in 1 .. n |-> g[i]]
        OBVIOUS
      <4> HIDE DEF body, g
      <4> QED BY <4>1, <4>2
    <3> HIDE DEF body, g
    <3> QED BY <3>5
  <2>3. CASE ~ (n <= L)
    BY <2>3
  <2> QED BY <1>1, <2>1, <2>2, <2>3
<1>4. L \in S
  <2> HIDE DEF S, L
  <2> QED BY <1>1, <1>3, Induction
<1>5. \E f : f = [i \in 1 .. L |-> body(f, i)]
  <2> HIDE DEF body
  <2> QED BY <1>1, <1>4
<1> QED BY <1>1, <1>5 DEF IsRise

\* What sift_up returns is the value at the hole of a function that satisfies the equation.
LEMMA RiseDef ==
    ASSUME NEW V, NEW heap \in Seq(V), NEW value, NEW hole
    PROVE  \E f : IsRise(f, heap, value) /\ sift_up(heap, hole, value) = f[hole]
<1>1. PICK f : IsRise(f, heap, value)
  BY Zenon, RiseExists
<1> QED BY Zenon, <1>1 DEF IsRise, sift_up

\* Rearrangements of the positions of a sequence.
Shuffles(n) == {p \in [1 .. n -> 1 .. n] : \A i, j \in 1 .. n : p[i] = p[j] => i = j}

\* The hole is filled, and the elements above it may have changed places.
Risen(result, heap, hole, value) ==
    /\ Len(result) = Len(heap)
    /\ \E p \in Shuffles(Len(heap)) :
          /\ \A k \in DOMAIN heap : result[k] = IF p[k] = hole THEN value ELSE heap[p[k]]
          /\ \A k \in DOMAIN heap : k > hole => p[k] = k

\* sift_up fills the hole and permutes what is above it.
LEMMA SiftUp ==
    ASSUME NEW V, NEW heap \in Seq(V), NEW value \in V, NEW hole \in DOMAIN heap
    PROVE  sift_up(heap, hole, value) \in Seq(V) /\ Risen(sift_up(heap, hole, value), heap, hole, value)
<1>1. PICK f : IsRise(f, heap, value) /\ sift_up(heap, hole, value) = f[hole]
  BY RiseDef
<1> DEFINE L == Len(heap)
           Good(i) == f[i] \in Seq(V) /\ Risen(f[i], heap, i, value)
           S == {n \in Nat : n \in 1 .. L => Good(n)}
<1>2. L \in Nat /\ DOMAIN heap = 1 .. L
  OBVIOUS
<1>6. \A i \in DOMAIN heap : f[i] = IF i > 1 /\ Less(heap[i \div 2], value)
                                    THEN [f[i \div 2] EXCEPT ![i] = heap[i \div 2]]
                                    ELSE [heap EXCEPT ![i] = value]
  BY Zenon, <1>1 DEF IsRise
<1>3. ASSUME NEW n \in Nat, \A m \in Nat : m < n => m \in S, n \in 1 .. L PROVE Good(n)
  <2>1. CASE n > 1 /\ Less(heap[n \div 2], value)
    <3> DEFINE m == n \div 2
    <3>1. m \in Nat /\ m >= 1 /\ m < n /\ m \in 1 .. L
      BY <1>3, <2>1
    <3>2. f[n] = [f[m] EXCEPT ![n] = heap[m]]
      <4>1. n \in DOMAIN heap
        BY <1>2, <1>3
      <4> QED BY Zenon, <1>6, <2>1, <4>1
    <3>3. Good(m)
      BY <1>3, <3>1
    <3> HIDE DEF m
    <3>4. f[m] \in Seq(V) /\ Len(f[m]) = L
      BY <3>3 DEF Risen
    <3>5. PICK p \in Shuffles(L) :
            /\ \A k \in DOMAIN heap : f[m][k] = IF p[k] = m THEN value ELSE heap[p[k]]
            /\ \A k \in DOMAIN heap : k > m => p[k] = k
      BY <3>3 DEF Risen
    <3>6. f[n] \in Seq(V) /\ Len(f[n]) = L /\ \A k \in 1 .. L : f[n][k] = IF k = n THEN heap[m] ELSE f[m][k]
      BY <1>3, <3>1, <3>2, <3>4
    <3> DEFINE q == [k \in 1 .. L |-> IF k = n THEN m ELSE IF p[k] = m THEN n ELSE p[k]]
    <3>7. p \in [1 .. L -> 1 .. L] /\ p[n] = n /\ \A i, j \in 1 .. L : p[i] = p[j] => i = j
      BY <1>3, <3>1, <3>5 DEF Shuffles
    <3>8. q \in [1 .. L -> 1 .. L]
      BY <1>3, <3>1, <3>7
    <3>9. \A i, j \in 1 .. L : q[i] = q[j] => i = j
      BY <1>3, <3>1, <3>7
    <3>10. \A k \in 1 .. L : f[n][k] = IF q[k] = n THEN value ELSE heap[q[k]]
      <4> TAKE k \in 1 .. L
      <4>1. CASE k = n
        <5>1. q[k] = m /\ m # n
          BY <3>1, <4>1
        <5> QED BY <3>6, <4>1, <5>1
      <4>2. CASE k # n /\ p[k] = m
        <5>1. q[k] = n
          BY <4>2
        <5> HIDE DEF q
        <5> QED BY <1>2, <3>5, <3>6, <4>2, <5>1
      <4>3. CASE k # n /\ p[k] # m
        <5>1. q[k] = p[k] /\ p[k] # n
          BY <1>3, <3>7, <4>3
        <5> HIDE DEF q
        <5> QED BY <1>2, <3>5, <3>6, <4>3, <5>1
      <4> QED BY <4>1, <4>2, <4>3
    <3>11. \A k \in 1 .. L : k > n => q[k] = k
      BY <1>2, <1>3, <3>1, <3>5
    <3>12. q \in Shuffles(L)
      BY <3>8, <3>9 DEF Shuffles
    <3> HIDE DEF q
    <3> QED BY <1>2, <3>6, <3>10, <3>11, <3>12 DEF Risen
  <2>2. CASE ~ (n > 1 /\ Less(heap[n \div 2], value))
    <3>1. f[n] = [heap EXCEPT ![n] = value]
      <4>1. n \in DOMAIN heap
        BY <1>2, <1>3
      <4> QED BY Zenon, <1>6, <2>2, <4>1
    <3> DEFINE q == [k \in 1 .. L |-> k]
    <3>2. q \in Shuffles(L)
      BY DEF Shuffles
    <3>3. f[n] \in Seq(V) /\ Len(f[n]) = L /\ \A k \in 1 .. L : f[n][k] = IF q[k] = n THEN value ELSE heap[q[k]]
      BY <1>3, <3>1
    <3>4. \A k \in 1 .. L : k > n => q[k] = k
      OBVIOUS
    <3> HIDE DEF q
    <3> QED BY <1>2, <3>2, <3>3, <3>4 DEF Risen
  <2> QED BY <2>1, <2>2
<1>4. Nat \subseteq S
  <2>1. \A n \in Nat : (\A m \in Nat : m < n => m \in S) => n \in S
    <3> HIDE DEF Good, L
    <3> QED BY <1>3
  <2> HIDE DEF S
  <2> QED BY <2>1, Induction
<1>5. Good(hole)
  <2> HIDE DEF Good
  <2> QED BY <1>2, <1>4
<1> QED BY <1>1, <1>5

\* The equation of the function that pop defines.
IsSink(f, rest) ==
    f = [i \in DOMAIN rest |-> IF 2 * i > Len(rest) THEN [heap |-> rest, hole |-> i]
                               ELSE [f[child(rest, i)] EXCEPT !.heap[i] = rest[child(rest, i)]]]

\* A position that is not a leaf has a child below it.
LEMMA ChildBelow ==
    ASSUME NEW V, NEW rest \in Seq(V), NEW i \in DOMAIN rest, ~ (2 * i > Len(rest))
    PROVE  child(rest, i) \in DOMAIN rest /\ child(rest, i) > i
<1>1. i \in Nat \ {0} /\ Len(rest) \in Nat /\ DOMAIN rest = 1 .. Len(rest)
  OBVIOUS
<1>2. child(rest, i) = 2 * i \/ (child(rest, i) = 2 * i + 1 /\ 2 * i # Len(rest))
  BY Zenon DEF child
<1> QED BY <1>1, <1>2

\* It has a solution, built from the leaves.
LEMMA SinkExists ==
    ASSUME NEW V, NEW rest \in Seq(V)
    PROVE  \E f : IsSink(f, rest)
<1> DEFINE L == Len(rest)
           body(f, i) == IF 2 * i > L THEN [heap |-> rest, hole |-> i]
                         ELSE [f[child(rest, i)] EXCEPT !.heap[i] = rest[child(rest, i)]]
           S == {n \in Nat : n <= L => \E f : f = [i \in L - n + 1 .. L |-> body(f, i)]}
<1>1. L \in Nat /\ DOMAIN rest = 1 .. L
  OBVIOUS
<1>2. \A i \in 1 .. L : ~ (2 * i > L) => child(rest, i) \in 1 .. L /\ child(rest, i) > i
  BY <1>1, ChildBelow
<1>3. ASSUME NEW n \in Nat, \A m \in Nat : m < n => m \in S PROVE n \in S
  <2>1. CASE n = 0
    <3>1. [i \in L + 1 .. L |-> 0] = [i \in L + 1 .. L |-> body([j \in L + 1 .. L |-> 0], i)]
      <4>1. L + 1 .. L = {}
        BY <1>1
      <4> QED BY <4>1
    <3>2. L - n + 1 .. L = L + 1 .. L
      BY <1>1, <2>1
    <3> HIDE DEF body
    <3> QED BY <3>1, <3>2
  <2>2. CASE n > 0 /\ n <= L
    <3>1. n - 1 \in Nat /\ n - 1 < n /\ n - 1 <= L
      BY <1>1, <2>2
    <3> DEFINE a == L - n + 1
    <3>2. a \in 1 .. L /\ L - (n - 1) + 1 = a + 1
      BY <1>1, <2>2
    <3>3. PICK f : f = [i \in a + 1 .. L |-> body(f, i)]
      <4> HIDE DEF body
      <4> QED BY Zenon, <1>3, <3>1, <3>2
    <3> HIDE DEF a
    <3> DEFINE g == [i \in a .. L |-> IF i > a THEN f[i] ELSE body(f, a)]
    <3>4. \A i \in a .. L : body(g, i) = body(f, i)
      <4> TAKE i \in a .. L
      <4>1. ~ (2 * i > L) => g[child(rest, i)] = f[child(rest, i)]
        BY <1>2, <3>2
      <4> HIDE DEF g
      <4> QED BY Zenon, <4>1
    <3>5. \A i \in a .. L : g[i] = body(f, i)
      <4> TAKE i \in a .. L
      <4>1. CASE i > a
        <5>1. f[i] = body(f, i)
          <6>1. i \in a + 1 .. L
            BY <3>2, <4>1
          <6> HIDE DEF body
          <6> QED BY Zenon, <3>3, <6>1
        <5> HIDE DEF body
        <5> QED BY <4>1, <5>1
      <4>2. CASE i = a
        BY <4>2
      <4> QED BY <3>2, <4>1, <4>2
    <3>6. g = [i \in a .. L |-> body(g, i)]
      <4>1. \A i \in a .. L : g[i] = body(g, i)
        <5> HIDE DEF body, g
        <5> QED BY <3>4, <3>5
      <4>2. g = [i \in a .. L |-> g[i]]
        OBVIOUS
      <4> HIDE DEF body, g
      <4> QED BY <4>1, <4>2
    <3> HIDE DEF body, g
    <3> QED BY <3>6 DEF a
  <2>3. CASE ~ (n <= L)
    BY <2>3
  <2> QED BY <1>1, <2>1, <2>2, <2>3
<1>4. L \in S
  <2> HIDE DEF S, L
  <2> QED BY <1>1, <1>3, Induction
<1>5. \E f : f = [i \in 1 .. L |-> body(f, i)]
  <2>1. L - L + 1 = 1 /\ L <= L
    BY <1>1
  <2> HIDE DEF body
  <2> QED BY <1>1, <1>4, <2>1
<1> QED BY <1>1, <1>5 DEF IsSink

\* The hole has sunk from i, and the elements on its way have moved up.
Sunk(r, rest, i) ==
    /\ r.hole \in i .. Len(rest)
    /\ Len(r.heap) = Len(rest)
    /\ \E p \in Shuffles(Len(rest)) :
          /\ p[r.hole] = i
          /\ \A k \in DOMAIN rest : k # r.hole => r.heap[k] = rest[p[k]]
          /\ \A k \in DOMAIN rest : k < i => p[k] = k

\* The hole that pop leaves sinks to a leaf, each element on its way moving up by one.
LEMMA Sink ==
    ASSUME NEW V, NEW rest \in Seq(V), NEW f, IsSink(f, rest), NEW top \in DOMAIN rest
    PROVE  f[top] \in [heap : Seq(V), hole : 1 .. Len(rest)] /\ Sunk(f[top], rest, top)
<1> DEFINE L == Len(rest)
           Good(i) == f[i] \in [heap : Seq(V), hole : 1 .. L] /\ Sunk(f[i], rest, i)
           S == {n \in Nat : n < L => Good(L - n)}
<1>1. L \in Nat /\ DOMAIN rest = 1 .. L
  OBVIOUS
<1>2. \A i \in DOMAIN rest : f[i] = IF 2 * i > L THEN [heap |-> rest, hole |-> i]
                                   ELSE [f[child(rest, i)] EXCEPT !.heap[i] = rest[child(rest, i)]]
  BY Zenon DEF IsSink
<1>3. ASSUME NEW i \in 1 .. L, \A j \in 1 .. L : j > i => Good(j) PROVE Good(i)
  <2>1. CASE 2 * i > L
    <3>1. f[i] = [heap |-> rest, hole |-> i]
      BY Zenon, <1>1, <1>2, <2>1
    <3> DEFINE q == [k \in 1 .. L |-> k]
    <3>2. q \in Shuffles(L) /\ q[i] = i /\ \A k \in 1 .. L : q[k] = k
      BY DEF Shuffles
    <3>3. f[i] \in [heap : Seq(V), hole : 1 .. L] /\ f[i].hole \in i .. L /\ f[i].hole = i /\ f[i].heap = rest
      BY <1>1, <3>1
    <3> HIDE DEF q
    <3> QED BY <1>1, <3>2, <3>3 DEF Sunk
  <2>2. CASE ~ (2 * i > L)
    <3> DEFINE c == child(rest, i)
    <3>1. c \in 1 .. L /\ c > i
      BY <1>1, <2>2, ChildBelow
    <3>2. f[i] = [f[c] EXCEPT !.heap[i] = rest[c]]
      BY Zenon, <1>1, <1>2, <2>2
    <3> HIDE DEF c
    <3>3. Good(c)
      BY <1>3, <3>1
    <3> DEFINE d == f[c].hole
    <3>4. f[c] \in [heap : Seq(V), hole : 1 .. L] /\ d \in c .. L /\ Len(f[c].heap) = L
      BY <3>3 DEF Sunk
    <3>5. f[i] = [heap |-> [f[c].heap EXCEPT ![i] = rest[c]], hole |-> d]
      BY Zenon, <3>2, <3>4
    <3>6. f[i].hole = d /\ f[i].heap = [f[c].heap EXCEPT ![i] = rest[c]] /\ rest[c] \in V
      BY <3>1, <3>5
    <3>7. f[i].heap \in Seq(V) /\ Len(f[i].heap) = L
          /\ \A k \in 1 .. L : f[i].heap[k] = IF k = i THEN rest[c] ELSE f[c].heap[k]
      BY <3>4, <3>6
    <3>8. f[i] \in [heap : Seq(V), hole : 1 .. L] /\ f[i].hole \in i .. L
      BY <3>1, <3>4, <3>5, <3>6, <3>7
    <3>9. PICK p \in Shuffles(L) : /\ p[d] = c
                                   /\ \A k \in DOMAIN rest : k # d => f[c].heap[k] = rest[p[k]]
                                   /\ \A k \in DOMAIN rest : k < c => p[k] = k
      BY <3>3 DEF Sunk
    <3>10. d \in 1 .. L /\ d > i /\ p \in [1 .. L -> 1 .. L] /\ p[i] = i
           /\ \A j, k \in 1 .. L : p[j] = p[k] => j = k
      BY <1>1, <3>1, <3>4, <3>9 DEF Shuffles
    <3> HIDE DEF d
    <3> DEFINE q == [k \in 1 .. L |-> IF k = i THEN c ELSE IF k = d THEN i ELSE p[k]]
    <3>11. q \in [1 .. L -> 1 .. L]
      BY <3>1, <3>10
    <3>12. \A j, k \in 1 .. L : q[j] = q[k] => j = k
      BY <3>1, <3>9, <3>10
    <3>13. q[d] = i /\ \A k \in 1 .. L : k < i => q[k] = k
      BY <1>1, <3>1, <3>9, <3>10
    <3>14. \A k \in 1 .. L : k # d => f[i].heap[k] = rest[q[k]]
      <4> TAKE k \in 1 .. L
      <4>1. CASE k = i
        <5>1. q[k] = c
          BY <4>1
        <5> HIDE DEF q
        <5> QED BY <3>7, <4>1, <5>1
      <4>2. CASE k # i /\ k # d
        <5>1. q[k] = p[k]
          BY <4>2
        <5> HIDE DEF q
        <5> QED BY <1>1, <3>7, <3>9, <4>2, <5>1
      <4> QED BY <4>1, <4>2
    <3>15. q \in Shuffles(L)
      BY <3>11, <3>12 DEF Shuffles
    <3> HIDE DEF q
    <3> QED BY Zenon, <1>1, <3>6, <3>7, <3>8, <3>13, <3>14, <3>15 DEF Sunk
  <2> QED BY <2>1, <2>2
<1>4. \A n \in Nat : (\A m \in Nat : m < n => m \in S) => n \in S
  <2> SUFFICES ASSUME NEW n \in Nat, \A m \in Nat : m < n => m \in S, n < L PROVE Good(L - n)
    OBVIOUS
  <2>1. L - n \in 1 .. L
    BY <1>1
  <2>2. ASSUME NEW j \in 1 .. L, j > L - n PROVE Good(j)
    <3>1. L - j \in Nat /\ L - j < n /\ L - j < L /\ L - (L - j) = j
      BY <1>1, <2>2
    <3> HIDE DEF Good
    <3> QED BY <3>1
  <2> HIDE DEF Good
  <2> QED BY <1>3, <2>1, <2>2
<1>5. Nat \subseteq S
  <2> HIDE DEF S
  <2> QED BY <1>4, Induction
<1>6. L - top \in Nat /\ L - top < L /\ L - (L - top) = top
  BY <1>1
<1>7. Good(top)
  <2> HIDE DEF Good
  <2> QED BY <1>5, <1>6
<1> QED BY <1>7

\* Where the messages of a queue come from after one is added, and after the top is taken.
Added(p, heap, value, new) ==
    /\ p \in Shuffles(Len(heap) + 1)
    /\ \A k \in 1 .. Len(heap) + 1 : new[k] = IF p[k] = Len(heap) + 1 THEN value ELSE heap[p[k]]
Left(p, heap, new) ==
    /\ p \in [1 .. Len(heap) - 1 -> 2 .. Len(heap)]
    /\ \A i, j \in 1 .. Len(heap) - 1 : p[i] = p[j] => i = j
    /\ \A k \in 1 .. Len(heap) - 1 : new[k] = heap[p[k]]

\* A queue keeps its messages when one is added, each of them once.
LEMMA Emplaced ==
    ASSUME NEW V, NEW heap \in Seq(V), NEW value \in V
    PROVE  /\ emplace(heap, value) \in Seq(V)
           /\ Len(emplace(heap, value)) = Len(heap) + 1
           /\ \E p : Added(p, heap, value, emplace(heap, value))
<1> DEFINE h == Append(heap, value)
           n == Len(heap) + 1
<1>1. h \in Seq(V) /\ Len(h) = n /\ DOMAIN h = 1 .. n /\ n \in DOMAIN h /\ \A k \in 1 .. n : k # n => h[k] = heap[k]
  OBVIOUS
<1>2. emplace(heap, value) = sift_up(h, n, value)
  BY DEF emplace
<1> HIDE DEF h, n
<1>3. sift_up(h, n, value) \in Seq(V) /\ Risen(sift_up(h, n, value), h, n, value)
  BY <1>1, SiftUp
<1>4. PICK p \in Shuffles(n) : \A k \in 1 .. n : sift_up(h, n, value)[k] = IF p[k] = n THEN value ELSE h[p[k]]
  BY <1>1, <1>3 DEF Risen
<1>5. \A k \in 1 .. n : p[k] \in 1 .. n
  BY DEF Shuffles
<1>6. \A k \in 1 .. n : sift_up(h, n, value)[k] = IF p[k] = n THEN value ELSE heap[p[k]]
  BY <1>1, <1>4, <1>5
<1>7. Len(sift_up(h, n, value)) = n
  BY <1>1, <1>3 DEF Risen
<1>8. Added(p, heap, value, emplace(heap, value))
  BY <1>2, <1>6 DEF n, Added
<1> QED BY <1>2, <1>3, <1>7, <1>8 DEF n

\* Taking the top leaves every other message, each of them once.
LEMMA Popped ==
    ASSUME NEW V, NEW heap \in Seq(V), heap # <<>>
    PROVE  /\ pop(heap) \in Seq(V)
           /\ Len(pop(heap)) = Len(heap) - 1
           /\ \E p : Left(p, heap, pop(heap))
<1> DEFINE n == Len(heap)
           value == heap[n]
           rest == SubSeq(heap, 1, n - 1)
<1>1. n \in Nat /\ n >= 1 /\ value \in V
  OBVIOUS
<1>2. rest \in Seq(V) /\ Len(rest) = n - 1 /\ DOMAIN rest = 1 .. n - 1 /\ \A k \in 1 .. n - 1 : rest[k] = heap[k]
  <2>1. 1 \in 1 .. n + 1 /\ n - 1 \in 0 .. n /\ \A k \in 1 .. n - 1 : 1 + k - 1 = k
    BY <1>1
  <2>2. \A k \in 1 .. n - 1 : k \in 1 .. n /\ heap[k] \in V
    BY <1>1
  <2>3. rest = [k \in 1 .. n - 1 |-> heap[k]]
    BY <1>1, <2>1
  <2> HIDE DEF n, rest
  <2> QED BY <1>1, <2>2, <2>3
<1>3. CASE n = 1
  <2>1. rest = <<>>
    BY <1>2, <1>3
  <2>2. pop(heap) = <<>>
    BY <2>1 DEF pop
  <2> DEFINE q == [k \in 1 .. 0 |-> 0]
  <2>3. n - 1 = 0 /\ 1 .. 0 = {} /\ q \in [1 .. 0 -> 2 .. n]
    BY <1>3
  <2>4. /\ \A i, j \in 1 .. n - 1 : q[i] = q[j] => i = j
        /\ \A k \in 1 .. n - 1 : pop(heap)[k] = heap[q[k]]
    BY Zenon, <2>3
  <2> HIDE DEF q
  <2>5. pop(heap) \in Seq(V) /\ Len(pop(heap)) = n - 1
    BY <2>2, <2>3
  <2> HIDE DEF n
  <2>6. Left(q, heap, pop(heap))
    BY Zenon, <2>3, <2>4 DEF n, Left
  <2> QED BY <2>5, <2>6 DEF n
<1>4. CASE n > 1
  <2>1. rest # <<>> /\ 1 \in DOMAIN rest
    <3> HIDE DEF n, rest
    <3>1. 1 \in 1 .. n - 1
      BY <1>1, <1>4
    <3> QED BY <1>2, <3>1
  <2>2. PICK f : IsSink(f, rest) /\ pop(heap) = sift_up(f[1].heap, f[1].hole, value)
    <3>1. PICK g : IsSink(g, rest)
      BY Zenon, <1>2, SinkExists
    <3> QED BY Zenon, <2>1, <3>1 DEF IsSink, pop
  <2> HIDE DEF value, rest
  <2> DEFINE L == Len(rest)
             h == f[1].heap
             d == f[1].hole
  <2>3. f[1] \in [heap : Seq(V), hole : 1 .. L] /\ Sunk(f[1], rest, 1)
    BY <1>2, <2>1, <2>2, Sink
  <2>4. h \in Seq(V) /\ d \in 1 .. L /\ Len(h) = L /\ DOMAIN h = 1 .. L /\ L = n - 1
    BY <1>2, <2>3 DEF Sunk
  <2>5. PICK s \in Shuffles(L) : s[d] = 1 /\ \A k \in 1 .. L : k # d => h[k] = rest[s[k]]
    BY Zenon, <1>2, <2>3 DEF Sunk
  <2> HIDE DEF h, d, L
  <2>6. sift_up(h, d, value) \in Seq(V) /\ Risen(sift_up(h, d, value), h, d, value)
    BY <1>1, <2>4, SiftUp
  <2>7. PICK r \in Shuffles(L) : \A k \in 1 .. L : sift_up(h, d, value)[k] = IF r[k] = d THEN value ELSE h[r[k]]
    BY Zenon, <2>4, <2>6 DEF Risen
  <2>8. /\ s \in [1 .. L -> 1 .. L] /\ \A i, j \in 1 .. L : s[i] = s[j] => i = j
        /\ r \in [1 .. L -> 1 .. L] /\ \A i, j \in 1 .. L : r[i] = r[j] => i = j
    BY DEF Shuffles
  <2> DEFINE q == [k \in 1 .. L |-> IF r[k] = d THEN n ELSE s[r[k]]]
  <2>9. q \in [1 .. L -> 2 .. n]
    <3> SUFFICES ASSUME NEW k \in 1 .. L, r[k] # d PROVE s[r[k]] \in 2 .. n
      BY <1>1, <1>4
    <3>1. s[r[k]] # 1
      BY Zenon, <2>4, <2>5, <2>8
    <3>2. r[k] \in 1 .. L /\ s[r[k]] \in 1 .. L
      BY <2>8
    <3> HIDE DEF n, q
    <3> QED BY <1>1, <2>4, <3>1, <3>2
  <2>10. \A i, j \in 1 .. L : q[i] = q[j] => i = j
    <3> SUFFICES ASSUME NEW i \in 1 .. L, NEW j \in 1 .. L, q[i] = q[j] PROVE r[i] = r[j]
      BY <2>8
    <3>1. \A k \in 1 .. L : s[r[k]] # n
      <4> TAKE k \in 1 .. L
      <4>1. r[k] \in 1 .. L /\ s[r[k]] \in 1 .. L
        BY Zenon, <2>8
      <4> HIDE DEF n, q
      <4> QED BY <1>1, <2>4, <4>1
    <3> QED BY Zenon, <2>8, <3>1
  <2>11. \A k \in 1 .. L : sift_up(h, d, value)[k] = heap[q[k]]
    <3> TAKE k \in 1 .. L
    <3>1. CASE r[k] = d
      BY <2>7, <3>1 DEF value
    <3>2. CASE r[k] # d
      <4>1. r[k] \in 1 .. L /\ s[r[k]] \in 1 .. n - 1 /\ q[k] = s[r[k]]
        BY Zenon, <2>4, <2>8, <3>2
      <4>2. h[r[k]] = rest[s[r[k]]] /\ rest[s[r[k]]] = heap[s[r[k]]]
        BY <1>2, <2>5, <3>2, <4>1
      <4> HIDE DEF q
      <4> QED BY <2>7, <3>2, <4>1, <4>2
    <3> QED BY <3>1, <3>2
  <2>12. Len(sift_up(h, d, value)) = n - 1 /\ L = n - 1
    BY Zenon, <2>4, <2>6 DEF Risen
  <2>13. pop(heap) = sift_up(h, d, value)
    BY <2>2 DEF h, d
  <2> HIDE DEF q, n
  <2>14. Left(q, heap, pop(heap))
    BY <2>9, <2>10, <2>11, <2>12, <2>13 DEF n, Left
  <2> QED BY <2>6, <2>12, <2>13, <2>14 DEF n
<1>5. n = 1 \/ n > 1
  <2> HIDE DEF n
  <2> QED BY <1>1
<1> QED BY <1>3, <1>4, <1>5

-----------------------------------------------------------------------------
(* The handshake completes once.                                           *)

\* The flags that the reader sets, and those that the strand sets.
InFlags == {"kVersionReceived", "kVerAckReceived"}
OutFlags == {"kVersionSent", "kVerAckSent"}

\* The strand sets the flags of what is sent and the reader those of what is received: what either
\* loaded lacks nothing that it sets itself, and holds nothing of the other that was lost since.
Shaking ==
    /\ reader.pc = "validate" => handshake \cap InFlags \subseteq reader.seen /\ reader.seen \cap OutFlags \subseteq handshake
    /\ job.pc = "validate" => handshake \cap OutFlags \subseteq job.seen /\ job.seen \cap InFlags \subseteq handshake
    /\ completions = IF handshake = kCompleted THEN 1 ELSE 0

\* A flag is one of those its direction sets.
LEMMA FlagSides ==
    ASSUME NEW type
    PROVE  Flag("out", type) \in OutFlags \cup {"none"} /\ Flag("in", type) \in InFlags \cup {"none"}
  BY DEF Flag, OutFlags, InFlags

\* A message that passes validation sets a flag that was not set, or none.
LEMMA ValidatedFlag ==
    ASSUME NEW seen, NEW direction, NEW type, validate(seen, direction, type) = "success"
    PROVE  Flag(direction, type) = "none" \/ Flag(direction, type) \notin seen
  BY DEF validate

\* The exchange of the status by the side that sets the flags `mine`, beside the one that sets `theirs`.
LEMMA Exchange ==
    ASSUME handshake \subseteq kCompleted, NEW seen \in SUBSET kCompleted, NEW flag,
           NEW mine, NEW theirs, (mine = InFlags /\ theirs = OutFlags) \/ (mine = OutFlags /\ theirs = InFlags),
           flag = "none" \/ (flag \in mine /\ flag \notin seen),
           handshake \cap mine \subseteq seen, seen \cap theirs \subseteq handshake,
           completions = IF handshake = kCompleted THEN 1 ELSE 0,
           exchange_status(seen, flag)
    PROVE  /\ handshake' \cap theirs \subseteq handshake
           /\ handshake \cap mine \subseteq handshake'
           /\ completions' = IF handshake' = kCompleted THEN 1 ELSE 0
<1>1. CASE flag = "none"
  BY <1>1 DEF exchange_status
<1>2. CASE flag # "none"
  <2>1. flag \in mine /\ flag \notin handshake /\ flag \notin theirs /\ flag \in kCompleted
    BY <1>2 DEF InFlags, OutFlags, kCompleted
  <2>2. completions = 0 /\ handshake' = seen \cup {flag}
    BY <1>2, <2>1 DEF exchange_status
  <2>3. completions' = IF handshake' = kCompleted THEN 1 ELSE 0
    BY <1>2, <2>2 DEF exchange_status
  <2> QED BY <2>1, <2>2, <2>3
<1> QED BY <1>1, <1>2

\* What the steps of the reader leave in it.
LEMMA ReaderFields ==
    ASSUME SessionTypes
    PROVE  /\ Idle.pc = "idle" /\ Idle.parsed = 0
           /\ NextMessage.pc = "next" /\ NextMessage.parsed = reader.parsed
           /\ \A pc \in {"verack", "notify"} : LET r == [reader EXCEPT !.pc = pc]
                 IN  r.pc = pc /\ r.message = reader.message /\ r.seen = reader.seen /\ r.parsed = reader.parsed
           /\ \A m : LET r == [reader EXCEPT !.pc = "validate", !.message = m, !.seen = handshake]
                 IN  r.pc = "validate" /\ r.message = m /\ r.seen = handshake /\ r.parsed = reader.parsed
           /\ LET r == [reader EXCEPT !.pc = "process", !.seen = {}, !.parsed = @ + 1]
              IN  r.pc = "process" /\ r.message = reader.message /\ r.parsed = reader.parsed + 1
  BY DEF SessionTypes, Idle, NextMessage

\* What a step does to the handshake, when it is not the exchange of the status: a handler may load it.
Loads ==
    /\ UNCHANGED <<handshake, completions>>
    /\ job' = job \/ job'.pc # "validate" \/ job'.seen = handshake
    /\ reader' = reader \/ reader'.pc # "validate" \/ reader'.seen = handshake

\* A step of that kind preserves the invariant.
LEMMA LoadsShaking == ASSUME Shaking, Loads PROVE Shaking'
  BY DEF Shaking, Loads

\* All steps but the two exchanges are of that kind.
LEMMA NextLoads ==
    ASSUME SessionTypes, [Next]_vars
    PROVE  \/ Loads
           \/ WriteMessage /\ exchange_status(job.seen, Flag("out", barrel.message.type))
              /\ validate(job.seen, "out", barrel.message.type) = "success" /\ job'.pc # "validate" /\ reader' = reader
           \/ AcceptMessage /\ exchange_status(reader.seen, Flag("in", reader.message.type))
              /\ validate(reader.seen, "in", reader.message.type) = "success" /\ reader'.pc # "validate" /\ job' = job
<1> USE ReaderFields DEF Loads, shaking, reading, finish
<1>0. Idle.pc # "validate"
  OBVIOUS
<1>1. CASE Start \/ HubStop \/ StrandStop \/ on_stop_completed
  BY <1>1 DEF Start, HubStop, StrandStop, on_stop_completed
<1>2. CASE start_ssl_handshake \/ start_read \/ WriteNothing \/ WriteRest
  BY Zenon, <1>0, <1>2 DEF start_ssl_handshake, start_read, WriteNothing, WriteRest
<1>3. CASE TakeMessage
  <2>1. job'.seen = handshake
    BY <1>3 DEF TakeMessage, Idle
  <2> QED BY <1>3, <2>1 DEF TakeMessage
<1>4. CASE WriteMessage
  BY <1>4 DEF WriteMessage
<1>5. CASE on_handshake_completed
  <2>1. [Idle EXCEPT !.pc = "completed"].pc = "completed"
    BY DEF Idle
  <2> QED BY Zenon, <1>0, <1>5, <2>1 DEF on_handshake_completed
<1>6. CASE StartPinging
  BY <1>6 DEF StartPinging
<1>7. CASE MalformedMessage
  BY <1>7 DEF MalformedMessage, give_up
<1>8. CASE AcceptMessage
  <2>1. CASE validate(reader.seen, "in", reader.message.type) = "success"
    <3>1. reader' = Idle \/ reader' = [reader EXCEPT !.pc = "process", !.seen = {}, !.parsed = @ + 1]
      BY <1>8, <2>1 DEF AcceptMessage, give_up
    <3>2. reader'.pc # "validate"
      BY Zenon, <3>1
    <3> QED BY <1>8, <2>1, <3>2 DEF AcceptMessage
  <2>2. CASE validate(reader.seen, "in", reader.message.type) # "success"
    BY <1>8, <2>2 DEF AcceptMessage, give_up
  <2> QED BY <2>1, <2>2
<1>9. CASE ProcessMessage
  <2>1. reader' = Idle \/ reader' = NextMessage
        \/ \E pc \in {"verack", "notify"} : reader' = [reader EXCEPT !.pc = pc]
    BY <1>9 DEF ProcessMessage, give_up
  <2>2. reader'.pc # "validate"
    BY Zenon, <2>1
  <2> QED BY <1>9, <2>2 DEF ProcessMessage
<1>10. CASE AcknowledgeVersion \/ NotifyHub \/ EndRead
  BY Zenon, <1>10 DEF AcknowledgeVersion, NotifyHub, EndRead
<1>11. CASE handle_ssl_handshake \/ PresentAfterTls \/ HandleWrite \/ ReadNothing \/ HubAnswer
  BY <1>11 DEF handle_ssl_handshake, PresentAfterTls, HandleWrite, ReadNothing, HubAnswer
<1>12. CASE PingTimerExpired \/ RecordNonce \/ UNCHANGED vars
  BY <1>12 DEF PingTimerExpired, RecordNonce, vars
<1>13. ASSUME NEW m \in Messages, ReadMessage(m) PROVE Loads
  BY <1>13 DEF ReadMessage
<1> QED BY <1>1, <1>2, <1>3, <1>4, <1>5, <1>6, <1>7, <1>8, <1>9, <1>10, <1>11, <1>12, <1>13
        DEF Next, StrandStep, ReaderStep

\* Every step keeps what the two sides loaded in line with the status.
LEMMA NextShaking == ASSUME SessionTypes, Shaking, [Next]_vars PROVE Shaking'
<1>1. CASE Loads
  BY <1>1, LoadsShaking
<1>2. CASE WriteMessage /\ exchange_status(job.seen, Flag("out", barrel.message.type))
           /\ validate(job.seen, "out", barrel.message.type) = "success" /\ job'.pc # "validate" /\ reader' = reader
  <2> DEFINE flag == Flag("out", barrel.message.type)
  <2>1. flag = "none" \/ (flag \in OutFlags /\ flag \notin job.seen)
    BY <1>2, FlagSides, ValidatedFlag
  <2>2. job.pc = "validate" /\ job.seen \in SUBSET kCompleted /\ handshake \subseteq kCompleted
    BY <1>2 DEF WriteMessage, SessionTypes
  <2> HIDE DEF flag
  <2>3. /\ handshake' \cap InFlags \subseteq handshake
        /\ handshake \cap OutFlags \subseteq handshake'
        /\ completions' = IF handshake' = kCompleted THEN 1 ELSE 0
    <3>1. exchange_status(job.seen, flag)
      BY <1>2 DEF flag
    <3>2. handshake \cap OutFlags \subseteq job.seen /\ job.seen \cap InFlags \subseteq handshake
          /\ completions = IF handshake = kCompleted THEN 1 ELSE 0
      BY <2>2 DEF Shaking
    <3> QED BY <2>1, <2>2, <3>1, <3>2, Exchange
  <2>4. reader.pc = "validate" => handshake \cap InFlags \subseteq reader.seen /\ reader.seen \cap OutFlags \subseteq handshake
    BY DEF Shaking
  <2> QED BY <1>2, <2>3, <2>4 DEF Shaking
<1>3. CASE AcceptMessage /\ exchange_status(reader.seen, Flag("in", reader.message.type))
           /\ validate(reader.seen, "in", reader.message.type) = "success" /\ reader'.pc # "validate" /\ job' = job
  <2> DEFINE flag == Flag("in", reader.message.type)
  <2>1. flag = "none" \/ (flag \in InFlags /\ flag \notin reader.seen)
    BY <1>3, FlagSides, ValidatedFlag
  <2>2. reader.pc = "validate" /\ reader.seen \in SUBSET kCompleted /\ handshake \subseteq kCompleted
    BY <1>3 DEF AcceptMessage, SessionTypes
  <2> HIDE DEF flag
  <2>3. /\ handshake' \cap OutFlags \subseteq handshake
        /\ handshake \cap InFlags \subseteq handshake'
        /\ completions' = IF handshake' = kCompleted THEN 1 ELSE 0
    <3>1. exchange_status(reader.seen, flag)
      BY <1>3 DEF flag
    <3>2. handshake \cap InFlags \subseteq reader.seen /\ reader.seen \cap OutFlags \subseteq handshake
          /\ completions = IF handshake = kCompleted THEN 1 ELSE 0
      BY <2>2 DEF Shaking
    <3> QED BY <2>1, <2>2, <3>1, <3>2, Exchange
  <2>4. job.pc = "validate" => handshake \cap OutFlags \subseteq job.seen /\ job.seen \cap InFlags \subseteq handshake
    BY DEF Shaking
  <2> QED BY <1>3, <2>3, <2>4 DEF Shaking
<1> QED BY <1>1, <1>2, <1>3, NextLoads

\* on_handshake_completed is reached once and only for a complete handshake, although the reader and
\* the strand each load the status, validate and exchange it in separate steps (node.cpp, parse_messages
\* and start_write).
THEOREM HandshakeCompletesOnce == Spec => []CompletedOnce
<1>1. Init => Shaking
  BY DEF Init, Shaking, Idle, kCompleted
<1>2. IInv /\ Shaking /\ [Next]_vars => Shaking'
  BY NextShaking DEF IInv
<1>3. Shaking => CompletedOnce
  BY DEF Shaking, CompletedOnce
<1> QED BY <1>1, <1>2, <1>3, SessionInvariant, PTL DEF Spec

-----------------------------------------------------------------------------
(* Types.                                                                  *)

\* What TypeOK adds to the types of the session's operations.
Sizes ==
    /\ connection \in [type : Connections, transport : Transports]
    /\ tls \in {"none", "pending", "secured"}
    /\ reader.parsed <= kMaxMessagesPerRead
    /\ accepted \subseteq kCompleted
    /\ queue \in Seq(Items) /\ barrel.message \in Items
    /\ completions \in Nat /\ getaddrs \in Nat
    /\ pinger \in 0..MaxPings /\ pings \in 0..MaxPings /\ arrivals \in 0..MaxReceived
Booleans ==
    /\ is_open \in BOOLEAN /\ is_writing \in BOOLEAN /\ timer \in BOOLEAN
    /\ barrel \in [message : Items, rest : BOOLEAN]
    /\ ping \in [pending : BOOLEAN, nonce : 0..MaxPings]

\* What the node queues is a message.
LEMMA MessageItems ==
    /\ \A t \in MessageTypes : \A p \in {kHigh, kNormal} : Message(t, p) \in Items
    /\ \A t \in {"ping", "pong"} : \A n \in 0..MaxPings : PingPong(t, n) \in Items
    /\ NoMessage \in Items
  BY SessionAssumption DEF Message, PingPong, NoMessage, Items, MessageTypes, kHigh, kNormal

\* Pushing one of them, or none, keeps the queue a queue of messages.
LEMMA PushType ==
    ASSUME queue \in Seq(Items), NEW messages, messages = <<>> \/ \E m \in Items : messages = <<m>>,
           push_message(messages)
    PROVE  queue' \in Seq(Items)
<1>1. CASE messages = <<>>
  BY <1>1 DEF push_message
<1>2. ASSUME NEW m \in Items, messages = <<m>> PROVE queue' \in Seq(Items)
  <2>1. queue' = emplace(queue, m)
    BY <1>2 DEF push_message
  <2> QED BY <2>1, Emplaced
<1> QED BY <1>1, <1>2

\* The exchange of the status keeps the types of what it changes.
LEMMA ExchangeTypes ==
    ASSUME Sizes, NEW seen, NEW direction, NEW type, exchange_status(seen, Flag(direction, type))
    PROVE  accepted' \subseteq kCompleted /\ completions' \in Nat
<1>1. Flag(direction, type) \in kCompleted \cup {"none"}
  BY FlagType
<1> QED BY <1>1 DEF exchange_status, Sizes

\* Every step keeps the ranges of what is counted and queued.
LEMMA NextSizes == ASSUME SessionTypes, Sizes, [Next]_vars PROVE Sizes'
<1> USE DEF writing, reading, pinging, shaking
<1>k. kMaxMessagesPerRead \in Nat /\ MaxPings \in Nat /\ MaxReceived \in Nat /\ Idle.parsed = 0
      /\ NextMessage.parsed = reader.parsed
  BY SessionAssumption, ReaderFields
<1>1. CASE Start
  <2>1. queue' \in Seq(Items)
    <3>1. Message("version", kNormal) \in Items /\ queue \in Seq(Items)
      BY MessageItems DEF Sizes, MessageTypes
    <3>2. emplace(queue, Message("version", kNormal)) \in Seq(Items)
      BY <3>1, Emplaced
    <3> QED BY <1>1, <3>1, <3>2 DEF Start
  <2> QED BY <1>1, <2>1 DEF Start, Sizes
<1>2. CASE HubStop \/ StrandStop \/ on_stop_completed \/ start_read \/ WriteNothing
  BY <1>2 DEF HubStop, StrandStop, on_stop_completed, start_read, WriteNothing, Sizes
<1>3. CASE start_ssl_handshake \/ handle_ssl_handshake \/ HandleWrite \/ ReadNothing \/ RecordNonce \/ UNCHANGED vars
  BY <1>3, <1>k DEF start_ssl_handshake, handle_ssl_handshake, HandleWrite, ReadNothing, RecordNonce, vars, Sizes
<1>4. CASE PresentAfterTls
  <2>1. queue' \in Seq(Items)
    BY <1>4, MessageItems, PushType DEF PresentAfterTls, Sizes, MessageTypes
  <2> QED BY <1>4, <2>1 DEF PresentAfterTls, Sizes
<1>5. CASE WriteRest
  <2>1. barrel'.message \in Items
    BY <1>5, MessageItems DEF WriteRest, begin_write, EmptyBarrel
  <2> QED BY <1>5, <2>1 DEF WriteRest, Sizes
<1>6. CASE TakeMessage
  <2>1. queue # <<>> /\ queue \in Seq(Items) /\ Head(queue) \in Items
    BY <1>6 DEF TakeMessage, Sizes
  <2>2. queue' \in Seq(Items)
    BY <1>6, <2>1, Popped DEF TakeMessage
  <2>3. barrel'.message \in Items
    BY <1>6, <2>1 DEF TakeMessage
  <2> QED BY <1>6, <2>2, <2>3 DEF TakeMessage, Sizes
<1>7. CASE WriteMessage
  <2>1. barrel'.message \in Items
    BY <1>7, MessageItems DEF WriteMessage, begin_write, EmptyBarrel, Sizes
  <2>2. accepted' \subseteq kCompleted /\ completions' \in Nat
    BY <1>7, ExchangeTypes DEF WriteMessage, Sizes
  <2> QED BY <1>7, <2>1, <2>2 DEF WriteMessage, Sizes
<1>8. CASE on_handshake_completed
  <2>1. pings' \in 0..MaxPings
    BY <1>8, <1>k DEF on_handshake_completed, may_ping, Sizes
  <2>2. queue' \in Seq(Items)
    <3>1. CASE may_ping /\ push_message(<<PingPong("ping", pings + 1)>>)
      <4>1. pings + 1 \in 0..MaxPings
        BY <1>k, <3>1 DEF may_ping, Sizes
      <4>2. PingPong("ping", pings + 1) \in Items
        BY <4>1, MessageItems
      <4> QED BY <3>1, <4>2, PushType DEF Sizes
    <3>2. CASE UNCHANGED queue
      BY <3>2 DEF Sizes
    <3> QED BY <1>8, <3>1, <3>2 DEF on_handshake_completed
  <2> QED BY <1>8, <2>1, <2>2 DEF on_handshake_completed, Sizes
<1>9. CASE StartPinging
  <2>1. queue' \in Seq(Items)
    BY <1>9, MessageItems, Emplaced DEF StartPinging, Sizes, MessageTypes
  <2> QED BY <1>9, <2>1 DEF StartPinging, Sizes
<1>10. CASE MalformedMessage \/ EndRead
  <2>1. reader'.parsed = 0
    BY <1>10, <1>k DEF MalformedMessage, EndRead, give_up
  <2> QED BY <1>10, <1>k, <2>1 DEF MalformedMessage, EndRead, Sizes
<1>11. CASE AcceptMessage
  <2>1. accepted' \subseteq kCompleted /\ completions' \in Nat
    BY <1>11, ExchangeTypes DEF AcceptMessage, Sizes
  <2>2. reader'.parsed <= kMaxMessagesPerRead
    <3>1. CASE reader' = Idle
      BY <1>k, <3>1
    <3>2. CASE ~flooded(reader.parsed) /\ reader' = [reader EXCEPT !.pc = "process", !.seen = {}, !.parsed = @ + 1]
      <4>1. reader'.parsed = reader.parsed + 1 /\ reader.parsed \in Nat
        BY <3>2, ReaderFields DEF SessionTypes
      <4> QED BY <1>k, <3>2, <4>1 DEF flooded
    <3> QED BY <1>11, <3>1, <3>2 DEF AcceptMessage, give_up
  <2> QED BY <1>11, <2>1, <2>2 DEF AcceptMessage, Sizes
<1>12. CASE ProcessMessage
  <2>1. queue' \in Seq(Items)
    <3>1. CASE push_message(answer(reader.message))
      <4>1. reader.message \in Items
        BY DEF SessionTypes
      <4>2. reader.message.nonce \in 0..MaxPings
        BY <4>1 DEF Items
      <4>3. answer(reader.message) = <<>> \/ \E m \in Items : answer(reader.message) = <<m>>
        BY <4>2, MessageItems DEF answer, MessageTypes
      <4> QED BY <3>1, <4>3, PushType DEF Sizes
    <3>2. CASE UNCHANGED queue
      BY <3>2 DEF Sizes
    <3> QED BY <1>12, <3>1, <3>2 DEF ProcessMessage
  <2>2. reader' = Idle \/ reader' = NextMessage
        \/ \E pc \in {"verack", "notify"} : reader' = [reader EXCEPT !.pc = pc]
    BY <1>12 DEF ProcessMessage, give_up
  <2>3. reader'.parsed = 0 \/ reader'.parsed = reader.parsed
    BY ZenonT(30), <2>2, ReaderFields
  <2>4. reader'.parsed <= kMaxMessagesPerRead
    BY <1>k, <2>3 DEF Sizes
  <2> QED BY Zenon, <1>12, <2>1, <2>4 DEF ProcessMessage, Sizes
<1>13. CASE AcknowledgeVersion
  <2>1. queue' \in Seq(Items)
    BY <1>13, MessageItems, PushType DEF AcknowledgeVersion, Sizes, MessageTypes
  <2>2. reader'.parsed = reader.parsed
    BY <1>13, ReaderFields DEF AcknowledgeVersion
  <2> QED BY <1>13, <2>1, <2>2 DEF AcknowledgeVersion, Sizes
<1>14. CASE NotifyHub
  <2>1. queue' \in Seq(Items)
    BY <1>14, MessageItems, PushType DEF NotifyHub, Sizes, MessageTypes
  <2>2. reader'.parsed = reader.parsed /\ getaddrs' \in Nat
    BY <1>14, <1>k DEF NotifyHub, Sizes
  <2> QED BY <1>14, <2>1, <2>2 DEF NotifyHub, Sizes
<1>15. CASE HubAnswer
  <2>1. queue' \in Seq(Items)
    BY <1>15, MessageItems, PushType DEF HubAnswer, Sizes, MessageTypes
  <2> QED BY <1>15, <2>1 DEF HubAnswer, Sizes
<1>16. CASE PingTimerExpired
  <2>1. pings + 1 \in 0..MaxPings
    BY <1>16, <1>k DEF PingTimerExpired, may_ping, Sizes
  <2>2. PingPong("ping", pings + 1) \in Items
    BY <2>1, MessageItems
  <2>3. queue' \in Seq(Items)
    BY <1>16, <2>2, PushType DEF PingTimerExpired, Sizes
  <2> QED BY <1>16, <2>1, <2>3 DEF PingTimerExpired, Sizes
<1>17. ASSUME NEW m \in Messages, ReadMessage(m) PROVE Sizes'
  <2>1. arrivals' \in 0..MaxReceived
    BY <1>17, <1>k DEF ReadMessage, PeerSends, Sizes
  <2>2. reader'.parsed = reader.parsed
    BY <1>17, ReaderFields DEF ReadMessage
  <2> QED BY <1>17, <2>1, <2>2 DEF ReadMessage, Sizes
<1> QED
  <2> HIDE DEF writing, reading, pinging, shaking
  <2> QED BY <1>1, <1>2, <1>3, <1>4, <1>5, <1>6, <1>7, <1>8, <1>9, <1>10, <1>11, <1>12, <1>13, <1>14, <1>15, <1>16,
             <1>17
          DEF Next, StrandStep, ReaderStep

\* Every step keeps the conditions Boolean.
LEMMA NextBooleans == ASSUME SessionTypes, Sizes, Booleans, [Next]_vars PROVE Booleans'
<1> USE DEF writing, reading, pinging, shaking, ending
<1>1. EmptyBarrel \in [message : Items, rest : BOOLEAN]
  BY MessageItems DEF EmptyBarrel
<1>2. \A m \in Items : \A b \in BOOLEAN : [message |-> m, rest |-> b] \in [message : Items, rest : BOOLEAN]
  OBVIOUS
<1>3. barrel.message \in Items
  BY DEF Sizes
<1>4. is_open' \in BOOLEAN
  <2>1. is_open' = is_open \/ is_open' = FALSE
    BY Zenon DEF Next, StrandStep, ReaderStep, Start, HubStop, StrandStop, on_stop_completed, start_read, WriteNothing,
           start_ssl_handshake, handle_ssl_handshake, HandleWrite, ReadNothing, RecordNonce, vars, PresentAfterTls,
           WriteRest, TakeMessage, WriteMessage, on_handshake_completed, StartPinging, MalformedMessage, EndRead,
           AcceptMessage, ProcessMessage, AcknowledgeVersion, NotifyHub, HubAnswer, PingTimerExpired, ReadMessage
  <2> QED BY Zenon, <2>1 DEF Booleans
<1>5. is_writing' \in BOOLEAN
  <2>1. is_writing' = is_writing \/ is_writing' = FALSE \/ is_writing' = TRUE
    BY Zenon DEF Next, StrandStep, ReaderStep, Start, HubStop, StrandStop, on_stop_completed, start_read, WriteNothing,
           start_ssl_handshake, handle_ssl_handshake, HandleWrite, ReadNothing, RecordNonce, vars, PresentAfterTls,
           WriteRest, TakeMessage, WriteMessage, on_handshake_completed, StartPinging, MalformedMessage, EndRead,
           AcceptMessage, ProcessMessage, AcknowledgeVersion, NotifyHub, HubAnswer, PingTimerExpired, ReadMessage
  <2> QED BY Zenon, <2>1 DEF Booleans
<1>6. timer' \in BOOLEAN
  <2>1. timer' = timer \/ timer' = (timer /\ ~is_running) \/ timer' = TRUE
    BY Zenon DEF Next, StrandStep, ReaderStep, Start, HubStop, StrandStop, on_stop_completed, start_read, WriteNothing,
           start_ssl_handshake, handle_ssl_handshake, HandleWrite, ReadNothing, RecordNonce, vars, PresentAfterTls,
           WriteRest, TakeMessage, WriteMessage, on_handshake_completed, StartPinging, MalformedMessage, EndRead,
           AcceptMessage, ProcessMessage, AcknowledgeVersion, NotifyHub, HubAnswer, PingTimerExpired, ReadMessage,
           stopped_timer
  <2> QED BY Zenon, <2>1 DEF Booleans
<1>7. barrel' \in [message : Items, rest : BOOLEAN]
  <2>1. \/ barrel' = barrel \/ barrel' = EmptyBarrel
        \/ \E m : \E b \in BOOLEAN : (m = barrel.message \/ (queue # <<>> /\ m = Head(queue))) /\ barrel' = [message |-> m, rest |-> b]
    BY Zenon DEF Next, StrandStep, ReaderStep, Start, HubStop, StrandStop, on_stop_completed, start_read, WriteNothing,
           start_ssl_handshake, handle_ssl_handshake, HandleWrite, ReadNothing, RecordNonce, vars, PresentAfterTls,
           WriteRest, TakeMessage, WriteMessage, on_handshake_completed, StartPinging, MalformedMessage, EndRead,
           AcceptMessage, ProcessMessage, AcknowledgeVersion, NotifyHub, HubAnswer, PingTimerExpired, ReadMessage,
           begin_write
  <2>2. queue # <<>> => Head(queue) \in Items
    BY DEF Sizes
  <2> QED BY <1>1, <1>2, <1>3, <2>1, <2>2 DEF Booleans
<1>8. ping' \in [pending : BOOLEAN, nonce : 0..MaxPings]
  <2>1. \/ ping' = ping \/ ping' = [ping EXCEPT !.pending = TRUE] \/ ping' = [pending |-> FALSE, nonce |-> 0]
        \/ \E n : ping' = [ping EXCEPT !.nonce = n] /\ (n = pinger \/ (n = pings + 1 /\ may_ping))
    BY Zenon DEF Next, StrandStep, ReaderStep, Start, HubStop, StrandStop, on_stop_completed, start_read, WriteNothing,
           start_ssl_handshake, handle_ssl_handshake, HandleWrite, ReadNothing, RecordNonce, vars, PresentAfterTls,
           WriteRest, TakeMessage, WriteMessage, on_handshake_completed, StartPinging, MalformedMessage, EndRead,
           AcceptMessage, ProcessMessage, AcknowledgeVersion, NotifyHub, HubAnswer, PingTimerExpired, ReadMessage
  <2>2. pinger \in 0..MaxPings /\ (may_ping => pings + 1 \in 0..MaxPings) /\ 0 \in 0..MaxPings
    BY SessionAssumption DEF Sizes, may_ping
  <2>3. ping \in [pending : BOOLEAN, nonce : 0..MaxPings]
    BY DEF Booleans
  <2>4. \A n \in 0..MaxPings : [ping EXCEPT !.nonce = n] \in [pending : BOOLEAN, nonce : 0..MaxPings]
    BY <2>3
  <2>5. [ping EXCEPT !.pending = TRUE] \in [pending : BOOLEAN, nonce : 0..MaxPings]
    BY Zenon, <2>3
  <2>6. [pending |-> FALSE, nonce |-> 0] \in [pending : BOOLEAN, nonce : 0..MaxPings]
    BY <2>2
  <2> QED BY Zenon, <2>1, <2>2, <2>3, <2>4, <2>5, <2>6
<1> QED BY <1>4, <1>5, <1>6, <1>7, <1>8 DEF Booleans

\* A session that was only constructed has these types.
LEMMA InitSizes == Init => Sizes
  BY SessionAssumption, MessageItems DEF Init, Sizes, Idle, EmptyBarrel

\* Every variable of a session keeps its type: no count leaves its bound, nothing but messages is queued.
THEOREM SessionTypeCorrect == Spec => []TypeOK
<1>1. Init => Sizes
  BY InitSizes
<1>2. Init => Booleans
  <2>1. EmptyBarrel \in [message : Items, rest : BOOLEAN]
    BY MessageItems DEF EmptyBarrel
  <2>2. 0 \in 0..MaxPings
    BY SessionAssumption
  <2>3. [pending |-> FALSE, nonce |-> 0] \in [pending : BOOLEAN, nonce : 0..MaxPings]
    BY <2>2
  <2> QED BY Zenon, <2>1, <2>3 DEF Init, Booleans
<1>3. IInv /\ Sizes /\ Booleans /\ [Next]_vars => (Sizes /\ Booleans)'
  BY NextSizes, NextBooleans DEF IInv
<1>4. SessionTypes /\ Sizes /\ Booleans => TypeOK
  <2> SUFFICES ASSUME SessionTypes, Sizes, Booleans PROVE TypeOK
    OBVIOUS
  <2>1. reader \in [pc : {"idle", "validate", "process", "verack", "notify", "next"}, message : Items,
                    seen : SUBSET kCompleted, parsed : 0..kMaxMessagesPerRead]
    BY SessionAssumption DEF SessionTypes, Sizes
  <2>2. {writes, reads, disconnects, completions, getaddrs, requests} \subseteq Nat
    BY DEF SessionTypes, Sizes
  <2> QED BY <2>1, <2>2 DEF SessionTypes, Sizes, Booleans, TypeOK
<1>5. IInv /\ Sizes /\ Booleans => TypeOK
  BY <1>4 DEF IInv
<1> QED BY <1>1, <1>2, <1>3, <1>5, SessionInvariant, PTL DEF Spec

-----------------------------------------------------------------------------
(* The exchange of the versions with a peer that keeps to the protocol.    *)
(* Whether a message passes validation depends on flags that the reader    *)
(* and the strand load and set in separate steps, and on the order of the  *)
(* queue: the invariant says what was sent and received, what is queued,   *)
(* taken or being checked, and which flags follow from it.                 *)

\* A session we were called for.
Inbound == connection.type = "kInbound"

\* The types a queued message can have.
Types == MessageTypes \cup {"none"}

\* Messages of ours that are queued, and the one that is being validated.
Queued(t) == \E i \in DOMAIN queue : queue[i].type = t
QueuedOnce(t) == \A i, j \in DOMAIN queue : queue[i].type = t /\ queue[j].type = t => i = j
Taken(t) == job.pc = "validate" /\ barrel.message.type = t

\* The message of the peer that is being validated.
Checking(t) == reader.pc = "validate" /\ reader.message.type = t

\* Our version was sent; the peer's was accepted; the peer's was answered.
Known == Knows("version")
Met == Said("version") /\ ~Checking("version")
Heard == Said("version") /\ ~(reader.pc \in {"validate", "process"} /\ reader.message.type = "version")

\* A job that is posted.
OnStrand(x) == \E i \in DOMAIN strand : strand[i] = x

\* What the peer sent, and when.
InTurn ==
    /\ received \subseteq Messages /\ ~Said("badversion")
    /\ ~Met => reader.parsed = 0
    /\ reader.pc \in {"validate", "process", "verack", "notify"} => reader.message \in received
    /\ reader.pc = "verack" => reader.message.type = "version"
    /\ Said("version") => Inbound \/ Known
    /\ \A m \in received : m.type # "version" => Known /\ Heard
    /\ \A m \in sent : m.type \notin {"version", "verack"} => Known /\ Heard

\* The flags of the two versions are never lost, in the status or in what a handler loaded of it.
VersionFlags ==
    /\ "kVersionSent" \in handshake <=> Known
    /\ reader.pc = "validate" => ("kVersionSent" \in reader.seen <=> Known)
    /\ job.pc = "validate" => ("kVersionSent" \in job.seen <=> Known)
    /\ "kVersionReceived" \in handshake <=> Met
    /\ reader.pc = "validate" => ("kVersionReceived" \in reader.seen <=> Met)
    /\ job.pc = "validate" => ("kVersionReceived" \in job.seen <=> Met)

\* Nothing is queued before the peer is heard, but the version of the node that calls.
Silence ==
    /\ ~Heard /\ (Inbound \/ Known) => queue = <<>> /\ job.pc # "validate"
    /\ ~Known => sent = {}
    /\ ~Heard /\ Inbound => ~Known

\* What the node that was called answers with.
OurVersion == Message("version", kHigh)
OurVerack == Message("verack", kHigh)

\* The node that was called presents itself before anything else it queues.
Answering ==
    Inbound /\ Heard /\ ~Known =>
        \/ reader.pc = "verack" /\ queue = <<OurVersion>> /\ job.pc # "validate"
        \/ reader.pc = "verack" /\ queue = <<>> /\ Taken("version")
        \/ reader.pc # "verack" /\ queue = <<OurVersion, OurVerack>> /\ job.pc # "validate"
        \/ reader.pc # "verack" /\ queue = <<OurVerack>> /\ Taken("version")

\* The version is presented once.
Presented ==
    /\ QueuedOnce("version")
    /\ Queued("version") => ~Taken("version") /\ ~Known
    /\ Taken("version") => ~Known
    /\ ~Inbound /\ (OnStrand("start_ssl_handshake") \/ tls # "none") =>
          ~Queued("version") /\ ~Taken("version") /\ ~Known
    /\ tls # "none" => ~OnStrand("start_ssl_handshake")
    /\ tls = "secured" => ~Inbound
    /\ ~Inbound /\ ~Known => (\A t \in Types : Queued(t) => t = "version") /\ (job.pc = "validate" => Taken("version"))

\* The verack for the peer's version has yet to be queued.
AckDue == ~Said("version") \/ (reader.pc \in {"validate", "process", "verack"} /\ reader.message.type = "version")
AckUnsent ==
    /\ "kVerAckSent" \notin handshake
    /\ job.pc = "validate" => "kVerAckSent" \notin job.seen
    /\ reader.pc = "validate" => "kVerAckSent" \notin reader.seen

\* The version of the peer is acknowledged once.
Acknowledged ==
    /\ AckDue \/ Queued("verack") \/ Taken("verack") => AckUnsent
    /\ AckDue => ~Queued("verack") /\ ~Taken("verack")
    /\ Queued("verack") => ~Taken("verack")
    /\ QueuedOnce("verack")

\* The verack of the peer is accepted once.
AckAccepted ==
    /\ "kVerAckReceived" \in handshake \/ (job.pc = "validate" /\ "kVerAckReceived" \in job.seen)
          => Said("verack") /\ ~Checking("verack")
    /\ reader.pc = "validate" /\ "kVerAckReceived" \in reader.seen => Said("verack")
    /\ Checking("verack") => "kVerAckReceived" \notin reader.seen

\* Everything else comes after the exchange of the versions.
Later ==
    /\ \A t \in Types : Queued(t) /\ t \notin {"version", "verack"} => Known /\ Heard /\ t # "badversion"
    /\ job.pc = "validate" /\ ~Taken("version") /\ ~Taken("verack") => Known /\ Heard /\ ~Taken("badversion")
    /\ OnStrand("on_handshake_completed") \/ job.pc = "completed" \/ timer \/ requests > 0 => Known /\ Heard
    /\ barrel.rest => barrel.message.type = "addr" /\ Known /\ Heard

\* Nothing passed before Node::start.
Untouched == status = "kNotStarted" /\ disconnects = 0 => sent = {} /\ received = {}

\* The invariant of a session with a conforming peer.
Courteous ==
    /\ InTurn /\ VersionFlags /\ Silence /\ Answering /\ Presented /\ Acknowledged /\ AckAccepted /\ Later
    /\ fault \notin {"kInvalidProtocolHandShake", "kDuplicateProtocolHandShake"}

-----------------------------------------------------------------------------
\* A message that is queued: it is the only new one.
LEMMA PushedTypes ==
    ASSUME queue \in Seq(Items), NEW m \in Items, queue' = emplace(queue, m)
    PROVE  /\ \A t : Queued(t)' => Queued(t) \/ t = m.type
           /\ \A t : QueuedOnce(t) /\ t # m.type => QueuedOnce(t)'
           /\ ~Queued(m.type) => QueuedOnce(m.type)'
<1> DEFINE n == Len(queue)
<1>1. n \in Nat /\ DOMAIN queue = 1 .. n
  OBVIOUS
<1>2. queue' \in Seq(Items) /\ Len(queue') = n + 1
  BY Emplaced
<1>a. PICK p : Added(p, queue, m, queue')
  BY Emplaced
<1>3. p \in Shuffles(n + 1) /\ \A k \in 1 .. n + 1 : queue'[k] = IF p[k] = n + 1 THEN m ELSE queue[p[k]]
  BY <1>a DEF Added
<1>4. DOMAIN queue' = 1 .. n + 1
  BY <1>2
<1>5. /\ \A k \in 1 .. n + 1 : p[k] \in 1 .. n + 1
      /\ \A i, j \in 1 .. n + 1 : p[i] = p[j] => i = j
  BY <1>3 DEF Shuffles
<1> HIDE DEF n
<1>6. \A k \in DOMAIN queue' : (p[k] = n + 1 /\ queue'[k] = m) \/ (p[k] \in DOMAIN queue /\ queue'[k] = queue[p[k]])
  BY <1>1, <1>3, <1>4, <1>5
<1>7. \A i, j \in DOMAIN queue' : p[i] = p[j] => i = j
  BY <1>4, <1>5
<1>8. \A t : Queued(t)' => Queued(t) \/ t = m.type
  BY <1>6 DEF Queued
<1>9. \A t : QueuedOnce(t) /\ t # m.type => QueuedOnce(t)'
  BY <1>6, <1>7 DEF QueuedOnce
<1>10. ~Queued(m.type) => QueuedOnce(m.type)'
  BY <1>6, <1>7 DEF Queued, QueuedOnce
<1> QED BY <1>8, <1>9, <1>10

\* The top of the queue is taken: the rest stays.
LEMMA PoppedTypes ==
    ASSUME queue \in Seq(Items), queue # <<>>, queue' = pop(queue)
    PROVE  /\ \A t : Queued(t)' => Queued(t)
           /\ \A t : QueuedOnce(t) => QueuedOnce(t)'
           /\ Queued(Head(queue).type) /\ Head(queue).type \in Types
           /\ \A t : t = Head(queue).type /\ QueuedOnce(t) => ~Queued(t)'
<1> DEFINE n == Len(queue)
<1>1. n \in Nat /\ DOMAIN queue = 1 .. n /\ n >= 1 /\ Head(queue) = queue[1] /\ Head(queue) \in Items
  OBVIOUS
<1>2. queue' \in Seq(Items) /\ Len(queue') = n - 1
  BY Popped
<1>a. PICK p : Left(p, queue, queue')
  BY Popped
<1>3. /\ p \in [1 .. n - 1 -> 2 .. n]
      /\ \A i, j \in 1 .. n - 1 : p[i] = p[j] => i = j
      /\ \A k \in 1 .. n - 1 : queue'[k] = queue[p[k]]
  BY <1>a DEF Left
<1>4. DOMAIN queue' = 1 .. n - 1
  BY <1>1, <1>2
<1> HIDE DEF n
<1>5. \A k \in DOMAIN queue' : p[k] \in DOMAIN queue /\ p[k] # 1 /\ queue'[k] = queue[p[k]]
  BY <1>1, <1>3, <1>4
<1>6. \A i, j \in DOMAIN queue' : p[i] = p[j] => i = j
  BY <1>3, <1>4
<1>7. \A t : Queued(t)' => Queued(t)
  BY <1>5 DEF Queued
<1>8. \A t : QueuedOnce(t) => QueuedOnce(t)'
  BY <1>5, <1>6 DEF QueuedOnce
<1>9. Queued(Head(queue).type) /\ Head(queue).type \in Types
  BY <1>1 DEF Queued, Items, Types
<1>10. \A t : t = Head(queue).type /\ QueuedOnce(t) => ~Queued(t)'
  BY <1>1, <1>5 DEF Queued, QueuedOnce
<1> QED BY <1>7, <1>8, <1>9, <1>10

\* A queue that holds nothing of any type is empty.
LEMMA NothingQueued ==
    ASSUME queue \in Seq(Items), \A t \in Types : ~Queued(t) PROVE queue = <<>>
<1> SUFFICES ASSUME queue # <<>> PROVE FALSE
  OBVIOUS
<1>1. 1 \in DOMAIN queue /\ queue[1] \in Items
  OBVIOUS
<1> QED BY <1>1 DEF Queued, Items, Types

\* The first message of a queue.
LEMMA EmplaceFirst == ASSUME NEW m \in Items PROVE emplace(<<>>, m) = <<m>>
<1> DEFINE q == <<m>>
<1>1. q \in Seq(Items) /\ 1 \in DOMAIN q /\ [q EXCEPT ![1] = m] = q
  OBVIOUS
<1>2. emplace(<<>>, m) = sift_up(q, 1, m)
  BY DEF emplace
<1> HIDE DEF q
<1>3. PICK f : IsRise(f, q, m) /\ sift_up(q, 1, m) = f[1]
  BY <1>1, RiseDef
<1>4. f[1] = [q EXCEPT ![1] = m]
  BY <1>1, <1>3 DEF IsRise
<1>5. emplace(<<>>, m) = q
  BY <1>1, <1>2, <1>3, <1>4
<1> QED BY <1>5 DEF q

\* A second one of the same priority comes after the first.
LEMMA EmplaceSecond ==
    ASSUME NEW v \in Items, NEW m \in Items, v.priority = m.priority PROVE emplace(<<v>>, m) = <<v, m>>
<1> DEFINE q == <<v, m>>
<1>1. q \in Seq(Items) /\ 2 \in DOMAIN q /\ [q EXCEPT ![2] = m] = q /\ q[1] = v
  OBVIOUS
<1>2. emplace(<<v>>, m) = sift_up(q, 2, m)
  <2>1. Append(<<v>>, m) = q
    <3>1. Append(<<v>>, m) = [i \in 1 .. 2 |-> IF i = 1 THEN v ELSE m]
      OBVIOUS
    <3>2. q = [i \in 1 .. 2 |-> IF i = 1 THEN v ELSE m]
      OBVIOUS
    <3> QED BY Zenon, <3>1, <3>2
  <2>2. Len(<<v>>) + 1 = 2
    OBVIOUS
  <2> HIDE DEF q
  <2> QED BY Zenon, <2>1, <2>2 DEF emplace
<1>4. ~Less(v, m)
  <2>1. v.priority \in {0, 1} /\ m.priority \in {0, 1}
    BY DEF Items, kHigh, kNormal
  <2>2. \A x \in {0, 1} : ~(x < x)
    OBVIOUS
  <2> QED BY <2>1, <2>2 DEF Less
<1>5. 2 \div 2 = 1
  OBVIOUS
<1> HIDE DEF q
<1>6. PICK f : IsRise(f, q, m) /\ sift_up(q, 2, m) = f[2]
  BY <1>1, RiseDef
<1>7. f[2] = [q EXCEPT ![2] = m]
  BY <1>1, <1>4, <1>5, <1>6 DEF IsRise
<1>8. emplace(<<v>>, m) = q
  BY <1>1, <1>2, <1>6, <1>7
<1> QED BY <1>8 DEF q

\* Taking the only message empties the queue.
LEMMA PopOnly == ASSUME NEW v \in Items PROVE pop(<<v>>) = <<>>
<1> DEFINE q == <<v>>
<1>1. q \in Seq(Items) /\ q # <<>> /\ Len(q) = 1
  OBVIOUS
<1> HIDE DEF q
<1>2. pop(q) \in Seq(Items) /\ Len(pop(q)) = Len(q) - 1
  BY <1>1, Popped
<1>3. pop(q) = <<>>
  BY <1>1, <1>2
<1> QED BY <1>3 DEF q

\* Taking the first of two leaves the second.
LEMMA PopFirst == ASSUME NEW v \in Items, NEW w \in Items PROVE pop(<<v, w>>) = <<w>>
<1> DEFINE q == <<v, w>>
<1>1. q \in Seq(Items) /\ q # <<>> /\ Len(q) = 2 /\ q[2] = w
  OBVIOUS
<1> HIDE DEF q
<1>2. pop(q) \in Seq(Items) /\ Len(pop(q)) = Len(q) - 1
  BY Zenon, <1>1, Popped
<1>a. PICK p : Left(p, q, pop(q))
  BY <1>1, Popped
<1>3. p \in [1 .. Len(q) - 1 -> 2 .. Len(q)] /\ \A k \in 1 .. Len(q) - 1 : pop(q)[k] = q[p[k]]
  BY <1>a DEF Left
<1>4. 1 \in 1 .. Len(q) - 1 /\ p[1] = 2
  BY <1>1, <1>3
<1>5. pop(q)[1] = w /\ Len(pop(q)) = 1
  BY <1>1, <1>2, <1>3, <1>4
<1>6. pop(q) = <<w>>
  BY <1>2, <1>5
<1> QED BY <1>6 DEF q

-----------------------------------------------------------------------------
(* Steps that have no part in the exchange.                                *)

\* The jobs that Courteous speaks of.
Watched == {"start_ssl_handshake", "on_handshake_completed"}
NoneNew == \A x \in Watched : OnStrand(x)' => OnStrand(x)

\* The jobs of the strand after some were posted at its end, or after a handler that posts them ended.
LEMMA StrandGrows ==
    ASSUME SessionTypes, NEW jobs \in Seq(JobNames), post(jobs) \/ (strand # <<>> /\ finish(jobs)), NEW x, OnStrand(x)'
    PROVE  OnStrand(x) \/ \E i \in DOMAIN jobs : jobs[i] = x
<1>1. strand \in Seq(JobNames) /\ DOMAIN strand = 1 .. Len(strand) /\ Len(strand) \in Nat
  BY DEF SessionTypes
<1>2. PICK k \in DOMAIN strand' : strand'[k] = x
  BY DEF OnStrand
<1>3. CASE post(jobs)
  <2>1. strand' = strand \o jobs
    BY <1>3 DEF post
  <2>2. k \in 1 .. Len(strand) + Len(jobs) /\ strand'[k] = IF k <= Len(strand) THEN strand[k] ELSE jobs[k - Len(strand)]
    BY <1>1, <1>2, <2>1
  <2> QED BY <1>1, <1>2, <2>2 DEF OnStrand
<1>4. CASE strand # <<>> /\ finish(jobs)
  <2> DEFINE rest == Tail(strand)
  <2>1. strand' = rest \o jobs /\ rest \in Seq(JobNames) /\ Len(rest) = Len(strand) - 1
        /\ \A i \in 1 .. Len(rest) : rest[i] = strand[i + 1]
    BY <1>1, <1>4 DEF finish
  <2> HIDE DEF rest
  <2>2. k \in 1 .. Len(rest) + Len(jobs) /\ strand'[k] = IF k <= Len(rest) THEN rest[k] ELSE jobs[k - Len(rest)]
    BY <1>1, <1>2, <2>1
  <2>3. CASE k <= Len(rest)
    <3>1. Len(rest) \in Nat /\ Len(jobs) \in Nat
      BY <2>1
    <3>2. k \in 1 .. Len(rest)
      BY <2>2, <2>3, <3>1
    <3>3. k + 1 \in DOMAIN strand /\ rest[k] = strand[k + 1]
      BY <1>1, <2>1, <3>2
    <3>4. k + 1 \in DOMAIN strand /\ strand[k + 1] = x
      BY <1>2, <2>2, <2>3, <3>3
    <3> QED BY <3>4 DEF OnStrand
  <2>4. CASE ~(k <= Len(rest))
    <3>1. k - Len(rest) \in DOMAIN jobs /\ jobs[k - Len(rest)] = x
      BY <1>1, <1>2, <2>1, <2>2, <2>4
    <3> QED BY <3>1
  <2> QED BY <2>3, <2>4
<1> QED BY <1>3, <1>4

\* A step that posts at most one job, and none of those.
LEMMA NoneWatched ==
    ASSUME SessionTypes, NEW jobs, jobs = <<>> \/ \E e \in JobNames \ Watched : jobs = <<e>>,
           post(jobs) \/ (strand # <<>> /\ finish(jobs))
    PROVE  NoneNew
<1>1. jobs \in Seq(JobNames) /\ \A i \in DOMAIN jobs : jobs[i] \notin Watched
  <2>1. CASE jobs = <<>>
    BY <2>1
  <2>2. ASSUME NEW e \in JobNames \ Watched, jobs = <<e>>
        PROVE  jobs \in Seq(JobNames) /\ \A i \in DOMAIN jobs : jobs[i] \notin Watched
    <3>1. e \in JobNames /\ e \notin Watched
      OBVIOUS
    <3>2. DOMAIN jobs = {1} /\ jobs[1] = e
      BY <2>2
    <3>3. <<e>> \in Seq(JobNames)
      BY <3>1
    <3> QED BY Zenon, <2>2, <3>1, <3>2, <3>3
  <2> QED BY <2>1, <2>2
<1> QED BY <1>1, StrandGrows DEF NoneNew

\* A step that leaves the strand posts none of them.
LEMMA StrandKept == ASSUME UNCHANGED strand PROVE NoneNew
  BY DEF NoneNew, OnStrand

\* push_message: nothing, or a message and its start_write.
LEMMA PushesOne ==
    ASSUME SessionTypes, NEW messages, push_message(messages), messages = <<>> \/ \E m : messages = <<m>>
    PROVE  NoneNew /\ ((messages = <<>> /\ queue' = queue) \/ \E m : messages = <<m>> /\ queue' = emplace(queue, m))
<1>1. CASE messages = <<>>
  BY <1>1, StrandKept DEF push_message
<1>2. ASSUME NEW m, messages = <<m>> PROVE NoneNew /\ queue' = emplace(queue, m)
  <2>1. messages # <<>> /\ Head(messages) = m
    BY <1>2
  <2>2. queue' = emplace(queue, m) /\ post(<<"start_write">>)
    BY <2>1 DEF push_message
  <2>3. "start_write" \in JobNames \ Watched
    BY DEF JobNames, Watched
  <2> QED BY <2>2, <2>3, NoneWatched
<1> QED BY <1>1, <1>2

\* What a step does that has no part in the exchange of the versions: it may queue or write another
\* message once they were exchanged.
QuietJob ==
    \/ job' = job
    \/ /\ job.pc # "validate" /\ job'.pc # "validate"
       /\ job'.pc = "completed" => job.pc = "completed" \/ OnStrand("on_handshake_completed")
QuietReader ==
    \/ reader' = reader
    \/ /\ reader.pc \in {"process", "notify", "next"} /\ (reader.pc = "process" => reader.message.type # "version")
       /\ \/ reader'.pc = "idle" /\ reader'.parsed = 0
          \/ reader'.pc = "next" /\ reader'.parsed = reader.parsed
          \/ reader'.pc = "notify" /\ reader'.message = reader.message /\ reader'.parsed = reader.parsed
             /\ reader.pc = "process"
QuietQueue ==
    \/ queue' = queue
    \/ Known /\ Heard /\ \E m \in Items : m.type \notin {"version", "verack", "badversion"} /\ queue' = emplace(queue, m)
QuietBarrel ==
    \/ UNCHANGED <<barrel, sent>>
    \/ /\ job.pc # "validate" /\ job'.pc # "validate" /\ barrel.rest /\ ~barrel'.rest
       /\ sent' = sent \cup {[barrel.message EXCEPT !.priority = 0]}
QuietTls ==
    /\ OnStrand("start_ssl_handshake")' \/ tls' # "none" => OnStrand("start_ssl_handshake") \/ tls # "none"
    /\ tls' # "none" => ~OnStrand("start_ssl_handshake")'
    /\ tls' = "secured" => ~Inbound
QuietRest ==
    /\ UNCHANGED <<connection, handshake, received>>
    /\ timer' => timer \/ job.pc = "completed"
    /\ requests' > 0 => requests > 0 \/ (Known /\ Heard)
    /\ OnStrand("on_handshake_completed")' => OnStrand("on_handshake_completed")
    /\ fault' \notin {"kInvalidProtocolHandShake", "kDuplicateProtocolHandShake"}

\* Such a step leaves what was said, and by whom, as it is.
LEMMA QuietFacts ==
    ASSUME SessionTypes, Sizes, Courteous, QuietJob, QuietReader, QuietQueue, QuietBarrel, QuietRest
    PROVE  /\ Known' <=> Known
           /\ \A t : Said(t)' <=> Said(t)
           /\ Heard' <=> Heard
           /\ Met' <=> Met
           /\ Inbound' <=> Inbound
           /\ \A t : Checking(t)' <=> Checking(t)
           /\ \A t : Taken(t)' <=> Taken(t)
           /\ AckDue' <=> AckDue
<1>1. Known' <=> Known
  <2>1. CASE barrel.rest /\ sent' = sent \cup {[barrel.message EXCEPT !.priority = 0]}
    <3>1. barrel.message.type = "addr" /\ barrel.message \in Items
      BY <2>1 DEF Courteous, Later, Sizes
    <3>2. [barrel.message EXCEPT !.priority = 0].type = "addr"
      BY <3>1 DEF Items
    <3> QED BY Zenon, <2>1, <3>2 DEF Known, Knows
  <2>2. CASE sent' = sent
    BY <2>2 DEF Known, Knows
  <2> QED BY <2>1, <2>2 DEF QuietBarrel
<1>2. \A t : Said(t)' <=> Said(t)
  BY DEF QuietRest, Said
<1>3. Inbound' <=> Inbound
  BY DEF QuietRest, Inbound
<1>4. \A t : Checking(t)' <=> Checking(t)
  BY DEF QuietReader, Checking
<1>5. \A t : Taken(t)' <=> Taken(t)
  BY DEF QuietJob, QuietBarrel, Taken
<1>6. reader.pc \in {"validate", "process"} /\ reader.message.type = "version"
      <=> reader'.pc \in {"validate", "process"} /\ reader'.message.type = "version"
  BY DEF QuietReader
<1>7. reader.pc \in {"validate", "process", "verack"} /\ reader.message.type = "version"
      <=> reader'.pc \in {"validate", "process", "verack"} /\ reader'.message.type = "version"
  BY DEF QuietReader
<1> QED BY <1>1, <1>2, <1>3, <1>4, <1>5, <1>6, <1>7 DEF Heard, Met, AckDue

\* Such a step preserves the invariant.
LEMMA QuietPolite ==
    ASSUME SessionTypes, Sizes, Courteous,
           QuietJob, QuietReader, QuietQueue, QuietBarrel, QuietTls, QuietRest
    PROVE  Courteous'
<1>k. /\ Known' <=> Known
      /\ \A t : Said(t)' <=> Said(t)
      /\ Heard' <=> Heard
      /\ Met' <=> Met
      /\ Inbound' <=> Inbound
      /\ \A t : Checking(t)' <=> Checking(t)
      /\ \A t : Taken(t)' <=> Taken(t)
      /\ AckDue' <=> AckDue
  BY QuietFacts
<1>q. /\ \A t \in {"version", "verack"} : (Queued(t)' => Queued(t)) /\ (QueuedOnce(t) => QueuedOnce(t)')
      /\ \A t : Queued(t)' => Queued(t) \/ (Known /\ Heard /\ t \notin {"version", "verack", "badversion"})
  <2>1. CASE queue' = queue
    BY <2>1 DEF Queued, QueuedOnce
  <2>2. ASSUME NEW m \in Items, m.type \notin {"version", "verack", "badversion"}, queue' = emplace(queue, m), Known, Heard
        PROVE  /\ \A t \in {"version", "verack"} : (Queued(t)' => Queued(t)) /\ (QueuedOnce(t) => QueuedOnce(t)')
               /\ \A t : Queued(t)' => Queued(t) \/ (Known /\ Heard /\ t \notin {"version", "verack", "badversion"})
    <3>1. queue \in Seq(Items)
      BY DEF Sizes
    <3> QED BY <2>2, <3>1, PushedTypes
  <2> QED BY <2>1, <2>2 DEF QuietQueue
<1>h. handshake' = handshake /\ received' = received
  BY DEF QuietRest
<1>1. InTurn'
  <2>1. InTurn
    BY DEF Courteous
  <2>2. \A m \in sent' : m.type \notin {"version", "verack"} => Known /\ Heard
    <3>1. CASE barrel.rest
      BY <3>1, <2>1 DEF Courteous, Later, InTurn, QuietBarrel
    <3>2. CASE ~barrel.rest
      BY <3>2, <2>1 DEF InTurn, QuietBarrel
    <3> QED BY <3>1, <3>2
  <2>3. reader'.pc \in {"validate", "process", "verack", "notify"} => reader'.message \in received
    BY <2>1 DEF InTurn, QuietReader
  <2>4. reader'.pc = "verack" => reader'.message.type = "version"
    BY <2>1 DEF InTurn, QuietReader
  <2>5. ~Met => reader'.parsed = 0
    BY <2>1 DEF InTurn, QuietReader
  <2>6. (Messages)' = Messages
    BY DEF Messages
  <2> QED BY <1>k, <1>h, <2>1, <2>2, <2>3, <2>4, <2>5, <2>6 DEF InTurn
<1>2. VersionFlags'
  <2>1. VersionFlags
    BY DEF Courteous
  <2>2. reader'.pc = "validate" => reader' = reader
    BY DEF QuietReader
  <2>3. job'.pc = "validate" => job' = job
    BY DEF QuietJob
  <2> QED BY <1>k, <1>h, <2>1, <2>2, <2>3 DEF VersionFlags
<1>3. Silence'
  <2>1. Silence
    BY DEF Courteous
  <2>2. queue' = queue \/ (Known /\ Heard)
    BY DEF QuietQueue
  <2>3. job'.pc = "validate" => job' = job
    BY DEF QuietJob
  <2>4. ~Known => sent' = sent
    BY DEF QuietBarrel, Courteous, Later
  <2> QED BY <1>k, <2>1, <2>2, <2>3, <2>4 DEF Silence
<1>4. Answering'
  <2>1. Answering
    BY DEF Courteous
  <2>2. queue' = queue \/ (Known /\ Heard)
    BY DEF QuietQueue
  <2>3. job'.pc = "validate" <=> job.pc = "validate"
    BY DEF QuietJob
  <2>4. reader'.pc = "verack" <=> reader.pc = "verack"
    BY DEF QuietReader
  <2>5. OurVersion' = OurVersion /\ OurVerack' = OurVerack
    BY DEF OurVersion, OurVerack
  <2> QED BY <1>k, <2>1, <2>2, <2>3, <2>4, <2>5 DEF Answering
<1>5. Presented'
  <2>1. Presented
    BY DEF Courteous
  <2>2. job'.pc = "validate" <=> job.pc = "validate"
    BY DEF QuietJob
  <2> QED BY <1>k, <1>q, <2>1, <2>2 DEF Presented, QuietTls
<1>6. Acknowledged'
  <2>1. Acknowledged
    BY DEF Courteous
  <2>2. AckUnsent => AckUnsent'
    BY <1>h DEF QuietReader, QuietJob, AckUnsent
  <2> QED BY <1>k, <1>q, <2>1, <2>2 DEF Acknowledged
<1>7. AckAccepted'
  <2>1. AckAccepted
    BY DEF Courteous
  <2>2. job'.pc = "validate" => job' = job
    BY DEF QuietJob
  <2>3. reader'.pc = "validate" => reader' = reader
    BY DEF QuietReader
  <2> QED BY <1>k, <1>h, <2>1, <2>2, <2>3 DEF AckAccepted, Checking
<1>8. Later'
  <2>1. Later
    BY DEF Courteous
  <2>2. job'.pc = "validate" <=> job.pc = "validate"
    BY DEF QuietJob
  <2>3. barrel'.rest => barrel' = barrel
    BY DEF QuietBarrel
  <2>4. OnStrand("on_handshake_completed")' \/ job'.pc = "completed" \/ timer' \/ requests' > 0 => Known /\ Heard
    BY <2>1 DEF Later, QuietJob, QuietRest
  <2> QED BY <1>k, <1>q, <2>1, <2>2, <2>3, <2>4 DEF Later
<1>9. fault' \notin {"kInvalidProtocolHandShake", "kDuplicateProtocolHandShake"}
  BY DEF QuietRest
<1> QED BY <1>1, <1>2, <1>3, <1>4, <1>5, <1>6, <1>7, <1>8, <1>9 DEF Courteous

\* The steps that leave the exchange alone: stopping, the transport, and what follows the exchange.
LEMMA QuietTlsKept == ASSUME Courteous, NoneNew, tls' = tls PROVE QuietTls
  BY DEF Courteous, Presented, NoneNew, Watched, QuietTls

\* Stops, and steps that change none of the variables Courteous speaks of but the strand.
LEMMA PlainSteps ==
    ASSUME SessionTypes, Sizes, Courteous,
           HubStop \/ StrandStop \/ on_stop_completed \/ start_read \/ WriteNothing \/ HandleWrite \/ ReadNothing
           \/ RecordNonce \/ UNCHANGED vars
    PROVE  Courteous'
<1> USE DEF writing, reading, pinging, shaking, ending
<1>j. {"stop", "start_write", "start_read", "on_stop_completed"} \subseteq JobNames \ Watched
  BY DEF JobNames, Watched
<1>i. Idle.pc = "idle"
  BY DEF Idle
<1>1. NoneNew
  <2>1. CASE HubStop \/ StrandStop
    <3>1. stopped_jobs = <<>> \/ \E e \in JobNames \ Watched : stopped_jobs = <<e>>
      BY <1>j DEF stopped_jobs
    <3> QED BY <2>1, <3>1, NoneWatched DEF HubStop, StrandStop, runs
  <2>2. CASE on_stop_completed \/ start_read \/ WriteNothing
    BY <2>2, NoneWatched DEF on_stop_completed, start_read, WriteNothing, runs
  <2>3. CASE HandleWrite \/ ReadNothing
    BY <2>3, <1>j, NoneWatched, StrandKept DEF HandleWrite, ReadNothing, written
  <2>4. CASE RecordNonce \/ UNCHANGED vars
    BY <2>4, StrandKept DEF RecordNonce, vars
  <2> QED BY <2>1, <2>2, <2>3, <2>4
<1>2. /\ UNCHANGED <<connection, handshake, received, reader, queue, barrel, sent, tls, requests, fault>>
      /\ job' = job \/ (job.pc = "idle" /\ job' = Idle)
      /\ timer' = timer \/ timer' = (timer /\ ~is_running)
  BY DEF HubStop, StrandStop, on_stop_completed, start_read, WriteNothing, HandleWrite, ReadNothing,
         RecordNonce, vars, runs, finish, stopped_timer
<1> HIDE DEF writing, reading, pinging, shaking, ending
<1>3. QuietJob
  BY <1>2, <1>i DEF QuietJob
<1>t. timer' => timer
  BY <1>2, Zenon
<1>4. QuietRest
  BY <1>1, <1>2, <1>t DEF QuietRest, NoneNew, Watched, Courteous
<1>5. QuietReader /\ QuietQueue /\ QuietBarrel
  BY <1>2 DEF QuietReader, QuietQueue, QuietBarrel
<1>6. QuietTls
  BY <1>1, <1>2, QuietTlsKept
<1> QED BY <1>3, <1>4, <1>5, <1>6, QuietPolite

\* The TLS handshake: it is asked for once, and the version of the node that calls waits for it.
LEMMA TlsSteps ==
    ASSUME SessionTypes, Sizes, Courteous, SessionTypes', Reading', start_ssl_handshake \/ handle_ssl_handshake
    PROVE  Courteous'
<1> USE DEF writing, reading, pinging, shaking, ending
<1>j. {"stop", "start_write", "start_read", "on_stop_completed"} \subseteq JobNames \ Watched
  BY DEF JobNames, Watched
<1>i. Idle.pc = "idle"
  BY DEF Idle
<1>1. NoneNew
  <2>1. CASE start_ssl_handshake
    BY <2>1, NoneWatched DEF start_ssl_handshake, runs
  <2>2. CASE handle_ssl_handshake
    BY <2>2, <1>j, NoneWatched, StrandKept DEF handle_ssl_handshake
  <2> QED BY <2>1, <2>2
<1>2. /\ UNCHANGED <<connection, handshake, received, reader, queue, barrel, sent, requests, fault, timer>>
      /\ job' = job \/ (job.pc = "idle" /\ job' = Idle)
  BY DEF start_ssl_handshake, handle_ssl_handshake, runs, finish
<1> HIDE DEF writing, reading, pinging, shaking, ending
<1>3. QuietJob
  BY <1>2, <1>i DEF QuietJob
<1>4. QuietRest
  BY <1>1, <1>2 DEF QuietRest, NoneNew, Watched, Courteous
<1>5. QuietReader /\ QuietQueue /\ QuietBarrel
  BY <1>2 DEF QuietReader, QuietQueue, QuietBarrel
<1>6. QuietTls
  <2>0. Presented
    BY DEF Courteous
  <2>1. CASE start_ssl_handshake
    <3>1. OnStrand("start_ssl_handshake")
      BY <2>1 DEF start_ssl_handshake, runs, SessionTypes, OnStrand
    <3>2. tls' = tls \/ tls' = "pending"
      BY <2>1 DEF start_ssl_handshake
    <3>3. tls' = "pending" => ~OnStrand("start_ssl_handshake")'
      <4>1. OnStrand("start_ssl_handshake")' => posted("start_ssl_handshake")' > 0
        <5>1. ASSUME OnStrand("start_ssl_handshake")' PROVE posted("start_ssl_handshake")' > 0
          <6>1. strand' \in Seq(JobNames) /\ Count(strand', "start_ssl_handshake") > 0
            BY <5>1, CountPositive DEF SessionTypes, OnStrand
          <6> QED BY <6>1, PostedCount
        <5> QED BY <5>1
      <4>2. posted("start_ssl_handshake")' \in Nat /\ posted("start_read")' \in Nat /\ reads' \in Nat
        BY PostedCount, CountType DEF SessionTypes
      <4> QED BY <4>1, <4>2 DEF Reading
    <3> QED BY <1>1, <2>0, <3>1, <3>2, <3>3 DEF QuietTls, Presented, NoneNew, Watched
  <2>2. CASE handle_ssl_handshake
    <3>1. tls = "pending" /\ (tls' = "none" \/ (tls' = "secured" /\ ~Inbound))
      BY <2>2 DEF handle_ssl_handshake, Inbound
    <3> QED BY <1>1, <2>0, <3>1 DEF QuietTls, Presented, NoneNew, Watched
  <2> QED BY <2>1, <2>2
<1> QED BY <1>3, <1>4, <1>5, <1>6, QuietPolite

\* The messages that follow the exchange: pings and their answers, addresses and requests for them.
LEMMA OtherItems ==
    /\ \A t \in {"addr", "getaddr"} : Message(t, kNormal) \in Items /\ Message(t, kNormal).type = t
    /\ \A t \in {"ping", "pong"} : \A n \in 0 .. MaxPings : PingPong(t, n) \in Items /\ PingPong(t, n).type = t
  BY Zenon, MessageItems DEF Message, PingPong, MessageTypes

\* They are queued by steps of the hub, of the timer and of the completed handshake.
LEMMA PushingSteps ==
    ASSUME SessionTypes, Sizes, InJob, Courteous, HubAnswer \/ PingTimerExpired \/ on_handshake_completed \/ StartPinging
    PROVE  Courteous'
<1> USE DEF writing, reading, pinging, shaking, ending
<1>j. {"stop", "start_write", "start_read", "on_stop_completed"} \subseteq JobNames \ Watched
  BY DEF JobNames, Watched
<1>i. Idle.pc = "idle" /\ [Idle EXCEPT !.pc = "completed"].pc = "completed"
  BY DEF Idle
<1>l. Later
  BY DEF Courteous
<1>p. may_ping => pings + 1 \in 0 .. MaxPings
  BY SessionAssumption DEF may_ping, Sizes
<1>1. CASE HubAnswer
  <2>1. Known /\ Heard
    BY <1>1, <1>l DEF HubAnswer, Later
  <2>2. PICK reply \in {<<>>, <<Message("addr", kNormal)>>} : push_message(reply)
    BY <1>1 DEF HubAnswer
  <2>3. NoneNew /\ (queue' = queue \/ queue' = emplace(queue, Message("addr", kNormal)))
    BY <2>2, PushesOne
  <2>4. QuietQueue
    BY <2>1, <2>3, OtherItems DEF QuietQueue
  <2>5. UNCHANGED <<connection, job, tls, fault, barrel, sent, reader, received, handshake, timer>>
    BY <1>1 DEF HubAnswer
  <2>6. QuietRest
    BY <2>1, <2>3, <2>5 DEF QuietRest, NoneNew, Watched, Courteous
  <2>7. QuietReader /\ QuietJob /\ QuietBarrel
    BY <2>5 DEF QuietReader, QuietJob, QuietBarrel
  <2> QED BY <2>3, <2>4, <2>5, <2>6, <2>7, QuietTlsKept, QuietPolite
<1>2. CASE PingTimerExpired
  <2>1. Known /\ Heard
    BY Zenon, <1>2, <1>l DEF PingTimerExpired, Later
  <2>2. pings + 1 \in 0 .. MaxPings /\ push_message(<<PingPong("ping", pings + 1)>>)
    BY <1>2, <1>p DEF PingTimerExpired
  <2>3. NoneNew /\ queue' = emplace(queue, PingPong("ping", pings + 1))
    BY <2>2, PushesOne
  <2>4. QuietQueue
    BY <2>1, <2>2, <2>3, OtherItems DEF QuietQueue
  <2>5. UNCHANGED <<connection, job, tls, fault, barrel, sent, reader, received, handshake, timer, requests>>
    BY <1>2 DEF PingTimerExpired
  <2>6. QuietRest
    BY <2>1, <2>3, <2>5 DEF QuietRest, NoneNew, Watched, Courteous
  <2>7. QuietReader /\ QuietJob /\ QuietBarrel
    BY <2>5 DEF QuietReader, QuietJob, QuietBarrel
  <2> QED BY <2>3, <2>4, <2>5, <2>6, <2>7, QuietTlsKept, QuietPolite
<1>3. CASE on_handshake_completed
  <2>0. job.pc = "idle" /\ strand # <<>> /\ Head(strand) = "on_handshake_completed"
    BY <1>3 DEF on_handshake_completed, runs
  <2>1. OnStrand("on_handshake_completed") /\ Known /\ Heard
    <3>1. OnStrand("on_handshake_completed")
      BY <2>0 DEF SessionTypes, OnStrand
    <3> QED BY <1>l, <3>1 DEF Later
  <2>2. \/ finish(<<>>) /\ queue' = queue
        \/ job' = [Idle EXCEPT !.pc = "completed"] /\ strand' = strand /\ queue' = queue
        \/ /\ job' = [Idle EXCEPT !.pc = "completed"]
           /\ may_ping /\ push_message(<<PingPong("ping", pings + 1)>>)
    BY <1>3 DEF on_handshake_completed
  <2>3. NoneNew /\ (queue' = queue \/ (may_ping /\ queue' = emplace(queue, PingPong("ping", pings + 1))))
    <3>1. CASE finish(<<>>) /\ queue' = queue
      BY <2>0, <3>1, NoneWatched
    <3>2. CASE strand' = strand /\ queue' = queue
      BY <3>2, StrandKept
    <3>3. CASE may_ping /\ push_message(<<PingPong("ping", pings + 1)>>)
      BY <3>3, PushesOne
    <3> QED BY <2>2, <3>1, <3>2, <3>3
  <2>4. QuietQueue
    BY <1>p, <2>1, <2>3, OtherItems DEF QuietQueue
  <2>5. UNCHANGED <<connection, tls, fault, barrel, sent, reader, received, handshake, timer, requests>>
    BY <1>3 DEF on_handshake_completed
  <2>6. QuietRest
    BY <2>1, <2>3, <2>5 DEF QuietRest, NoneNew, Watched, Courteous
  <2>7. QuietReader /\ QuietBarrel
    BY <2>5 DEF QuietReader, QuietBarrel
  <2>8. QuietJob
    BY ZenonT(30), <1>i, <2>0, <2>1, <2>2 DEF QuietJob, finish
  <2> QED BY <2>3, <2>4, <2>5, <2>6, <2>7, <2>8, QuietTlsKept, QuietPolite
<1>4. CASE StartPinging
  <2>1. job.pc = "completed" /\ Known /\ Heard
    BY <1>4, <1>l DEF StartPinging, Later
  <2>2. queue' = queue \/ queue' = emplace(queue, Message("getaddr", kNormal))
    BY <1>4 DEF StartPinging
  <2>3. QuietQueue
    BY <2>1, <2>2, OtherItems DEF QuietQueue
  <2>4. UNCHANGED <<connection, tls, fault, barrel, sent, reader, received, handshake, requests>>
    BY <1>4 DEF StartPinging
  <2>5. NoneNew /\ job' = Idle
    <3>1. PICK jobs \in {<<>>, <<"start_write">>} : finish(jobs)
      BY <1>4 DEF StartPinging
    <3>2. strand # <<>>
      BY <2>1 DEF InJob
    <3> QED BY <1>j, <3>1, <3>2, NoneWatched DEF finish
  <2>6. QuietRest
    BY <2>1, <2>4, <2>5 DEF QuietRest, NoneNew, Watched, Courteous
  <2>7. QuietReader /\ QuietBarrel
    BY <2>4 DEF QuietReader, QuietBarrel
  <2>8. QuietJob
    BY <1>i, <2>1, <2>5 DEF QuietJob
  <2> QED BY <2>3, <2>4, <2>5, <2>6, <2>7, <2>8, QuietTlsKept, QuietPolite
<1> QED BY <1>1, <1>2, <1>3, <1>4
=============================================================================
