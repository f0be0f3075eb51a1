------------------------- MODULE ContainersProofs --------------------------
(***************************************************************************)
(* The bounded containers keep what they promise and the counts of the     *)
(* locked pages are exact, for any keys, capacity, objects and page size.  *)
(***************************************************************************)
EXTENDS Containers, FiniteSetTheorems, TLAPS

-----------------------------------------------------------------------------
(* The bounded containers.                                                 *)

\* The list and the index of a container agree.
Agree(list, index) ==
    list \in Seq(Keys) /\ index = Range(list) /\ IsInjective(list) /\ Len(list) <= Capacity

\* The position of the last use of a key.
IsLast(used, key, i) ==
    i \in 1 .. Len(used) /\ used[i] = key /\ \A j \in i + 1 .. Len(used) : used[j] # key

\* What an LruSet holds was used, the front of the list last, and after all that it gave up.
Recent(list, used) ==
    /\ \A key \in Range(used) : \E i : IsLast(used, key, i)
    /\ Range(list) \subseteq Range(used)
    /\ \A i, j \in DOMAIN list : i < j => \A p, q : IsLast(used, list[i], p) /\ IsLast(used, list[j], q) => p > q
    /\ \A key \in Range(used) \ Range(list) :
           /\ Len(list) = Capacity
           /\ \A i \in DOMAIN list : \A p, q : IsLast(used, list[i], p) /\ IsLast(used, key, q) => p > q

\* What a container of each kind keeps.
BoxInv ==
    /\ box = [kind |-> box.kind, list |-> box.list, index |-> box.index, used |-> box.used, gone |-> box.gone]
    /\ box.used \in Seq(Keys) /\ box.gone \in Seq(Keys)
    /\ Agree(box.list, box.index)
    /\ box.kind = "LruSet" => Recent(box.list, box.used)
    /\ box.kind \in {"CappedSet", "UniqueQueue"} => box.used = box.gone \o box.list
    /\ box.kind = "CappedSet" /\ box.gone # <<>> => Len(box.list) = Capacity

\* A position of last use is the one LastUse gives.
LEMMA LastUseIs == ASSUME box.used \in Seq(Keys), NEW key, NEW p, IsLast(box.used, key, p) PROVE LastUse(key) = p
<1> DEFINE P(i) == box.used[i] = key /\ \A j \in i + 1 .. Len(box.used) : box.used[j] # key
<1>1. p \in 1 .. Len(box.used) /\ P(p)
  BY DEF IsLast
<1>2. ASSUME NEW q \in 1 .. Len(box.used), P(q) PROVE q = p
  <2>1. ~(q < p) /\ ~(p < q)
    BY <1>1, <1>2
  <2> QED BY <1>1, <2>1
<1>3. LastUse(key) = CHOOSE i \in 1 .. Len(box.used) : P(i)
  BY DEF LastUse
<1> HIDE DEF P
<1> QED BY <1>1, <1>2, <1>3

\* The invariant is as strong as what is claimed.
LEMMA BoxInvShows == BoxInv => ContainersExact
<1> SUFFICES ASSUME BoxInv PROVE ContainersExact
  OBVIOUS
<1>1. ASSUME box.kind = "LruSet"
      PROVE  /\ \A i, j \in DOMAIN box.list : i < j => LastUse(box.list[i]) > LastUse(box.list[j])
             /\ \A key \in Range(box.used) \ box.index :
                  Len(box.list) = Capacity /\ \A i \in DOMAIN box.list : LastUse(box.list[i]) > LastUse(key)
  <2>1. Recent(box.list, box.used) /\ box.index = Range(box.list) /\ box.used \in Seq(Keys)
    BY <1>1 DEF BoxInv, Agree
  <2>2. \A key \in Range(box.used) : IsLast(box.used, key, LastUse(key))
    BY <2>1, LastUseIs DEF Recent
  <2>3. \A i \in DOMAIN box.list : box.list[i] \in Range(box.used)
    BY Zenon, <2>1 DEF Recent, Range
  <2> QED BY <2>1, <2>2, <2>3 DEF Recent
<1> QED BY <1>1 DEF BoxInv, Agree, ContainersExact

\* A key that is used again was used last; the last uses of the others stay.
Latest(now, used, key) ==
    /\ Range(now) = Range(used) \cup {key}
    /\ IsLast(now, key, Len(used) + 1)
    /\ \A p : IsLast(now, key, p) => p = Len(used) + 1
    /\ \A k, p : k # key /\ IsLast(now, k, p) => IsLast(used, k, p)
    /\ \A k, p : k # key /\ IsLast(used, k, p) => IsLast(now, k, p)
    /\ \A k, p : IsLast(used, k, p) => p \in Nat /\ p < Len(used) + 1

\* That holds of the history after a use.
LEMMA UsedAgain ==
    ASSUME NEW used \in Seq(Keys), NEW key \in Keys, NEW now, now = Append(used, key)
    PROVE  now \in Seq(Keys) /\ Latest(now, used, key)
<1> DEFINE n == Len(used)
<1>1. n \in Nat /\ now \in Seq(Keys) /\ Len(now) = n + 1 /\ now[n + 1] = key /\ \A i \in 1 .. n : now[i] = used[i]
      /\ DOMAIN used = 1 .. n /\ DOMAIN now = 1 .. n + 1
  OBVIOUS
<1> HIDE DEF n
<1>2. \A i \in 1 .. n + 1 : i \in 1 .. n \/ i = n + 1
  BY <1>1
<1>3. n + 1 \in 1 .. n + 1 /\ \A i \in 1 .. n : i \in 1 .. n + 1
  BY <1>1
<1>4. Range(now) = Range(used) \cup {key}
  BY <1>1, <1>2, <1>3 DEF Range
<1>5. IsLast(now, key, n + 1) /\ \A p : IsLast(now, key, p) => p = n + 1
  BY <1>1 DEF IsLast
<1>6. ASSUME NEW k, k # key, NEW p PROVE (IsLast(now, k, p) => IsLast(used, k, p)) /\ (IsLast(used, k, p) => IsLast(now, k, p))
  BY <1>1, <1>6 DEF IsLast, n
<1>7. \A k, p : IsLast(used, k, p) => p \in Nat /\ p < n + 1
  BY <1>1 DEF IsLast, n
<1> QED BY <1>1, <1>4, <1>5, <1>6, <1>7 DEF n, Latest

\* The list after an insertion: the key in front, then elements of the list in their order, all of them or
\* all but the last of a full one.
Follows(new, list, key, from) ==
    /\ new \in Seq(Keys) /\ new # <<>> /\ new[1] = key
    /\ from \in [2 .. Len(new) -> DOMAIN list]
    /\ \A i \in 2 .. Len(new) : new[i] = list[from[i]] /\ list[from[i]] # key
    /\ \A i, j \in 2 .. Len(new) : i < j => from[i] < from[j]

\* A list that follows from one in the order of use is in the order of use.
LEMMA FollowsRecent ==
    ASSUME NEW list, NEW index, Agree(list, index), NEW used \in Seq(Keys), Recent(list, used), NEW key \in Keys,
           NEW new, NEW from, Follows(new, list, key, from), NEW now, Latest(now, used, key),
           \/ Len(new) = Len(list) /\ Range(new) = Range(list)
           \/ Len(list) < Capacity /\ Range(new) = Range(list) \cup {key}
           \/ /\ Len(list) = Capacity /\ Len(new) = Capacity
              /\ \A k \in Range(list) \ Range(new) : \A i \in 2 .. Len(new) : \E a \in DOMAIN list : k = list[a] /\ from[i] < a
    PROVE  Recent(new, now)
<1> DEFINE n == Len(used)
<1>1. /\ Range(now) = Range(used) \cup {key}
      /\ IsLast(now, key, n + 1)
      /\ \A p : IsLast(now, key, p) => p = n + 1
      /\ \A k, p : k # key /\ IsLast(now, k, p) => IsLast(used, k, p)
      /\ \A k, p : k # key /\ IsLast(used, k, p) => IsLast(now, k, p)
      /\ \A k, p : IsLast(used, k, p) => p \in Nat /\ p < n + 1
  BY DEF Latest
<1>2. n \in Nat /\ Len(new) \in Nat /\ DOMAIN new = 1 .. Len(new) /\ DOMAIN list = 1 .. Len(list)
      /\ \A i \in DOMAIN new : i = 1 \/ i \in 2 .. Len(new)
  BY DEF Agree, Follows
<1>a. /\ new[1] = key
      /\ from \in [2 .. Len(new) -> DOMAIN list]
      /\ \A i \in 2 .. Len(new) : new[i] = list[from[i]] /\ list[from[i]] # key
      /\ \A i, j \in 2 .. Len(new) : i < j => from[i] < from[j]
  BY DEF Follows
<1>b. /\ \A k \in Range(used) : \E i : IsLast(used, k, i)
      /\ Range(list) \subseteq Range(used)
      /\ \A i, j \in DOMAIN list : i < j => \A p, q : IsLast(used, list[i], p) /\ IsLast(used, list[j], q) => p > q
      /\ \A k \in Range(used) \ Range(list) :
           /\ Len(list) = Capacity
           /\ \A i \in DOMAIN list : \A p, q : IsLast(used, list[i], p) /\ IsLast(used, k, q) => p > q
  BY DEF Recent
<1> HIDE DEF n
<1>3. \A k \in Range(now) : \E i : IsLast(now, k, i)
  BY <1>1, <1>b
<1>4. Range(new) \subseteq Range(now)
  <2>1. \A a \in DOMAIN list : list[a] \in Range(used)
    BY <1>b DEF Range
  <2>2. \A i \in DOMAIN new : new[i] \in Range(now)
    BY ZenonT(30), <1>1, <1>2, <1>a, <2>1
  <2> QED BY <2>2 DEF Range
<1>5. ASSUME NEW i \in DOMAIN new, NEW j \in DOMAIN new, i < j, NEW p, NEW q, IsLast(now, new[i], p), IsLast(now, new[j], q)
      PROVE  p > q
  <2>0. j \in 2 .. Len(new)
    <3>1. i \in 1 .. Len(new) /\ j \in 1 .. Len(new) /\ Len(new) \in Nat
      BY Zenon, <1>2
    <3> QED BY <1>5, <3>1
  <2>1. j \in 2 .. Len(new) /\ IsLast(used, new[j], q)
    <3>1. new[j] # key
      BY <1>a, <2>0
    <3> QED BY <1>1, <1>5, <2>0, <3>1
  <2>2. CASE i = 1
    <3>1. p = n + 1
      BY <1>1, <1>5, <1>a, <2>2
    <3>2. q \in Nat /\ q < n + 1
      BY <1>1, <2>1
    <3> QED BY Zenon, <1>2, <3>1, <3>2
  <2>3. CASE i \in 2 .. Len(new)
    <3>1. IsLast(used, new[i], p)
      BY <1>1, <1>5, <1>a, <2>3
    <3>2. from[i] \in DOMAIN list /\ from[j] \in DOMAIN list /\ from[i] < from[j]
      BY <1>5, <1>a, <2>1, <2>3
    <3> QED BY <1>a, <1>b, <2>1, <2>3, <3>1, <3>2
  <2> QED BY Zenon, <1>2, <2>2, <2>3
<1>6. ASSUME NEW k \in Range(now) \ Range(new) PROVE k \in Range(used) /\ k # key /\ Len(new) = Capacity
        /\ \A i \in 2 .. Len(new) : \A p, q : IsLast(used, new[i], p) /\ IsLast(used, k, q) => p > q
  <2>0. 1 \in DOMAIN new
    <3>1. new \in Seq(Keys) /\ new # <<>>
      BY DEF Follows
    <3> QED BY <3>1
  <2>1. k # key
    BY <1>a, <1>6, <2>0 DEF Range
  <2>2. k \in Range(used)
    BY <1>1, <1>6, <2>1
  <2>3. CASE k \notin Range(list)
    <3>1. Len(list) = Capacity
      BY <1>b, <2>2, <2>3
    <3>2. Len(new) = Capacity
      BY <3>1, CapacityAssumption
    <3> QED BY <1>a, <1>b, <2>1, <2>2, <2>3, <3>2
  <2>4. CASE k \in Range(list)
    <3>1. Len(new) = Capacity /\ \A i \in 2 .. Len(new) : \E a \in DOMAIN list : k = list[a] /\ from[i] < a
      BY <1>6, <2>4
    <3>2. ASSUME NEW i \in 2 .. Len(new), NEW p, NEW q, IsLast(used, new[i], p), IsLast(used, k, q) PROVE p > q
      <4>1. PICK a \in DOMAIN list : k = list[a] /\ from[i] < a
        BY <3>1
      <4>2. from[i] \in DOMAIN list /\ new[i] = list[from[i]]
        BY <1>a
      <4> QED BY <1>b, <3>2, <4>1, <4>2
    <3> QED BY <2>1, <2>2, <3>1, <3>2
  <2> QED BY <2>3, <2>4
<1>7. ASSUME NEW k \in Range(now) \ Range(new), NEW i \in DOMAIN new, NEW p, NEW q, IsLast(now, new[i], p), IsLast(now, k, q)
      PROVE  p > q
  <2>1. IsLast(used, k, q)
    BY <1>1, <1>6, <1>7
  <2>2. CASE i = 1
    <3>1. p = n + 1
      BY <1>1, <1>7, <1>a, <2>2
    <3>2. q \in Nat /\ q < n + 1
      BY <1>1, <2>1
    <3> QED BY Zenon, <1>2, <3>1, <3>2
  <2>3. CASE i \in 2 .. Len(new)
    BY <1>1, <1>6, <1>7, <1>a, <2>1, <2>3
  <2> QED BY Zenon, <1>2, <2>2, <2>3
<1> QED BY <1>3, <1>4, <1>5, <1>6, <1>7 DEF Recent

\* LruSet::insert of an element it holds: the element moves to the front.
LEMMA Touched ==
    ASSUME NEW b, Agree(b.list, b.index), NEW key \in b.index
    PROVE  \E new, from : /\ touched(b, key) = [b EXCEPT !.list = new]
                          /\ Follows(new, b.list, key, from)
                          /\ Agree(new, b.index) /\ Len(new) = Len(b.list)
<1> DEFINE list == b.list
           n == Len(list)
           at == CHOOSE i \in DOMAIN list : list[i] = key
           new == [i \in DOMAIN list |-> IF i = 1 THEN key ELSE IF i <= at THEN list[i - 1] ELSE list[i]]
           from == [i \in 2 .. n |-> IF i <= at THEN i - 1 ELSE i]
<1>1. touched(b, key) = [b EXCEPT !.list = new]
  BY DEF touched
<1>2. list \in Seq(Keys) /\ n \in Nat /\ DOMAIN list = 1 .. n /\ \A i, j \in 1 .. n : list[i] = list[j] => i = j
  BY DEF Agree, IsInjective
<1>3. at \in 1 .. n /\ list[at] = key /\ n >= 1
  <2>1. \E i \in DOMAIN list : list[i] = key
    BY DEF Agree, Range
  <2>2. at \in DOMAIN list /\ list[at] = key
    BY <2>1
  <2> HIDE DEF at, list
  <2> QED BY <1>2, <2>2
<1>k. key \in Keys
  <2> HIDE DEF at, list
  <2> QED BY <1>2, <1>3
<1>l. n <= Capacity /\ b.index = Range(list)
  BY DEF Agree
<1>4. new \in Seq(Keys) /\ Len(new) = n /\ DOMAIN new = 1 .. n
  <2> HIDE DEF at, list, n
  <2>1. new = [i \in 1 .. n |-> IF i = 1 THEN key ELSE IF i <= at THEN list[i - 1] ELSE list[i]]
    BY <1>2
  <2>2. \A i \in 1 .. n : i - 1 \in 1 .. n \/ i = 1
    BY <1>2
  <2>3. \A i \in 1 .. n : list[i] \in Keys
    BY <1>2
  <2>4. \A i \in 1 .. n : (IF i = 1 THEN key ELSE IF i <= at THEN list[i - 1] ELSE list[i]) \in Keys
    BY <1>k, <2>2, <2>3
  <2> QED BY <1>2, <2>1, <2>4
<1>5. /\ from \in [2 .. n -> 1 .. n]
      /\ \A i \in 2 .. n : from[i] = IF i <= at THEN i - 1 ELSE i
      /\ \A i \in 2 .. n : new[i] = list[from[i]]
      /\ new[1] = key
  <2> HIDE DEF at, list, n
  <2> QED BY <1>2, <1>3
<1> HIDE DEF at, list, n, new, from
<1>6. \A i \in 2 .. n : from[i] # at /\ list[from[i]] # key
  BY <1>2, <1>3, <1>5
<1>7. \A i, j \in 2 .. n : i < j => from[i] < from[j]
  <2>1. at \in Int /\ \A i \in 2 .. n : i \in Int
    BY <1>3
  <2>2. \A i \in 2 .. n : from[i] = IF i <= at THEN i - 1 ELSE i
    BY <1>5
  <2> QED BY <2>1, <2>2
<1>8. Follows(new, list, key, from)
  <2>1. new # <<>>
    BY <1>3, <1>4
  <2> QED BY <1>2, <1>4, <1>5, <1>6, <1>7, <2>1 DEF Follows
<1>9. \A i, j \in 1 .. n : new[i] = new[j] => i = j
  <2> SUFFICES ASSUME NEW i \in 1 .. n, NEW j \in 1 .. n, new[i] = new[j] PROVE i = j
    OBVIOUS
  <2>1. CASE i \in 2 .. n /\ j \in 2 .. n
    <3>1. from[i] = from[j]
      BY <1>2, <1>5, <2>1
    <3> QED BY <1>7, <1>2, <2>1, <3>1, <1>5
  <2>2. CASE i = 1 /\ j \in 2 .. n
    BY <1>5, <1>6, <2>2
  <2>3. CASE i \in 2 .. n /\ j = 1
    BY <1>5, <1>6, <2>3
  <2>4. (i = 1 \/ i \in 2 .. n) /\ (j = 1 \/ j \in 2 .. n)
    BY <1>2
  <2> QED BY <2>1, <2>2, <2>3, <2>4
<1>10. Range(new) = Range(list)
  <2>1. \A i \in 1 .. n : i = 1 \/ i \in 2 .. n
    BY <1>2
  <2>2. \A i \in 1 .. n : \E a \in 1 .. n : new[i] = list[a]
    BY <1>3, <1>5, <2>1
  <2>3. ASSUME NEW a \in 1 .. n PROVE \E i \in 1 .. n : new[i] = list[a]
    <3>1. CASE a = at
      BY <1>3, <1>5, <3>1
    <3>2. CASE a < at
      <4>1. a + 1 \in 2 .. n /\ a + 1 \in 1 .. n /\ from[a + 1] = a
        BY <1>2, <1>3, <1>5, <3>2
      <4> QED BY <1>5, <4>1
    <3>3. CASE a > at
      <4>1. a \in 2 .. n /\ from[a] = a
        BY <1>2, <1>3, <1>5, <3>3
      <4> QED BY <1>5, <4>1
    <3> QED BY <1>3, <3>1, <3>2, <3>3
  <2>4. Range(new) = {new[i] : i \in 1 .. n} /\ Range(list) = {list[i] : i \in 1 .. n}
    BY <1>2, <1>4 DEF Range
  <2> QED BY <2>2, <2>3, <2>4
<1>11. Agree(new, b.index)
  BY <1>4, <1>9, <1>10, <1>l DEF Agree, IsInjective
<1>12. list = b.list /\ n = Len(b.list)
  BY DEF list, n
<1> QED BY <1>1, <1>4, <1>8, <1>11, <1>12

\* The first key of a list in front of others.
LEMMA Preceded ==
    ASSUME NEW list \in Seq(Keys), NEW key \in Keys, NEW new, new = <<key>> \o list
    PROVE  /\ new \in Seq(Keys) /\ Len(new) = Len(list) + 1 /\ new[1] = key
           /\ \A i \in 2 .. Len(list) + 1 : new[i] = list[i - 1]
  OBVIOUS

\* A key in front of the first elements of a list.
Shifted(new, list, key, m) ==
    /\ m \in Nat /\ m <= Len(list) /\ m < Capacity
    /\ new \in Seq(Keys) /\ Len(new) = m + 1 /\ new[1] = key
    /\ \A i \in 2 .. m + 1 : new[i] = list[i - 1]

\* The elements of such a list, and where each comes from.
Fronted(new, list, key, m, from) ==
    /\ Follows(new, list, key, from) /\ IsInjective(new)
    /\ Range(new) = {key} \cup {list[i] : i \in 1 .. m}
    /\ \A i \in 2 .. m + 1 : from[i] = i - 1

\* An element an LruSet does not hold comes in front of the first ones of the list, of all of them while there is room.
LEMMA PutInFront ==
    ASSUME NEW list, NEW index, Agree(list, index), NEW key \in Keys, key \notin index,
           NEW m, NEW new, Shifted(new, list, key, m)
    PROVE  \E from : Fronted(new, list, key, m, from)
<1>a. /\ m \in Nat /\ m <= Len(list) /\ m < Capacity
      /\ new \in Seq(Keys) /\ Len(new) = m + 1 /\ new[1] = key
      /\ \A i \in 2 .. m + 1 : new[i] = list[i - 1]
  BY DEF Shifted
<1> DEFINE from == [i \in 2 .. m + 1 |-> i - 1]
<1>1. list \in Seq(Keys) /\ Len(list) \in Nat /\ DOMAIN list = 1 .. Len(list)
      /\ \A i, j \in 1 .. Len(list) : list[i] = list[j] => i = j
  BY DEF Agree, IsInjective
<1>2. \A i \in 1 .. Len(list) : list[i] # key
  BY <1>1 DEF Agree, Range
<1>3. \A i \in 2 .. m + 1 : from[i] = i - 1 /\ i - 1 \in 1 .. m /\ i - 1 \in 1 .. Len(list)
  BY <1>1, <1>a
<1>4. from \in [2 .. m + 1 -> 1 .. Len(list)]
  BY <1>3
<1>5. DOMAIN new = 1 .. m + 1 /\ \A i \in 1 .. m + 1 : i = 1 \/ i \in 2 .. m + 1
  BY <1>a
<1> HIDE DEF from
<1>6. \A i, j \in 2 .. m + 1 : i < j => from[i] < from[j]
  BY <1>3
<1>7. Follows(new, list, key, from)
  <2>1. new # <<>>
    BY <1>5, <1>a
  <2>2. \A i \in 2 .. m + 1 : new[i] = list[from[i]] /\ list[from[i]] # key
    BY <1>2, <1>3, <1>a
  <2> QED BY <1>1, <1>4, <1>6, <1>a, <2>1, <2>2 DEF Follows
<1>8. \A i, j \in 1 .. m + 1 : new[i] = new[j] => i = j
  <2>1. \A i \in 2 .. m + 1 : new[i] # key
    BY <1>2, <1>3, <1>a
  <2>2. \A i, j \in 2 .. m + 1 : new[i] = new[j] => i = j
    <3> SUFFICES ASSUME NEW i \in 2 .. m + 1, NEW j \in 2 .. m + 1, new[i] = new[j] PROVE i = j
      OBVIOUS
    <3>1. list[i - 1] = list[j - 1]
      BY <1>a
    <3>2. i - 1 = j - 1
      BY Zenon, <1>1, <1>3, <1>a, <3>1
    <3> QED BY <1>a, <3>2
  <2> QED BY <1>5, <1>a, <2>1, <2>2
<1>9. Range(new) = {key} \cup {list[i] : i \in 1 .. m}
  <2>1. \A i \in 1 .. m + 1 : new[i] = key \/ \E a \in 1 .. m : new[i] = list[a]
    BY <1>3, <1>5, <1>a
  <2>2. \A a \in 1 .. m : a + 1 \in 1 .. m + 1 /\ new[a + 1] = list[a]
    <3> SUFFICES ASSUME NEW a \in 1 .. m PROVE a + 1 \in 1 .. m + 1 /\ new[a + 1] = list[a]
      OBVIOUS
    <3>1. a + 1 \in 2 .. m + 1 /\ (a + 1) - 1 = a /\ a + 1 \in 1 .. m + 1
      BY <1>a
    <3>2. new[a + 1] = list[(a + 1) - 1]
      BY <1>a, <3>1
    <3> QED BY <3>1, <3>2
  <2>3. 1 \in 1 .. m + 1
    BY <1>a
  <2>4. Range(new) = {new[i] : i \in 1 .. m + 1}
    BY <1>5 DEF Range
  <2>5. new[1] = key
    BY <1>a
  <2> HIDE DEF from
  <2> QED BY <2>1, <2>2, <2>3, <2>4, <2>5
<1>10. \A i \in 2 .. m + 1 : from[i] = i - 1
  BY <1>3
<1> QED BY <1>5, <1>7, <1>8, <1>9, <1>10 DEF IsInjective, Fronted

\* A container by its fields, and what changes them.
Box(k, l, i, u, g) == [kind |-> k, list |-> l, index |-> i, used |-> u, gone |-> g]
WithList(b, l) == [b EXCEPT !.list = l]
WithIndex(b, i) == [b EXCEPT !.index = i]
WithGone(b, g) == [b EXCEPT !.gone = g]

\* Each call changes the fields it names.
LEMMA BoxFields ==
    ASSUME NEW k, NEW l, NEW i, NEW u, NEW g
    PROVE  LET b == Box(k, l, i, u, g)
           IN  /\ b.kind = k /\ b.list = l /\ b.index = i /\ b.used = u /\ b.gone = g
               /\ \A key : Used(b, key) = Box(k, l, i, Append(u, key), g)
               /\ \A x : WithList(b, x) = Box(k, x, i, u, g)
               /\ \A x : WithIndex(b, x) = Box(k, l, x, u, g)
               /\ \A x : WithGone(b, x) = Box(k, l, i, u, x)
<1> DEFINE b == Box(k, l, i, u, g)
<1>1. b.kind = k /\ b.list = l /\ b.index = i /\ b.used = u /\ b.gone = g
  BY DEF Box
<1>2. \A key : Used(b, key) = Box(k, l, i, Append(u, key), g)
  BY DEF Box, Used
<1>3. \A x : WithList(b, x) = Box(k, x, i, u, g)
  BY DEF Box, WithList
<1>4. \A x : WithIndex(b, x) = Box(k, l, x, u, g)
  BY DEF Box, WithIndex
<1>5. \A x : WithGone(b, x) = Box(k, l, i, u, x)
  BY DEF Box, WithGone
<1> QED BY <1>1, <1>2, <1>3, <1>4, <1>5

\* What leaves a queue.
DroppedFrom(k, l, i, u, g) == Box(k, Tail(l), i \ {Head(l)}, u, Append(g, Head(l)))

\* dropped takes the oldest element out.
LEMMA DroppedBox ==
    ASSUME NEW k, NEW l, NEW i, NEW u, NEW g
    PROVE  dropped(Box(k, l, i, u, g)) = DroppedFrom(k, l, i, u, g)
<1> DEFINE b == Box(k, l, i, u, g)
<1>1. b.list = l /\ b.index = i /\ b.gone = g /\ b = Box(k, l, i, u, g)
  BY BoxFields
<1> HIDE DEF b
<1>2. dropped(b) = WithGone(WithList(WithIndex(b, b.index \ {Head(b.list)}), Tail(b.list)), Append(b.gone, Head(b.list)))
  BY DEF dropped, WithGone, WithList, WithIndex
<1>3. dropped(b) = Box(k, Tail(l), i \ {Head(l)}, u, Append(g, Head(l)))
  <2>1. \A x, y, z : WithGone(WithList(WithIndex(b, x), y), z) = Box(k, y, x, u, z)
    BY <1>1, BoxFields
  <2>2. dropped(b) = WithGone(WithList(WithIndex(b, i \ {Head(l)}), Tail(l)), Append(g, Head(l)))
    BY <1>1, <1>2
  <2> QED BY <2>1, <2>2
<1>4. dropped(b) = DroppedFrom(k, l, i, u, g)
  BY <1>3 DEF DroppedFrom
<1> QED BY <1>4 DEF b

\* What enters a queue.
LEMMA EnteredBox ==
    ASSUME NEW b, NEW k, NEW l, NEW i, NEW u, NEW g, b = Box(k, l, i, u, g), NEW key
    PROVE  entered(b, key) = Box(k, Append(l, key), i \cup {key}, Append(u, key), g)
<1>1. b.list = l /\ b.index = i
  BY BoxFields
<1>2. entered(b, key) = Used(WithIndex(WithList(b, Append(b.list, key)), b.index \cup {key}), key)
  BY DEF entered, WithIndex, WithList
<1> QED BY <1>1, <1>2, BoxFields

\* LruSet::insert.
LEMMA LruStep ==
    ASSUME BoxInv, box.kind = "LruSet", NEW key \in Keys, box' = Used(insert(box, key), key)
    PROVE  BoxInv'
<1> DEFINE list == box.list
           index == box.index
           used == box.used
           now == Append(used, key)
<1>1. box = Box("LruSet", list, index, used, box.gone)
  BY DEF BoxInv, Box
<1>2. Agree(list, index) /\ used \in Seq(Keys) /\ box.gone \in Seq(Keys) /\ Recent(list, used)
  BY DEF BoxInv
<1>3. now \in Seq(Keys) /\ Latest(now, used, key)
  BY Zenon, <1>2, UsedAgain
<1>4. ASSUME NEW new, NEW ix, Used(insert(box, key), key) = Box("LruSet", new, ix, now, box.gone),
             Agree(new, ix), Recent(new, now)
      PROVE  BoxInv'
  <2>1. box' = Box("LruSet", new, ix, now, box.gone)
    BY <1>4
  <2> HIDE DEF list, index, used, now
  <2>2. box'.kind = "LruSet" /\ box'.list = new /\ box'.index = ix /\ box'.used = now /\ box'.gone = box.gone
    BY <2>1 DEF Box
  <2> QED BY <1>2, <1>3, <1>4, <2>1, <2>2 DEF BoxInv, Box
<1>5. CASE key \in index
  <2>1. PICK new, from : /\ touched(box, key) = [box EXCEPT !.list = new]
                         /\ Follows(new, list, key, from)
                         /\ Agree(new, index) /\ Len(new) = Len(list)
    BY <1>2, <1>5, Touched
  <2>2. Used(insert(box, key), key)
           = Box("LruSet", new, index, now, box.gone)
    <3>1. insert(box, key) = WithList(box, new)
      BY <1>5, <2>1 DEF insert, WithList
    <3> HIDE DEF list, index, used
    <3>2. insert(box, key) = Box("LruSet", new, index, used, box.gone)
      BY <1>1, <3>1, BoxFields
    <3> QED BY <3>2, BoxFields
  <2>3. Range(new) = Range(list)
    BY <1>2, <2>1 DEF Agree
  <2> HIDE DEF list, index, used, now
  <2>4. Recent(new, now)
    BY <1>2, <1>3, <2>1, <2>3, FollowsRecent
  <2> QED BY <1>4, <2>1, <2>2, <2>4
<1>6. CASE key \notin index
  <2> DEFINE full == <<key>> \o list
             n == Len(list)
             b == WithIndex(WithList(box, full), index \cup {key})
  <2>b. /\ b = Box("LruSet", full, index \cup {key}, used, box.gone)
        /\ b.list = full
    <3>1. \A x, y : WithIndex(WithList(box, x), y) = Box("LruSet", x, y, used, box.gone)
      <4> HIDE DEF list, index, used
      <4> QED BY <1>1, BoxFields
    <3> HIDE DEF list, index, used, full
    <3> QED BY <3>1, BoxFields
  <2>c. insert(box, key) = IF Len(b.list) > Capacity THEN WithList(WithIndex(b, b.index \ {Last(b.list)}), Front(b.list)) ELSE b
    BY <1>6 DEF insert, WithIndex, WithList
  <2>1. /\ full \in Seq(Keys) /\ Len(full) = n + 1 /\ full[1] = key
        /\ \A i \in 2 .. n + 1 : full[i] = list[i - 1]
    <3>1. list \in Seq(Keys) /\ full = <<key>> \o list
      BY <1>2 DEF Agree
    <3> HIDE DEF list, full
    <3> QED BY <3>1, Preceded
  <2>2. n \in Nat /\ n <= Capacity /\ Capacity \in Nat \ {0} /\ list \in Seq(Keys) /\ DOMAIN list = 1 .. n
        /\ index = Range(list) /\ index = {list[i] : i \in 1 .. n}
    BY <1>2, CapacityAssumption DEF Agree, Range
  <2>3. CASE n < Capacity
    <3>1. Used(insert(box, key), key)
             = Box("LruSet", full, index \cup {key}, now, box.gone)
      <4>1. ~(Len(b.list) > Capacity)
        BY <2>1, <2>2, <2>3, <2>b
      <4> HIDE DEF b, list, index, used, full
      <4>2. insert(box, key) = b
        BY <2>c, <4>1
      <4> QED BY <2>b, <4>2, BoxFields
    <3> HIDE DEF list, index, used, now, full, n
    <3>2. PICK from : Fronted(full, list, key, n, from)
      <4>1. Shifted(full, list, key, n)
        BY <2>1, <2>2, <2>3 DEF n, Shifted
      <4> QED BY <1>2, <1>6, <4>1, PutInFront
    <3>3. Agree(full, index \cup {key})
      BY <2>1, <2>2, <2>3, <3>2 DEF Agree, Fronted
    <3>4. Recent(full, now)
      <4>1. Len(list) < Capacity /\ Range(full) = Range(list) \cup {key}
        BY <2>2, <2>3, <3>2 DEF n, Fronted
      <4>2. Follows(full, list, key, from)
        BY <3>2 DEF Fronted
      <4> QED BY <1>2, <1>3, <4>1, <4>2, FollowsRecent
    <3> QED BY <1>4, <3>1, <3>3, <3>4
  <2>4. CASE n = Capacity
    <3> DEFINE new == Front(full)
               ix == (index \cup {key}) \ {Last(full)}
    <3>1. Used(insert(box, key), key) = Box("LruSet", new, ix, now, box.gone)
      <4>1. Len(b.list) > Capacity
        BY <2>1, <2>2, <2>4, <2>b
      <4> HIDE DEF b, list, index, used, full
      <4>2. insert(box, key) = WithList(WithIndex(b, (index \cup {key}) \ {Last(full)}), Front(full))
        <5>1. b.index = index \cup {key}
          BY <2>b, BoxFields
        <5> QED BY ZenonT(30), <2>b, <2>c, <4>1, <5>1
      <4>3. insert(box, key) = Box("LruSet", new, ix, used, box.gone)
        BY <2>b, <4>2, BoxFields
      <4> HIDE DEF new, ix
      <4> QED BY <4>3, BoxFields
    <3>2. Last(full) = list[n]
      BY <2>1, <2>2, <2>4 DEF Last
    <3>3. new \in Seq(Keys) /\ Len(new) = (n - 1) + 1 /\ new[1] = key /\ \A i \in 2 .. n : new[i] = list[i - 1]
      <4>1. new = SubSeq(full, 1, n)
        BY <2>1 DEF Front
      <4>2. n >= 1 /\ n <= Len(full) /\ full \in Seq(Keys)
        BY <2>1, <2>2, <2>4
      <4> HIDE DEF full, new, n, list
      <4>3. new \in Seq(Keys) /\ Len(new) = n /\ \A i \in 1 .. n : new[i] = full[i]
        BY <2>2, <4>1, <4>2
      <4> QED BY <2>1, <2>2, <4>2, <4>3
    <3> HIDE DEF list, index, used, now, full, new
    <3>4. PICK from : Fronted(new, list, key, n - 1, from)
      <4>1. Shifted(new, list, key, n - 1)
        BY <2>2, <2>4, <3>3 DEF n, Shifted
      <4> QED BY <1>2, <1>6, <4>1, PutInFront
    <3>a. /\ Follows(new, list, key, from) /\ IsInjective(new)
          /\ Range(new) = {key} \cup {list[i] : i \in 1 .. n - 1}
          /\ \A i \in 2 .. n : from[i] = i - 1
      BY <2>2, <3>4 DEF Fronted
    <3>5. Range(list) \ Range(new) \subseteq {list[n]} /\ list[n] \notin Range(new) /\ key \notin Range(list)
      <4>0. n \in Nat
        BY <2>2
      <4> HIDE DEF n
      <4>1. \A i \in 1 .. n : i \in 1 .. n - 1 \/ i = n
        BY <4>0
      <4>2. \A i \in 1 .. n - 1 : list[i] # list[n]
        BY <1>2, <2>2, <2>4 DEF Agree, IsInjective
      <4>3. n \in 1 .. n
        BY <2>2, <2>4
      <4>4. key \notin Range(list) /\ Range(list) = {list[i] : i \in 1 .. n}
        BY <1>6, <2>2
      <4>5. list[n] \in Range(list)
        BY <4>3, <4>4
      <4>6. Range(new) = {key} \cup {list[i] : i \in 1 .. n - 1}
        BY <3>a
      <4> QED BY <4>1, <4>2, <4>4, <4>5, <4>6
    <3>6. Agree(new, ix)
      <4>1. ix = Range(new)
        <5>1. Range(new) = {key} \cup (Range(list) \ {list[n]})
          BY <2>2, <3>a, <3>5
        <5> QED BY ZenonT(30), <2>2, <3>2, <3>5, <5>1
      <4>2. Len(new) <= Capacity
        BY <2>2, <3>3
      <4> QED BY <3>3, <3>a, <4>1, <4>2 DEF Agree
    <3>7. Recent(new, now)
      <4>1. Len(list) = Capacity /\ Len(new) = Capacity
        BY <2>2, <2>4, <3>3 DEF n
      <4>2. \A k \in Range(list) \ Range(new) : \A i \in 2 .. Len(new) : \E a \in DOMAIN list : k = list[a] /\ from[i] < a
        <5>1. n \in DOMAIN list /\ \A i \in 2 .. Len(new) : from[i] < n
          BY <2>2, <2>4, <3>3, <3>a
        <5> QED BY <3>5, <5>1
      <4> QED BY <1>2, <1>3, <3>a, <4>1, <4>2, FollowsRecent
    <3> QED BY <1>4, <3>1, <3>6, <3>7
  <2> QED BY <2>2, <2>3, <2>4
<1> QED BY <1>5, <1>6

\* The index of a list that holds no element twice.
Linked(list, index) == list \in Seq(Keys) /\ index = Range(list) /\ IsInjective(list)

\* The index has as many elements as the list.
LEMMA IndexSize == ASSUME NEW list, NEW index, Linked(list, index) PROVE Cardinality(index) = Len(list)
<1>1. list \in Seq(Keys) /\ Len(list) \in Nat /\ DOMAIN list = 1 .. Len(list)
  BY DEF Linked
<1>2. list \in Bijection(1 .. Len(list), index)
  <2>1. list \in [1 .. Len(list) -> index]
    BY <1>1 DEF Linked, Range
  <2>2. \A i, j \in 1 .. Len(list) : list[i] = list[j] => i = j
    BY <1>1 DEF Linked, IsInjective
  <2>3. \A k \in index : \E i \in 1 .. Len(list) : list[i] = k
    BY <1>1 DEF Linked, Range
  <2> QED BY <2>1, <2>2, <2>3 DEF Bijection, Injection, Surjection, IsInjective
<1> QED BY <1>1, <1>2, FS_CountingElements DEF ExistsBijection

\* Sequences with the same elements are the same.
LEMMA SameSequence ==
    ASSUME NEW a \in Seq(Keys), NEW b \in Seq(Keys), Len(a) = Len(b), \A i \in 1 .. Len(a) : a[i] = b[i]
    PROVE  a = b
  OBVIOUS

\* An element enters a queue at its end.
LEMMA Enters ==
    ASSUME NEW list, NEW index, Linked(list, index), NEW key \in Keys, key \notin index,
           NEW gone \in Seq(Keys), NEW used, used = gone \o list
    PROVE  /\ Linked(Append(list, key), index \cup {key}) /\ Len(Append(list, key)) = Len(list) + 1
           /\ Append(used, key) = gone \o Append(list, key) /\ Append(used, key) \in Seq(Keys)
<1> DEFINE new == Append(list, key)
           n == Len(list)
<1>1. list \in Seq(Keys) /\ n \in Nat /\ DOMAIN list = 1 .. n
  BY DEF Linked
<1>2. /\ new \in Seq(Keys) /\ Len(new) = n + 1 /\ DOMAIN new = 1 .. n + 1
      /\ new[n + 1] = key /\ \A i \in 1 .. n : new[i] = list[i]
  BY <1>1
<1>3. \A i, j \in 1 .. n : list[i] = list[j] => i = j
  BY Zenon, <1>1 DEF Linked, IsInjective
<1>4. index = {list[i] : i \in 1 .. n}
  BY <1>1 DEF Linked, Range
<1> HIDE DEF n, new
<1>5. Append(used, key) = gone \o new /\ Append(used, key) \in Seq(Keys)
  <2>1. used \in Seq(Keys) /\ Len(used) = Len(gone) + n /\ Append(used, key) \in Seq(Keys)
        /\ Len(Append(used, key)) = Len(gone) + n + 1 /\ Len(gone) \in Nat
    BY <1>1 DEF n
  <2>2. gone \o new \in Seq(Keys) /\ Len(gone \o new) = Len(gone) + n + 1
    BY <1>1, <1>2
  <2>3. ASSUME NEW i \in 1 .. Len(gone) + n + 1 PROVE Append(used, key)[i] = (gone \o new)[i]
    <3>1. CASE i \in 1 .. Len(gone)
      BY <1>1, <1>2, <2>1, <3>1 DEF n
    <3>2. CASE i \in Len(gone) + 1 .. Len(gone) + n
      <4>1. i - Len(gone) \in 1 .. n /\ i \in 1 .. Len(used) /\ ~(i <= Len(gone))
        BY <1>1, <2>1, <3>2
      <4>2. Append(used, key)[i] = list[i - Len(gone)]
        BY <1>1, <2>1, <4>1 DEF n
      <4>3. (gone \o new)[i] = new[i - Len(gone)]
        BY <1>1, <1>2, <2>1, <4>1
      <4> QED BY <1>2, <4>1, <4>2, <4>3
    <3>3. CASE i = Len(gone) + n + 1
      <4>1. Append(used, key)[i] = key
        BY <2>1, <3>3, <1>1
      <4>2. (gone \o new)[i] = new[n + 1]
        BY <1>1, <1>2, <2>1, <3>3
      <4> QED BY <1>2, <4>1, <4>2
    <3>4. n \in Nat /\ Len(gone) \in Nat
      BY <1>1, <2>1
    <3>5. i \in 1 .. Len(gone) \/ i \in Len(gone) + 1 .. Len(gone) + n \/ i = Len(gone) + n + 1
      BY <3>4
    <3> QED BY ZenonT(30), <3>1, <3>2, <3>3, <3>5
  <2> QED BY Zenon, <2>1, <2>2, <2>3, SameSequence
<1>6. \A i \in 1 .. n + 1 : i \in 1 .. n \/ i = n + 1
  BY <1>1
<1>7. n + 1 \in 1 .. n + 1 /\ \A i \in 1 .. n : i \in 1 .. n + 1
  BY <1>1
<1>8. \A i \in 1 .. n : new[i] # key
  BY <1>2, <1>4
<1>9. IsInjective(new)
  BY <1>2, <1>3, <1>6, <1>8 DEF IsInjective
<1>10. Range(new) = index \cup {key}
  <2>1. Range(new) = {new[i] : i \in 1 .. n + 1}
    BY <1>2 DEF Range
  <2> QED BY <1>2, <1>4, <1>6, <1>7, <2>1
<1>11. Linked(new, index \cup {key})
  BY <1>2, <1>9, <1>10 DEF Linked
<1> QED BY <1>2, <1>5, <1>11 DEF n, new

\* The oldest element leaves a queue.
LEMMA Leaves ==
    ASSUME NEW list, NEW index, Linked(list, index), list # <<>>,
           NEW gone \in Seq(Keys), NEW used, used = gone \o list
    PROVE  /\ Linked(Tail(list), index \ {Head(list)}) /\ Len(Tail(list)) = Len(list) - 1
           /\ used = Append(gone, Head(list)) \o Tail(list)
           /\ Append(gone, Head(list)) \in Seq(Keys)
<1> DEFINE new == Tail(list)
           n == Len(list)
<1>1. list \in Seq(Keys) /\ n \in Nat \ {0} /\ DOMAIN list = 1 .. n
  BY DEF Linked
<1>2. /\ new \in Seq(Keys) /\ Len(new) = n - 1 /\ DOMAIN new = 1 .. n - 1
      /\ Head(list) = list[1] /\ \A i \in 1 .. n - 1 : new[i] = list[i + 1]
  BY <1>1
<1>3. \A i, j \in 1 .. n : list[i] = list[j] => i = j
  BY <1>1 DEF Linked, IsInjective
<1>4. index = {list[i] : i \in 1 .. n}
  BY <1>1 DEF Linked, Range
<1>5. used = Append(gone, Head(list)) \o new /\ Append(gone, Head(list)) \in Seq(Keys)
  BY <1>1
<1> HIDE DEF n, new
<1>6. \A i \in 1 .. n - 1 : i + 1 \in 1 .. n /\ i + 1 # 1
  BY <1>1
<1>7. \A i \in 1 .. n : i # 1 => i - 1 \in 1 .. n - 1 /\ (i - 1) + 1 = i
  BY <1>1
<1>8. \A i, j \in 1 .. n - 1 : new[i] = new[j] => i = j
  <2> SUFFICES ASSUME NEW i \in 1 .. n - 1, NEW j \in 1 .. n - 1, new[i] = new[j] PROVE i = j
    OBVIOUS
  <2>0. list[i + 1] = list[j + 1] /\ i + 1 \in 1 .. n /\ j + 1 \in 1 .. n
    BY <1>2, <1>6
  <2>1. i + 1 = j + 1
    BY <1>3, <2>0
  <2> QED BY <1>1, <2>1
<1>9. Range(new) = index \ {Head(list)}
  <2>1. Range(new) = {new[i] : i \in 1 .. n - 1}
    BY <1>2 DEF Range
  <2>2. 1 \in 1 .. n
    BY <1>1
  <2>3. \A i \in 1 .. n - 1 : new[i] \in index /\ new[i] # Head(list)
    BY <1>2, <1>3, <1>4, <1>6, <2>2
  <2>4. \A i \in 1 .. n : list[i] # Head(list) => list[i] = new[i - 1] /\ i - 1 \in 1 .. n - 1
    BY <1>2, <1>7
  <2> QED BY ZenonT(30), <1>4, <2>1, <2>3, <2>4
<1>10. Linked(new, index \ {Head(list)})
  BY <1>2, <1>8, <1>9 DEF Linked, IsInjective
<1> QED BY <1>2, <1>5, <1>10 DEF n, new

\* A queue with room for what it holds.
Queued(k, l, i, u, g) ==
    /\ Linked(l, i) /\ Len(l) <= Capacity
    /\ u \in Seq(Keys) /\ g \in Seq(Keys) /\ u = g \o l
    /\ k = "CappedSet" /\ g # <<>> => Len(l) = Capacity

\* The invariant of a queue, by its fields.
LEMMA QueueInv ==
    ASSUME NEW k \in {"CappedSet", "UniqueQueue"}, NEW l, NEW i, NEW u, NEW g,
           box' = Box(k, l, i, u, g), Queued(k, l, i, u, g)
    PROVE  BoxInv'
<1>1. box'.kind = k /\ box'.list = l /\ box'.index = i /\ box'.used = u /\ box'.gone = g
  BY BoxFields
<1>2. k # "LruSet"
  OBVIOUS
<1>3. box' = [kind |-> box'.kind, list |-> box'.list, index |-> box'.index, used |-> box'.used, gone |-> box'.gone]
  BY <1>1 DEF Box
<1>4. Agree(l, i)
  BY DEF Queued, Linked, Agree
<1> QED BY Zenon, <1>1, <1>2, <1>3, <1>4 DEF BoxInv, Queued

\* A queue before a step.
LEMMA QueueBefore ==
    ASSUME BoxInv, box.kind \in {"CappedSet", "UniqueQueue"}
    PROVE  /\ box = Box(box.kind, box.list, box.index, box.used, box.gone)
           /\ Queued(box.kind, box.list, box.index, box.used, box.gone)
<1>1. box = Box(box.kind, box.list, box.index, box.used, box.gone)
  BY DEF BoxInv, Box
<1>2. Linked(box.list, box.index) /\ Len(box.list) <= Capacity
  BY DEF BoxInv, Agree, Linked
<1>3. Queued(box.kind, box.list, box.index, box.used, box.gone)
  BY <1>2 DEF BoxInv, Queued
<1> QED BY <1>1, <1>3

\* A step that leaves a queue as it is.
LEMMA QueueSame == ASSUME BoxInv, box.kind \in {"CappedSet", "UniqueQueue"}, box' = box PROVE BoxInv'
  BY QueueBefore, QueueInv

\* CappedSet::insert.
LEMMA CappedStep ==
    ASSUME BoxInv, box.kind = "CappedSet", NEW key \in Keys, box' = insert_capped(box, key)
    PROVE  BoxInv'
<1> DEFINE k == box.kind
           l == box.list
           i == box.index
           u == box.used
           g == box.gone
<1>1. box = Box(k, l, i, u, g) /\ Queued(k, l, i, u, g) /\ k = "CappedSet"
  BY QueueBefore
<1>2. CASE key \in i
  BY <1>2, QueueSame DEF insert_capped
<1>3. CASE key \notin i
  <2>1. box' = entered(IF Cardinality(i) = Capacity THEN dropped(box) ELSE box, key)
    BY <1>3 DEF insert_capped
  <2> HIDE DEF k, l, i, u, g
  <2>2. /\ Linked(l, i) /\ Len(l) <= Capacity /\ Len(l) \in Nat /\ Capacity \in Nat \ {0}
        /\ u \in Seq(Keys) /\ g \in Seq(Keys) /\ u = g \o l /\ (g # <<>> => Len(l) = Capacity)
        /\ Cardinality(i) = Len(l)
    BY <1>1, IndexSize, CapacityAssumption DEF Queued, Linked
  <2>3. CASE Len(l) = Capacity
    <3> DEFINE l1 == Tail(l)
               i1 == i \ {Head(l)}
               g1 == Append(g, Head(l))
    <3>1. l # <<>>
      BY <2>2, <2>3
    <3>2. /\ Linked(l1, i1) /\ Len(l1) = Len(l) - 1 /\ u = g1 \o l1 /\ g1 \in Seq(Keys)
      BY Zenon, <2>2, <3>1, Leaves
    <3>d. DroppedFrom(k, l, i, u, g) = Box(k, l1, i1, u, g1)
      BY DEF DroppedFrom
    <3>4. key \notin i1
      BY <1>3
    <3> HIDE DEF l1, i1, g1
    <3>3. dropped(box) = Box(k, l1, i1, u, g1)
      BY <1>1, <3>d, DroppedBox
    <3>5. box' = Box(k, Append(l1, key), i1 \cup {key}, Append(u, key), g1)
      <4>1. box' = entered(dropped(box), key)
        BY <2>1, <2>2, <2>3
      <4> QED BY <3>3, <4>1, EnteredBox
    <3>6. /\ Linked(Append(l1, key), i1 \cup {key}) /\ Len(Append(l1, key)) = Len(l1) + 1
          /\ Append(u, key) = g1 \o Append(l1, key) /\ Append(u, key) \in Seq(Keys)
      BY ZenonT(30), <3>2, <3>4, Enters
    <3>7. Len(Append(l1, key)) = Capacity
      BY <2>2, <2>3, <3>2, <3>6
    <3>8. Queued(k, Append(l1, key), i1 \cup {key}, Append(u, key), g1)
      BY <2>2, <3>2, <3>6, <3>7 DEF Queued
    <3> QED BY <1>1, <3>5, <3>8, QueueInv
  <2>4. CASE Len(l) # Capacity
    <3>1. box' = Box(k, Append(l, key), i \cup {key}, Append(u, key), g)
      <4>1. box' = entered(box, key)
        BY <2>1, <2>2, <2>4
      <4> QED BY <1>1, <4>1, EnteredBox
    <3>2. /\ Linked(Append(l, key), i \cup {key}) /\ Len(Append(l, key)) = Len(l) + 1
          /\ Append(u, key) = g \o Append(l, key) /\ Append(u, key) \in Seq(Keys)
      <4>1. Linked(l, i) /\ g \in Seq(Keys) /\ u = g \o l
        BY <2>2
      <4> QED BY ZenonT(30), <1>3, <4>1, Enters
    <3>3. Len(Append(l, key)) <= Capacity /\ g = <<>>
      BY <2>2, <2>4, <3>2
    <3>4. Queued(k, Append(l, key), i \cup {key}, Append(u, key), g)
      BY <2>2, <3>2, <3>3 DEF Queued
    <3> QED BY <1>1, <3>1, <3>4, QueueInv
  <2> QED BY <2>3, <2>4
<1> QED BY <1>2, <1>3

\* UniqueQueue::push.
LEMMA PushStep ==
    ASSUME BoxInv, box.kind = "UniqueQueue", NEW key \in Keys, box' = push(box, key)
    PROVE  BoxInv'
<1> DEFINE k == box.kind
           l == box.list
           i == box.index
           u == box.used
           g == box.gone
           l1 == Append(l, key)
           i1 == i \cup {key}
           u1 == Append(u, key)
           in == entered(box, key)
<1>1. box = Box(k, l, i, u, g) /\ Queued(k, l, i, u, g) /\ k = "UniqueQueue"
  BY QueueBefore
<1>2. CASE key \in i
  BY <1>2, QueueSame DEF push
<1>3. CASE key \notin i
  <2>1. box' = IF Len(in.list) > Capacity THEN dropped(in) ELSE in
    BY <1>3 DEF push
  <2> HIDE DEF k, l, i, u, g, in
  <2>2. in = Box(k, l1, i1, u1, g)
    BY <1>1, EnteredBox DEF in
  <2>3. /\ Linked(l, i) /\ Len(l) <= Capacity /\ Len(l) \in Nat /\ Capacity \in Nat \ {0}
        /\ g \in Seq(Keys) /\ u = g \o l
    BY <1>1, CapacityAssumption DEF Queued, Linked
  <2>4. /\ Linked(l1, i1) /\ Len(l1) = Len(l) + 1 /\ u1 = g \o l1 /\ u1 \in Seq(Keys)
    BY ZenonT(30), <1>3, <2>3, Enters
  <2> HIDE DEF l1, i1, u1
  <2>5. in.list = l1
    BY <2>2, BoxFields
  <2>6. CASE Len(l1) > Capacity
    <3> DEFINE l2 == Tail(l1)
               i2 == i1 \ {Head(l1)}
               g2 == Append(g, Head(l1))
    <3>1. box' = Box(k, l2, i2, u1, g2)
      <4>1. box' = dropped(in)
        BY <2>1, <2>5, <2>6
      <4>2. DroppedFrom(k, l1, i1, u1, g) = Box(k, l2, i2, u1, g2)
        BY DEF DroppedFrom
      <4> HIDE DEF l2, i2, g2
      <4> QED BY <2>2, <4>1, <4>2, DroppedBox
    <3>2. l1 # <<>>
      BY <2>3, <2>4
    <3>3. Linked(l2, i2) /\ Len(l2) = Len(l1) - 1 /\ u1 = g2 \o l2 /\ g2 \in Seq(Keys)
      BY Zenon, <2>3, <2>4, <3>2, Leaves
    <3> HIDE DEF l2, i2, g2
    <3>4. Len(l2) <= Capacity
      BY <2>3, <2>4, <3>3
    <3>5. Queued(k, l2, i2, u1, g2)
      BY <1>1, <2>4, <3>3, <3>4 DEF Queued
    <3> QED BY <1>1, <3>1, <3>5, QueueInv
  <2>7. CASE ~(Len(l1) > Capacity)
    <3>1. box' = Box(k, l1, i1, u1, g)
      BY <2>1, <2>2, <2>5, <2>7
    <3>2. Len(l1) <= Capacity
      BY <2>3, <2>4, <2>7
    <3>3. Queued(k, l1, i1, u1, g)
      BY <1>1, <2>3, <2>4, <3>2 DEF Queued
    <3> QED BY <1>1, <3>1, <3>3, QueueInv
  <2> QED BY <2>6, <2>7
<1> QED BY <1>2, <1>3

\* UniqueQueue::pop.
LEMMA PopStep == ASSUME BoxInv, Pop PROVE BoxInv'
<1> DEFINE k == box.kind
           l == box.list
           i == box.index
           u == box.used
           g == box.gone
           l1 == Tail(l)
           i1 == i \ {Head(l)}
           g1 == Append(g, Head(l))
<1>1. box = Box(k, l, i, u, g) /\ Queued(k, l, i, u, g) /\ k = "UniqueQueue" /\ l # <<>> /\ box' = dropped(box)
  BY QueueBefore DEF Pop
<1> HIDE DEF k, l, i, u, g
<1>2. box' = Box(k, l1, i1, u, g1)
  <2>1. DroppedFrom(k, l, i, u, g) = Box(k, l1, i1, u, g1)
    BY DEF DroppedFrom
  <2> HIDE DEF l1, i1, g1
  <2> QED BY <1>1, <2>1, DroppedBox
<1>3. Linked(l, i) /\ Len(l) <= Capacity /\ g \in Seq(Keys) /\ u = g \o l /\ u \in Seq(Keys) /\ Len(l) \in Nat
  BY <1>1 DEF Queued, Linked
<1>4. Linked(l1, i1) /\ Len(l1) = Len(l) - 1 /\ u = g1 \o l1 /\ g1 \in Seq(Keys)
  BY ZenonT(30), <1>1, <1>3, Leaves
<1> HIDE DEF l1, i1, g1
<1>5. Len(l1) <= Capacity
  BY <1>3, <1>4, CapacityAssumption
<1>6. Queued(k, l1, i1, u, g1)
  BY <1>1, <1>3, <1>4, <1>5 DEF Queued
<1> QED BY <1>1, <1>2, <1>6, QueueInv

\* What an empty container satisfies.
LEMMA EmptyFacts ==
    ASSUME NEW kind
    PROVE  LET b == Empty(kind)
           IN  /\ b = [kind |-> b.kind, list |-> b.list, index |-> b.index, used |-> b.used, gone |-> b.gone]
               /\ b.list = <<>> /\ b.index = {} /\ b.used = <<>> /\ b.gone = <<>>
               /\ Agree(<<>>, {}) /\ Recent(<<>>, <<>>) /\ <<>> \in Seq(Keys) /\ <<>> = <<>> \o <<>>
<1> DEFINE b == Empty(kind)
<1>1. /\ b = [kind |-> b.kind, list |-> b.list, index |-> b.index, used |-> b.used, gone |-> b.gone]
      /\ b.list = <<>> /\ b.index = {} /\ b.used = <<>> /\ b.gone = <<>>
  BY DEF Empty
<1>2. Range(<<>>) = {} /\ IsInjective(<<>>) /\ <<>> \in Seq(Keys) /\ Len(<<>>) = 0
  BY DEF Range, IsInjective
<1>3. Agree(<<>>, {})
  BY <1>2, CapacityAssumption DEF Agree
<1>4. Recent(<<>>, <<>>)
  BY <1>2 DEF Recent
<1>5. <<>> = <<>> \o <<>>
  OBVIOUS
<1> QED BY <1>1, <1>2, <1>3, <1>4, <1>5

\* Index and list agree in every state of a container; an LruSet keeps the elements used last, in order, and a
\* queue gives them up in the order they came (lru_set.hpp 38-53, capped_set.hpp 40-55, unique_queue.hpp 57-82).
THEOREM ContainersStayExact == ContainersSpec => []ContainersExact
<1>1. InitContainers => BoxInv
  BY Zenon, EmptyFacts DEF InitContainers, BoxInv
<1>2. ASSUME BoxInv, [ContainersNext \/ PagesNext]_containersVars PROVE BoxInv'
  <2>1. CASE box' = box
    BY <1>2, <2>1 DEF BoxInv
  <2>2. CASE box.kind \in Kinds /\ \E key \in Keys : Insert(key)
    <3>1. PICK key \in Keys : Insert(key)
      BY <2>2
    <3>2. CASE box.kind = "LruSet"
      <4>1. box' = Used(insert(box, key), key)
        BY <3>1, <3>2 DEF Insert
      <4> QED BY <1>2, <3>2, <4>1, LruStep
    <3>3. CASE box.kind = "CappedSet"
      <4>1. box' = insert_capped(box, key)
        BY <3>1, <3>3 DEF Insert
      <4> QED BY <1>2, <3>3, <4>1, CappedStep
    <3>4. CASE box.kind = "UniqueQueue"
      <4>1. box' = push(box, key)
        BY <3>1, <3>4 DEF Insert
      <4> QED BY <1>2, <3>4, <4>1, PushStep
    <3> QED BY <2>2, <3>2, <3>3, <3>4 DEF Kinds
  <2>3. CASE Pop
    BY <1>2, <2>3, PopStep
  <2>4. CASE Clear
    <3>1. box' = Empty(box.kind)
      BY <2>4 DEF Clear
    <3> QED BY Zenon, <3>1, EmptyFacts DEF BoxInv
  <2>5. \/ box' = box
        \/ box.kind \in Kinds /\ \E key \in Keys : Insert(key)
        \/ Pop
        \/ Clear
    BY <1>2 DEF ContainersNext, PagesNext, containersVars
  <2> QED BY <2>1, <2>2, <2>3, <2>4, <2>5
<1> QED BY <1>1, <1>2, BoxInvShows, PTL DEF ContainersSpec

-----------------------------------------------------------------------------
(* The locked pages.                                                       *)

\* The objects on a page.
On(page) == {object \in live : page \in Covered(object)}

\* The counts of the pages are exact.
PagesInv ==
    /\ pages \in [AllPages -> Nat] /\ IsFiniteSet(live)
    /\ PagesExact

\* A page of an object that is released is counted at least once.
LEMMA OneLess ==
    ASSUME NEW S, IsFiniteSet(S), NEW x \in S
    PROVE  IsFiniteSet(S \ {x}) /\ Cardinality(S \ {x}) \in Nat /\ Cardinality(S) = Cardinality(S \ {x}) + 1
<1>1. IsFiniteSet(S \ {x}) /\ Cardinality(S \ {x}) = Cardinality(S) - 1 /\ Cardinality(S) \in Nat
  BY FS_RemoveElement, FS_CardinalityType
<1>2. Cardinality(S \ {x}) \in Nat
  BY <1>1, FS_CardinalityType
<1> QED BY <1>1, <1>2

\* A page of an object that is allocated is counted once more.
LEMMA OneMore ==
    ASSUME NEW S, IsFiniteSet(S), NEW x, x \notin S
    PROVE  IsFiniteSet(S \cup {x}) /\ Cardinality(S \cup {x}) = Cardinality(S) + 1
  BY FS_AddElement

\* There are finitely many objects on a page.
LEMMA OnFinite == ASSUME PagesInv, NEW page PROVE IsFiniteSet(On(page)) /\ Cardinality(On(page)) \in Nat
<1>1. On(page) \subseteq live
  BY DEF On
<1> QED BY <1>1, FS_Subset, FS_CardinalityType DEF PagesInv

\* An object stays on its pages.
LEMMA CoveredKept == ASSUME DOMAIN pages' = DOMAIN pages PROVE \A object : Covered(object)' = Covered(object)
  BY DEF Covered

\* secure_allocator::allocate.
LEMMA AllocateStep ==
    ASSUME PagesInv, NEW object \in DOMAIN Objects, allocate(object) PROVE PagesInv'
<1>1. PICK stop \in Stops : lock_range(object, stop)
  BY DEF allocate
<1> DEFINE locked == Before(object, stop)
<1>2. /\ pages' = [page \in DOMAIN pages |-> pages[page] + IF page \in locked THEN 1 ELSE 0]
      /\ mlocked' = mlocked \cup locked
      /\ tainted' = IF stop = NoPage THEN tainted ELSE tainted \cup Covered(object)
      /\ locked \subseteq Covered(object) /\ (stop = NoPage => locked = Covered(object))
      /\ Covered(object) \subseteq DOMAIN pages
      /\ object \notin live /\ live' = live \cup {object}
  BY Zenon, <1>1 DEF lock_range, Taint, Before, allocate, Covered
<1> HIDE DEF locked
<1>3. pages' \in [AllPages -> Nat] /\ DOMAIN pages' = AllPages /\ DOMAIN pages = AllPages
  BY <1>2 DEF PagesInv
<1>4. IsFiniteSet(live')
  BY <1>2, FS_AddElement DEF PagesInv
<1>5. mlocked' = {page \in DOMAIN pages' : pages'[page] > 0}
  BY <1>2, <1>3 DEF PagesInv, PagesExact
<1>6. ASSUME NEW page \in DOMAIN pages' \ tainted' PROVE pages'[page] = Cardinality(On(page)')
  <2>1. page \in AllPages \ tainted /\ pages[page] = Cardinality(On(page)) /\ pages[page] \in Nat
    BY <1>2, <1>3, <1>6 DEF PagesInv, PagesExact, On
  <2>2. page \in locked <=> page \in Covered(object)
    BY <1>2, <1>6
  <2>3. On(page)' = IF page \in Covered(object) THEN On(page) \cup {object} ELSE On(page)
    BY <1>2, <1>3, CoveredKept DEF On
  <2>4. object \notin On(page)
    BY <1>2 DEF On
  <2>5. CASE page \in Covered(object)
    BY <1>2, <1>3, <2>1, <2>2, <2>3, <2>4, <2>5, OnFinite, OneMore
  <2>6. CASE page \notin Covered(object)
    BY <1>2, <1>3, <2>1, <2>2, <2>3, <2>6
  <2> QED BY <2>5, <2>6
<1> QED BY <1>3, <1>4, <1>5, <1>6 DEF PagesInv, PagesExact, On

\* secure_allocator::deallocate.
LEMMA DeallocateStep ==
    ASSUME PagesInv, NEW object \in DOMAIN Objects, deallocate(object) PROVE PagesInv'
<1>1. PICK stop \in Stops : unlock_range(object, stop)
  BY DEF deallocate
<1> DEFINE unlocked == Before(object, stop)
<1>2. /\ pages' = [page \in DOMAIN pages |->
                      IF page \in unlocked THEN IF pages[page] > 0 THEN pages[page] - 1 ELSE 0 ELSE pages[page]]
      /\ mlocked' = mlocked \ {page \in unlocked : pages[page] = 1}
      /\ tainted' = IF stop = NoPage THEN tainted ELSE tainted \cup Covered(object)
      /\ unlocked \subseteq Covered(object) /\ (stop = NoPage => unlocked = Covered(object))
      /\ Covered(object) \subseteq DOMAIN pages
      /\ object \in live /\ live' = live \ {object}
  BY Zenon, <1>1 DEF unlock_range, released, Taint, Before, deallocate, Covered
<1> HIDE DEF unlocked
<1>3. pages' \in [AllPages -> Nat] /\ DOMAIN pages' = AllPages /\ DOMAIN pages = AllPages
  BY <1>2 DEF PagesInv
<1>4. IsFiniteSet(live')
  BY <1>2, FS_RemoveElement DEF PagesInv
<1>5. mlocked' = {page \in DOMAIN pages' : pages'[page] > 0}
  BY <1>2, <1>3 DEF PagesInv, PagesExact
<1>6. ASSUME NEW page \in DOMAIN pages' \ tainted' PROVE pages'[page] = Cardinality(On(page)')
  <2>1. page \in AllPages \ tainted /\ pages[page] = Cardinality(On(page)) /\ pages[page] \in Nat
    BY <1>2, <1>3, <1>6 DEF PagesInv, PagesExact, On
  <2>2. page \in unlocked <=> page \in Covered(object)
    BY <1>2, <1>6
  <2>3. On(page)' = On(page) \ {object}
    BY <1>2, <1>3, CoveredKept DEF On
  <2>4. CASE page \in Covered(object)
    <3>1. object \in On(page)
      BY <1>2, <2>4 DEF On
    <3>2. Cardinality(On(page) \ {object}) \in Nat /\ pages[page] = Cardinality(On(page) \ {object}) + 1
      BY <2>1, <3>1, OnFinite, OneLess
    <3>3. pages'[page] = pages[page] - 1
      BY <1>2, <1>3, <2>1, <2>2, <2>4, <3>2
    <3> QED BY <2>3, <3>2, <3>3
  <2>5. CASE page \notin Covered(object)
    <3>1. On(page) \ {object} = On(page)
      BY <2>5 DEF On
    <3> QED BY Zenon, <1>2, <1>3, <2>1, <2>2, <2>3, <2>5, <3>1
  <2> QED BY <2>4, <2>5
<1> QED BY <1>3, <1>4, <1>5, <1>6 DEF PagesInv, PagesExact, On

\* The destructor of the manager.
LEMMA ClearStep == ASSUME PagesInv, ClearPages PROVE PagesInv'
<1>1. PICK kept \in SUBSET mlocked :
        /\ pages' = [page \in DOMAIN pages |-> IF page \in kept THEN pages[page] ELSE 0]
        /\ mlocked' = kept
  BY DEF ClearPages
<1>2. live = {} /\ live' = {} /\ tainted' = tainted
  BY DEF ClearPages
<1>3. pages' \in [AllPages -> Nat] /\ DOMAIN pages' = DOMAIN pages /\ DOMAIN pages = AllPages
  BY <1>1 DEF PagesInv
<1>4. mlocked' = {page \in DOMAIN pages' : pages'[page] > 0}
  BY <1>1, <1>3 DEF PagesInv, PagesExact
<1>5. \A page : On(page) = {} /\ On(page)' = {}
  BY <1>2 DEF On
<1>6. ASSUME NEW page \in DOMAIN pages' \ tainted' PROVE pages'[page] = Cardinality(On(page)')
  <2>1. pages[page] = 0
    BY <1>2, <1>3, <1>5, <1>6, FS_EmptySet DEF PagesInv, PagesExact, On
  <2> QED BY <1>1, <1>3, <1>5, <2>1, FS_EmptySet
<1> QED BY <1>2, <1>3, <1>4, <1>6 DEF PagesInv, PagesExact, On

\* For every layout of the objects, a page is kept in memory exactly while it is counted, and counted once per
\* object on it unless a lock or an unlock failed (memory.hpp 58-100, secure_bytes.hpp 42-57).
THEOREM PagesStayExact == ContainersSpec => []PagesExact
<1>1. InitContainers => PagesInv
  <2> SUFFICES ASSUME InitContainers PROVE PagesInv
    OBVIOUS
  <2>1. pages = [page \in AllPages |-> 0] /\ mlocked = {} /\ live = {} /\ tainted = {}
    BY DEF InitContainers, NoPages
  <2>2. \A page : {object \in live : page \in Covered(object)} = {}
    BY <2>1
  <2>3. IsFiniteSet(live)
    BY <2>1, FS_EmptySet
  <2> QED BY <2>1, <2>2, <2>3, FS_EmptySet DEF PagesInv, PagesExact
<1>2. PagesInv /\ [ContainersNext \/ PagesNext]_containersVars => PagesInv'
  <2> SUFFICES ASSUME PagesInv, [ContainersNext \/ PagesNext]_containersVars PROVE PagesInv'
    OBVIOUS
  <2>1. CASE UNCHANGED <<pages, mlocked, live, tainted>>
    BY <2>1 DEF PagesInv, PagesExact, Covered
  <2>2. CASE PagesNext
    BY <2>2, AllocateStep, DeallocateStep, ClearStep DEF PagesNext
  <2>3. CASE ContainersNext \/ UNCHANGED containersVars
    BY <2>1, <2>3 DEF ContainersNext, containersVars
  <2> QED BY <2>2, <2>3
<1>3. PagesInv => PagesExact
  BY DEF PagesInv
<1> QED BY <1>1, <1>2, <1>3, PTL DEF ContainersSpec
=============================================================================
