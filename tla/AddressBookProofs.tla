------------------------- MODULE AddressBookProofs --------------------------
(***************************************************************************)
(* What the operations of AddressBook that insert, update and clear do to a *)
(* book whose structures agree, for every set of endpoints, every hash,    *)
(* every size of the tables and every limit on the references.             *)
(***************************************************************************)
EXTENDS AddressBook, FiniteSetTheorems, TLAPS

\* Two states of an entry that may differ in its position only.
SameEntry(x, y) ==
  /\ x.endpoint = y.endpoint /\ x.origin = y.origin /\ x.time = y.time
  /\ x.new_refs = y.new_refs /\ x.tried_ref = y.tried_ref

\* Assigning one field of an entry.
LEMMA PositionUpdate ==
  ASSUME NEW e \in Entry, NEW p \in Nat
  PROVE  LET f == [e EXCEPT !.random_pos = p]
         IN  f \in Entry /\ SameEntry(f, e) /\ f.random_pos = p
BY DEF Entry, SameEntry

\* Changing the references of an entry changes nothing else of it.
LEMMA RefsUpdate ==
  ASSUME NEW e \in Entry, NEW refs \in SUBSET NewSlots
  PROVE  LET f == [e EXCEPT !.new_refs = refs]
         IN  /\ f \in Entry /\ f.new_refs = refs
             /\ f.endpoint = e.endpoint /\ f.origin = e.origin /\ f.time = e.time
             /\ f.tried_ref = e.tried_ref /\ f.random_pos = e.random_pos
BY DEF Entry

\* Changing the tried slot of an entry changes nothing else of it.
LEMMA TriedUpdate ==
  ASSUME NEW e \in Entry, NEW slot \in TriedSlots \cup {None}
  PROVE  LET f == [e EXCEPT !.tried_ref = slot]
         IN  /\ f \in Entry /\ f.tried_ref = slot
             /\ f.endpoint = e.endpoint /\ f.origin = e.origin /\ f.time = e.time
             /\ f.new_refs = e.new_refs /\ f.random_pos = e.random_pos
BY DEF Entry

\* Changing the time of an entry changes nothing else of it.
LEMMA TimeUpdate ==
  ASSUME NEW e \in Entry, NEW t \in Int
  PROVE  LET f == [e EXCEPT !.time = t]
         IN  /\ f \in Entry /\ f.time = t
             /\ f.endpoint = e.endpoint /\ f.origin = e.origin
             /\ f.new_refs = e.new_refs /\ f.tried_ref = e.tried_ref
             /\ f.random_pos = e.random_pos
BY DEF Entry

-----------------------------------------------------------------------------
(* swap_randomly_ordered_ids.                                              *)

\* Swapping two positions keeps the order and everything else.
LEMMA SwapEffect ==
  ASSUME NEW b, IsBook(b), OrderMatches(b),
         NEW i \in 1..Len(b.ids), NEW j \in 1..Len(b.ids)
  PROVE  LET c == swap_randomly_ordered_ids(b, i, j)
         IN  /\ IsBook(c) /\ OrderMatches(c)
             /\ c.new_buckets = b.new_buckets /\ c.tried_buckets = b.tried_buckets
             /\ c.new_size = b.new_size /\ c.tried_size = b.tried_size
             /\ c.last_id = b.last_id /\ c.ok = b.ok
             /\ DOMAIN c.entries = DOMAIN b.entries
             /\ \A id \in DOMAIN b.entries : SameEntry(c.entries[id], b.entries[id])
             /\ Len(c.ids) = Len(b.ids) /\ c.ids[j] = b.ids[i]
<1> DEFINE c == swap_randomly_ordered_ids(b, i, j)
<1>1. CASE i = j
  <2>1. swap_randomly_ordered_ids(b, i, j) = b
    BY <1>1 DEF swap_randomly_ordered_ids
  <2>2. b.ids[j] = b.ids[i]
    BY <1>1
  <2> QED
    BY Zenon, <2>1, <2>2 DEF SameEntry
<1>2. CASE i # j
  <2> DEFINE x == b.ids[i]
             y == b.ids[j]
             ids == [b.ids EXCEPT ![i] = y, ![j] = x]
             entries == [b.entries EXCEPT ![x].random_pos = j, ![y].random_pos = i]
  <2>1. /\ x \in DOMAIN b.entries /\ y \in DOMAIN b.entries /\ x # y
        /\ b.entries[x].random_pos = i /\ b.entries[y].random_pos = j
    BY <1>2 DEF OrderMatches
  <2>2. c = [b EXCEPT !.entries = entries, !.ids = ids]
    BY <1>2, <2>1 DEF swap_randomly_ordered_ids
  <2>3. /\ c.entries = entries /\ c.ids = ids
        /\ c.new_buckets = b.new_buckets /\ c.tried_buckets = b.tried_buckets
        /\ c.new_size = b.new_size /\ c.tried_size = b.tried_size
        /\ c.last_id = b.last_id /\ c.ok = b.ok
        /\ DOMAIN c = DOMAIN b
    BY <2>2 DEF IsBook
  <2>4. /\ ids \in Seq(Nat) /\ Len(ids) = Len(b.ids)
        /\ ids[i] = y /\ ids[j] = x
        /\ \A n \in 1..Len(b.ids) : n # i /\ n # j => ids[n] = b.ids[n]
    <3>1. b.ids \in Seq(Nat)
      BY DEF IsBook
    <3> QED
      BY <1>2, <3>1
  <2>5. /\ DOMAIN entries = DOMAIN b.entries
        /\ entries[x] = [b.entries[x] EXCEPT !.random_pos = j]
        /\ entries[y] = [b.entries[y] EXCEPT !.random_pos = i]
        /\ \A id \in DOMAIN b.entries : id # x /\ id # y => entries[id] = b.entries[id]
    BY <2>1
  <2>6. \A id \in DOMAIN b.entries :
          /\ entries[id] \in Entry /\ SameEntry(entries[id], b.entries[id])
          /\ entries[id].random_pos =
               IF id = x THEN j ELSE IF id = y THEN i ELSE b.entries[id].random_pos
    <3> HIDE DEF x, y, entries
    <3> TAKE id \in DOMAIN b.entries
    <3>1. b.entries[id] \in Entry /\ i \in Nat /\ j \in Nat
      BY DEF IsBook
    <3>2. CASE id = x
      <4>1. entries[id] = [b.entries[id] EXCEPT !.random_pos = j]
        BY <2>5, <3>2
      <4> QED
        BY <3>1, <3>2, <4>1, PositionUpdate
    <3>3. CASE id = y
      <4>1. entries[id] = [b.entries[id] EXCEPT !.random_pos = i]
        BY <2>5, <3>3
      <4> QED
        BY <2>1, <3>1, <3>3, <4>1, PositionUpdate
    <3>4. CASE id # x /\ id # y
      BY <2>5, <3>1, <3>4 DEF SameEntry
    <3> QED
      BY <3>2, <3>3, <3>4
  <2>7. IsBook(c)
    BY Zenon, <2>3, <2>4, <2>5, <2>6 DEF IsBook
  <2>8. OrderMatches(c)
    <3> HIDE DEF x, y, entries, ids, c
    <3>1. \A n \in 1..Len(b.ids) : b.ids[n] = x <=> n = i
      BY <2>1 DEF OrderMatches, x, y
    <3>2. \A n \in 1..Len(b.ids) : b.ids[n] = y <=> n = j
      BY <2>1 DEF OrderMatches, x, y
    <3>3. \A n \in 1..Len(ids) :
            ids[n] \in DOMAIN entries /\ entries[ids[n]].random_pos = n
      <4> TAKE n \in 1..Len(ids)
      <4>1. CASE n = i
        BY <1>2, <2>1, <2>4, <2>5, <2>6, <4>1
      <4>2. CASE n = j
        BY <1>2, <2>1, <2>4, <2>5, <2>6, <4>2
      <4>3. CASE n # i /\ n # j
        <5>1. ids[n] = b.ids[n] /\ b.ids[n] # x /\ b.ids[n] # y
          BY <2>4, <3>1, <3>2, <4>3
        <5>2. b.ids[n] \in DOMAIN b.entries /\ b.entries[b.ids[n]].random_pos = n
          BY <2>4 DEF OrderMatches
        <5> QED
          BY <2>5, <2>6, <5>1, <5>2
      <4> QED
        BY <4>1, <4>2, <4>3
    <3>4. \A id \in DOMAIN entries :
            entries[id].random_pos \in 1..Len(ids) /\ ids[entries[id].random_pos] = id
      <4> TAKE id \in DOMAIN entries
      <4>1. CASE id = x \/ id = y
        BY <1>2, <2>1, <2>4, <2>5, <2>6, <4>1
      <4>2. CASE id # x /\ id # y
        <5>1. entries[id].random_pos = b.entries[id].random_pos /\ id \in DOMAIN b.entries
          BY <2>5, <2>6, <4>2
        <5>2. b.entries[id].random_pos \in 1..Len(b.ids) /\ b.ids[b.entries[id].random_pos] = id
          BY <5>1 DEF OrderMatches
        <5>3. b.entries[id].random_pos # i /\ b.entries[id].random_pos # j
          BY <3>1, <3>2, <4>2, <5>2
        <5> QED
          BY Zenon, <2>4, <5>1, <5>2, <5>3
      <4> QED
        BY <4>1, <4>2
    <3> QED
      BY <2>3, <3>3, <3>4 DEF OrderMatches
  <2> QED
    BY Zenon, <2>3, <2>4, <2>5, <2>6, <2>7, <2>8
<1> QED
  BY <1>1, <1>2

-----------------------------------------------------------------------------
(* erase_new_entry.                                                        *)

\* Erasing an unreferenced entry passes its ASSERTs, keeps the order of the
\* others and decrements the counter.
LEMMA EraseEffect ==
  ASSUME NEW b, IsBook(b), OrderMatches(b), b.ok, b.new_size >= 1,
         NEW id \in DOMAIN b.entries,
         b.entries[id].new_refs = {}, b.entries[id].tried_ref = None
  PROVE  LET c == erase_new_entry(b, id)
         IN  /\ IsBook(c) /\ OrderMatches(c) /\ c.ok
             /\ c.new_buckets = b.new_buckets /\ c.tried_buckets = b.tried_buckets
             /\ c.new_size = b.new_size - 1 /\ c.tried_size = b.tried_size
             /\ c.last_id = b.last_id
             /\ DOMAIN c.entries = DOMAIN b.entries \ {id}
             /\ \A x \in DOMAIN c.entries : SameEntry(c.entries[x], b.entries[x])
<1> DEFINE pos == b.entries[id].random_pos
           last == Len(b.ids)
           d == swap_randomly_ordered_ids(b, pos, last)
           ids == SubSeq(d.ids, 1, last - 1)
           c == erase_new_entry(b, id)
<1>1. pos \in 1..last /\ last \in 1..last /\ b.ids[pos] = id /\ last \in Nat
  BY DEF OrderMatches, IsBook
<1>2. /\ IsBook(d) /\ OrderMatches(d)
      /\ d.new_buckets = b.new_buckets /\ d.tried_buckets = b.tried_buckets
      /\ d.new_size = b.new_size /\ d.tried_size = b.tried_size
      /\ d.last_id = b.last_id /\ d.ok
      /\ DOMAIN d.entries = DOMAIN b.entries
      /\ \A x \in DOMAIN b.entries : SameEntry(d.entries[x], b.entries[x])
      /\ Len(d.ids) = last /\ d.ids[last] = id
  <2> HIDE DEF pos, last
  <2> QED
    BY <1>1, SwapEffect DEF pos, last
<1>3. c = [d EXCEPT !.ids = ids, !.new_size = d.new_size - 1, !.entries = Drop(d.entries, id)]
  <2> HIDE DEF d
  <2>1. d.ids # << >>
    BY <1>1, <1>2
  <2> QED
    BY <1>2, <2>1 DEF erase_new_entry, d
<1> HIDE DEF pos, d
<1>4. /\ c.ids = ids /\ c.new_size = b.new_size - 1 /\ c.entries = Drop(d.entries, id)
      /\ c.new_buckets = b.new_buckets /\ c.tried_buckets = b.tried_buckets
      /\ c.tried_size = b.tried_size /\ c.last_id = b.last_id /\ c.ok
      /\ DOMAIN c = DOMAIN d
  BY <1>2, <1>3 DEF IsBook
<1> HIDE DEF c
<1>5. ids \in Seq(Nat) /\ Len(ids) = last - 1 /\ \A n \in 1..last - 1 : ids[n] = d.ids[n]
  <2> HIDE DEF last
  <2>1. last - 1 \in Int /\ \A n \in 1..last - 1 : d.ids[n] \in Nat
    BY <1>1, <1>2 DEF IsBook
  <2>2. /\ ids \in Seq(Nat)
        /\ Len(ids) = IF 1 <= last - 1 THEN (last - 1) - 1 + 1 ELSE 0
        /\ \A n \in 1..(last - 1) - 1 + 1 : ids[n] = d.ids[1 + n - 1]
    BY <1>1, <1>2, <2>1 DEF IsBook, ids
  <2> HIDE DEF ids
  <2>3. Len(ids) = last - 1
    BY <1>1, <2>2
  <2>4. ASSUME NEW n \in 1..last - 1 PROVE ids[n] = d.ids[n]
    <3>1. n \in 1..(last - 1) - 1 + 1 /\ 1 + n - 1 = n
      BY <1>1
    <3> QED
      BY <2>2, <3>1
  <2> QED
    BY <2>2, <2>3, <2>4
<1>6. /\ DOMAIN c.entries = DOMAIN b.entries \ {id}
      /\ \A x \in DOMAIN c.entries : c.entries[x] = d.entries[x]
  BY <1>2, <1>4 DEF Drop
<1>7. IsBook(c)
  <2>1. b.new_size - 1 \in Nat
    BY DEF IsBook
  <2> QED
    BY Zenon, <1>2, <1>4, <1>5, <1>6, <2>1 DEF IsBook
<1>8. OrderMatches(c)
  <2> HIDE DEF last, ids
  <2>1. \A n \in 1..last - 1 : d.ids[n] # id
    BY <1>1, <1>2 DEF OrderMatches
  <2>2. \A x \in DOMAIN c.entries : d.entries[x].random_pos \in 1..last - 1
    <3> TAKE x \in DOMAIN c.entries
    <3>1. x # id /\ d.entries[x].random_pos \in 1..last /\ d.ids[d.entries[x].random_pos] = x
      BY <1>2, <1>6 DEF OrderMatches
    <3>2. d.entries[x].random_pos # last
      BY <1>2, <3>1
    <3> QED
      BY <1>1, <3>1, <3>2
  <2>3. \A n \in 1..Len(c.ids) :
          c.ids[n] \in DOMAIN c.entries /\ c.entries[c.ids[n]].random_pos = n
    <3> TAKE n \in 1..Len(c.ids)
    <3>1. n \in 1..last - 1 /\ n \in 1..Len(d.ids) /\ c.ids[n] = d.ids[n]
      BY <1>1, <1>2, <1>4, <1>5
    <3>2. d.ids[n] \in DOMAIN d.entries /\ d.entries[d.ids[n]].random_pos = n
      BY <1>2, <3>1 DEF OrderMatches
    <3> QED
      BY <1>2, <1>6, <2>1, <3>1, <3>2
  <2>4. \A x \in DOMAIN c.entries :
          c.entries[x].random_pos \in 1..Len(c.ids) /\ c.ids[c.entries[x].random_pos] = x
    <3> TAKE x \in DOMAIN c.entries
    <3>1. x \in DOMAIN d.entries /\ c.entries[x].random_pos = d.entries[x].random_pos
      BY <1>2, <1>6
    <3>2. d.ids[d.entries[x].random_pos] = x
      BY <1>2, <3>1 DEF OrderMatches
    <3>3. d.entries[x].random_pos \in 1..last - 1 /\ Len(c.ids) = last - 1
      BY <1>1, <1>4, <1>5, <2>2
    <3>4. c.ids[d.entries[x].random_pos] = d.ids[d.entries[x].random_pos]
      BY <1>1, <1>2, <1>4, <1>5, <3>3
    <3> QED
      BY <3>1, <3>2, <3>3, <3>4
  <2> QED
    BY <2>3, <2>4 DEF OrderMatches
<1> QED
  BY <1>2, <1>4, <1>6, <1>7, <1>8 DEF c

-----------------------------------------------------------------------------
(* The invariant that holds between the steps of a method: all structures  *)
(* agree, except that the entries of Loose may be in neither table.        *)

NotInBoth(b) ==
  \A id \in DOMAIN b.entries : b.entries[id].new_refs = {} \/ b.entries[id].tried_ref = None

Covered(b, Loose) ==
  \A id \in DOMAIN b.entries :
    b.entries[id].new_refs = {} /\ b.entries[id].tried_ref = None => id \in Loose

Wired(b, k, Loose) ==
  /\ IsBook(b) /\ b.ok /\ IsFiniteSet(DOMAIN b.entries)
  /\ NewTableMatches(b) /\ TriedTableMatches(b) /\ OrderMatches(b) /\ IdsMatch(b)
  /\ CountersMatch(b) /\ ReferencesBounded(b) /\ PlacedBy(b, k)
  /\ NotInBoth(b) /\ Covered(b, Loose)

\* With no loose entry it is the invariant of the specification.
LEMMA WiredIsConsistent ==
  ASSUME NEW b, NEW k
  PROVE  Wired(b, k, {}) <=> /\ IsBook(b) /\ b.ok /\ IsFiniteSet(DOMAIN b.entries)
                             /\ Consistent(b) /\ PlacedBy(b, k)
BY DEF Wired, Consistent, EachInOneTable, NotInBoth, Covered

-----------------------------------------------------------------------------
(* clear_new_slot.                                                         *)

\* What clearing a slot does to the entries.
ClearedOf(b, c, slot) ==
  /\ DOMAIN c.entries \subseteq DOMAIN b.entries
  /\ \A x \in DOMAIN b.entries \ DOMAIN c.entries : b.entries[x].new_refs = {slot}
  /\ \A x \in DOMAIN c.entries :
       /\ c.entries[x].endpoint = b.entries[x].endpoint
       /\ c.entries[x].origin = b.entries[x].origin
       /\ c.entries[x].time = b.entries[x].time
       /\ c.entries[x].tried_ref = b.entries[x].tried_ref
       /\ c.entries[x].new_refs = b.entries[x].new_refs \ {slot}

\* A book from which one reference was removed, and the entry with it if the
\* reference was its only one, is still wired.
LEMMA WiredWithoutSlot ==
  ASSUME NEW b, NEW c, NEW k, NEW Loose, Wired(b, k, Loose),
         NEW slot \in DOMAIN b.new_buckets,
         IsBook(c), OrderMatches(c), c.ok,
         c.new_buckets = Drop(b.new_buckets, slot),
         c.tried_buckets = b.tried_buckets, c.tried_size = b.tried_size,
         c.last_id = b.last_id,
         ClearedOf(b, c, slot),
         LET id == b.new_buckets[slot]
             only == b.entries[id].new_refs = {slot}
         IN  /\ DOMAIN c.entries = IF only THEN DOMAIN b.entries \ {id} ELSE DOMAIN b.entries
             /\ c.new_size = IF only THEN b.new_size - 1 ELSE b.new_size
  PROVE  Wired(c, k, Loose)
<1> DEFINE id == b.new_buckets[slot]
<1>1. id \in DOMAIN b.entries /\ slot \in b.entries[id].new_refs /\ b.entries[id].tried_ref = None
  BY DEF Wired, NewTableMatches, NotInBoth
<1>2. \A x \in DOMAIN b.entries : x # id => slot \notin b.entries[x].new_refs
  BY DEF Wired, NewTableMatches
<1>3. NewTableMatches(c)
  <2>1. ASSUME NEW s \in DOMAIN c.new_buckets
        PROVE  /\ c.new_buckets[s] \in DOMAIN c.entries
               /\ s \in c.entries[c.new_buckets[s]].new_refs
    <3>1. s # slot /\ s \in DOMAIN b.new_buckets /\ c.new_buckets[s] = b.new_buckets[s]
      BY DEF Drop
    <3>2. b.new_buckets[s] \in DOMAIN b.entries /\ s \in b.entries[b.new_buckets[s]].new_refs
      BY <3>1 DEF Wired, NewTableMatches
    <3> QED
      BY SMTT(30), <3>1, <3>2 DEF ClearedOf
  <2>2. ASSUME NEW x \in DOMAIN c.entries, NEW s \in c.entries[x].new_refs
        PROVE  s \in DOMAIN c.new_buckets /\ c.new_buckets[s] = x
    <3>1. x \in DOMAIN b.entries /\ s \in b.entries[x].new_refs /\ s # slot
      BY DEF ClearedOf
    <3>2. s \in DOMAIN b.new_buckets /\ b.new_buckets[s] = x
      BY <3>1 DEF Wired, NewTableMatches
    <3> QED
      BY <3>1, <3>2 DEF Drop
  <2> QED
    BY <2>1, <2>2 DEF NewTableMatches
<1>4. TriedTableMatches(c)
  <2>1. ASSUME NEW s \in DOMAIN c.tried_buckets
        PROVE  /\ c.tried_buckets[s] \in DOMAIN c.entries
               /\ c.entries[c.tried_buckets[s]].tried_ref = s
    <3>1. s # None
      BY NoneAssumption DEF IsBook
    <3>2. /\ b.tried_buckets[s] \in DOMAIN b.entries
          /\ b.entries[b.tried_buckets[s]].tried_ref = s
      BY DEF Wired, TriedTableMatches
    <3>3. b.tried_buckets[s] # id
      BY <1>1, <3>1, <3>2
    <3> QED
      BY SMTT(30), <3>2, <3>3 DEF ClearedOf
  <2>2. ASSUME NEW x \in DOMAIN c.entries, c.entries[x].tried_ref # None
        PROVE  /\ c.entries[x].tried_ref \in DOMAIN c.tried_buckets
               /\ c.tried_buckets[c.entries[x].tried_ref] = x
    <3>1. x \in DOMAIN b.entries /\ b.entries[x].tried_ref = c.entries[x].tried_ref
      BY DEF ClearedOf
    <3>2. b.entries[x].tried_ref # None
      BY <2>2, <3>1
    <3>3. TriedTableMatches(b)
      BY DEF Wired
    <3> QED
      BY <3>1, <3>2, <3>3 DEF TriedTableMatches
  <2> QED
    BY <2>1, <2>2 DEF TriedTableMatches
<1>5. IdsMatch(c) /\ NotInBoth(c)
  <2>1. IdsMatch(b) /\ NotInBoth(b)
    BY DEF Wired
  <2>2. \A x \in DOMAIN c.entries :
          /\ x \in DOMAIN b.entries /\ c.entries[x].endpoint = b.entries[x].endpoint
          /\ c.entries[x].tried_ref = b.entries[x].tried_ref
          /\ c.entries[x].new_refs \subseteq b.entries[x].new_refs
    BY DEF ClearedOf
  <2>3. IdsMatch(c)
    BY <2>1, <2>2 DEF IdsMatch
  <2>4. NotInBoth(c)
    BY <2>1, <2>2 DEF NotInBoth
  <2> QED
    BY <2>3, <2>4
<1>6. PlacedBy(c, k)
  <2>1. PlacedBy(b, k)
    BY DEF Wired
  <2>2. ASSUME NEW x \in DOMAIN c.entries
        PROVE  /\ c.entries[x].tried_ref \in {None, get_tried_slot(k, c.entries[x].endpoint)}
               /\ \A s \in c.entries[x].new_refs :
                    \E src \in Addresses : s = get_new_slot(k, c.entries[x].endpoint, src)
    <3>1. /\ x \in DOMAIN b.entries /\ c.entries[x].endpoint = b.entries[x].endpoint
          /\ c.entries[x].tried_ref = b.entries[x].tried_ref
          /\ c.entries[x].new_refs \subseteq b.entries[x].new_refs
      BY DEF ClearedOf
    <3> QED
      BY <2>1, <3>1 DEF PlacedBy
  <2> QED
    BY <2>2 DEF PlacedBy
<1>7. Covered(c, Loose)
  <2>1. Covered(b, Loose)
    BY DEF Wired
  <2>2. ASSUME NEW x \in DOMAIN c.entries,
               c.entries[x].new_refs = {}, c.entries[x].tried_ref = None
        PROVE  x \in Loose
    <3>1. /\ x \in DOMAIN b.entries /\ b.entries[x].tried_ref = None
          /\ b.entries[x].new_refs \subseteq {slot}
      BY <2>2 DEF ClearedOf
    <3>2. CASE slot \in b.entries[x].new_refs
      <4>1. x = id /\ b.entries[id].new_refs = {slot}
        BY <1>2, <3>1, <3>2
      <4> QED
        BY <4>1
    <3>3. CASE slot \notin b.entries[x].new_refs
      BY <2>1, <3>1, <3>3 DEF Covered
    <3> QED
      BY <3>2, <3>3
  <2> QED
    BY <2>2 DEF Covered
<1>8. IsFiniteSet(DOMAIN c.entries)
  BY SMTT(30), FS_RemoveElement DEF Wired
<1>9. CountersMatch(c)
  <2>1. TriedEntries(c) = TriedEntries(b)
    BY <1>1 DEF TriedEntries, ClearedOf
  <2>2. IsFiniteSet(NewEntries(b))
    BY FS_Subset DEF Wired, NewEntries
  <2>3. CASE b.entries[id].new_refs = {slot}
    <3>1. NewEntries(c) = NewEntries(b) \ {id} /\ id \in NewEntries(b)
      BY <1>1, <1>2, <2>3 DEF NewEntries, ClearedOf
    <3>2. Cardinality(NewEntries(c)) = Cardinality(NewEntries(b)) - 1
      BY Zenon, <2>2, <3>1, FS_RemoveElement
    <3> QED
      BY <2>1, <2>3, <3>2 DEF Wired, CountersMatch
  <2>4. CASE b.entries[id].new_refs # {slot}
    <3>1. NewEntries(c) = NewEntries(b)
      BY SMTT(30), <1>1, <1>2, <2>4 DEF NewEntries, ClearedOf
    <3> QED
      BY <2>1, <2>4, <3>1 DEF Wired, CountersMatch
  <2> QED
    BY <2>3, <2>4
<1>10. ReferencesBounded(c)
  <2> SUFFICES ASSUME NEW x \in DOMAIN c.entries
               PROVE  Cardinality(c.entries[x].new_refs) <= kMaxNewBucketReferences
    BY DEF ReferencesBounded
  <2>1. /\ IsFiniteSet(b.entries[x].new_refs) /\ x \in DOMAIN b.entries
        /\ Cardinality(b.entries[x].new_refs) <= kMaxNewBucketReferences
    <3>1. IsBook(b) /\ ReferencesBounded(b) /\ x \in DOMAIN b.entries
      BY DEF Wired, ClearedOf
    <3>2. b.entries[x].new_refs \in SUBSET NewSlots
      BY <3>1 DEF IsBook, Entry
    <3> QED
      BY <3>1, <3>2, FiniteAssumption, FS_Subset DEF ReferencesBounded
  <2>2. c.entries[x].new_refs \in SUBSET b.entries[x].new_refs
    BY DEF ClearedOf
  <2>3. /\ Cardinality(c.entries[x].new_refs) <= Cardinality(b.entries[x].new_refs)
        /\ Cardinality(c.entries[x].new_refs) \in Nat /\ Cardinality(b.entries[x].new_refs) \in Nat
    BY SMTT(30), <2>1, <2>2, FS_Subset, FS_CardinalityType
  <2> QED
    BY SMTT(30), <2>1, <2>3, BoundAssumption
<1> QED
  BY <1>3, <1>4, <1>5, <1>6, <1>7, <1>8, <1>9, <1>10 DEF Wired

\* Clearing a slot passes its ASSERTs, keeps the book wired and loses at most
\* the entry that had no other reference.
LEMMA ClearEffect ==
  ASSUME NEW b, NEW k, NEW Loose, Wired(b, k, Loose), NEW slot
  PROVE  LET c == clear_new_slot(b, slot)
         IN  /\ Wired(c, k, Loose)
             /\ slot \notin DOMAIN c.new_buckets
             /\ c.tried_buckets = b.tried_buckets /\ c.last_id = b.last_id
             /\ ClearedOf(b, c, slot)
<1> DEFINE c == clear_new_slot(b, slot)
<1>1. CASE slot \notin DOMAIN b.new_buckets
  <2>1. c = b
    BY <1>1 DEF clear_new_slot
  <2>2. \A x \in DOMAIN b.entries : slot \notin b.entries[x].new_refs
    BY <1>1 DEF Wired, NewTableMatches
  <2>3. ClearedOf(b, b, slot)
    BY <2>2 DEF ClearedOf
  <2> QED
    BY <1>1, <2>1, <2>3
<1>2. CASE slot \in DOMAIN b.new_buckets
  <2> DEFINE id == b.new_buckets[slot]
             e == [b.entries EXCEPT ![id].new_refs = @ \ {slot}]
             d == [b EXCEPT !.entries = e]
             only == b.entries[id].new_refs = {slot}
             f == release_reference(b, id, slot)
  <2>1. /\ id \in DOMAIN b.entries /\ slot \in b.entries[id].new_refs
        /\ b.entries[id].tried_ref = None /\ b.entries[id] \in Entry
    BY <1>2 DEF Wired, NewTableMatches, NotInBoth, IsBook
  <2>2. /\ DOMAIN e = DOMAIN b.entries
        /\ e[id] = [b.entries[id] EXCEPT !.new_refs = b.entries[id].new_refs \ {slot}]
        /\ \A x \in DOMAIN b.entries : x # id => e[x] = b.entries[x]
    BY <2>1
  <2>3. /\ e[id] \in Entry /\ e[id].new_refs = b.entries[id].new_refs \ {slot}
        /\ e[id].endpoint = b.entries[id].endpoint /\ e[id].origin = b.entries[id].origin
        /\ e[id].time = b.entries[id].time /\ e[id].tried_ref = None
        /\ e[id].random_pos = b.entries[id].random_pos
    <3>1. b.entries[id].new_refs \ {slot} \in SUBSET NewSlots
      BY <2>1 DEF Entry
    <3> HIDE DEF e, id
    <3> QED
      BY <2>1, <2>2, <3>1, RefsUpdate
  <2> HIDE DEF e
  <2>4. /\ d.entries = e /\ d.ids = b.ids /\ DOMAIN d = DOMAIN b
        /\ d.new_buckets = b.new_buckets /\ d.tried_buckets = b.tried_buckets
        /\ d.new_size = b.new_size /\ d.tried_size = b.tried_size
        /\ d.last_id = b.last_id /\ d.ok
    BY DEF Wired, IsBook
  <2>5. c = [f EXCEPT !.new_buckets = Drop(f.new_buckets, slot)]
    <3>1. b.ok
      BY DEF Wired
    <3> HIDE DEF f
    <3> QED
      BY <1>2, <2>1, <3>1 DEF clear_new_slot, f
  <2>6. f = IF only THEN erase_new_entry(d, id) ELSE d
    <3>1. (d.entries[id].new_refs = {} /\ d.entries[id].tried_ref = None) <=> only
      <4> HIDE DEF d, id
      <4> QED
        BY <2>1, <2>3, <2>4
    <3>2. f = IF d.entries[id].new_refs = {} /\ d.entries[id].tried_ref = None
              THEN erase_new_entry(d, id) ELSE d
      BY Zenon DEF release_reference, e
    <3> HIDE DEF d, id, f, only
    <3> QED
      BY <3>1, <3>2
  <2> HIDE DEF f
  <2> HIDE DEF d, id
  <2>7. IsBook(d) /\ OrderMatches(d)
    <3>1. \A x \in DOMAIN b.entries : e[x] \in Entry /\ e[x].random_pos = b.entries[x].random_pos
      BY Zenon, <2>2, <2>3 DEF Wired, IsBook
    <3>2. IsBook(d)
      BY <2>2, <2>4, <3>1 DEF Wired, IsBook
    <3>3. OrderMatches(d)
      BY <2>2, <2>4, <3>1 DEF Wired, OrderMatches
    <3> QED
      BY <3>2, <3>3
  <2>8. /\ IsBook(f) /\ OrderMatches(f) /\ f.ok
        /\ f.new_buckets = b.new_buckets /\ f.tried_buckets = b.tried_buckets
        /\ f.tried_size = b.tried_size /\ f.last_id = b.last_id
        /\ f.new_size = IF only THEN b.new_size - 1 ELSE b.new_size
        /\ DOMAIN f.entries = IF only THEN DOMAIN b.entries \ {id} ELSE DOMAIN b.entries
        /\ \A x \in DOMAIN f.entries : SameEntry(f.entries[x], e[x])
    <3>1. CASE only
      <4>1. b.new_size >= 1
        <5>1. id \in NewEntries(b) /\ IsFiniteSet(NewEntries(b))
          BY <2>1, FS_Subset DEF NewEntries, Wired
        <5> QED
          BY <5>1, FS_EmptySet, FS_CardinalityType DEF Wired, CountersMatch
      <4>2. d.entries[id].new_refs = {} /\ d.entries[id].tried_ref = None /\ id \in DOMAIN d.entries
        BY Zenon, <2>1, <2>2, <2>3, <2>4, <3>1
      <4>3. f = erase_new_entry(d, id) /\ d.new_size >= 1
        BY <2>4, <2>6, <3>1, <4>1
      <4> QED
        BY <2>2, <2>4, <2>7, <3>1, <4>2, <4>3, EraseEffect
    <3>2. CASE ~only
      BY <2>2, <2>4, <2>7, <2>6, <3>2 DEF SameEntry
    <3> QED
      BY <3>1, <3>2
  <2>9. /\ c.entries = f.entries /\ c.ids = f.ids /\ DOMAIN c = DOMAIN f
        /\ c.new_buckets = Drop(b.new_buckets, slot) /\ c.tried_buckets = b.tried_buckets
        /\ c.new_size = f.new_size /\ c.tried_size = b.tried_size
        /\ c.last_id = b.last_id /\ c.ok
    BY <2>5, <2>8 DEF IsBook
  <2> HIDE DEF c
  <2>10. IsBook(c) /\ OrderMatches(c)
    <3>1. DOMAIN c.new_buckets \subseteq NewSlots
      BY <2>8, <2>9 DEF Wired, IsBook, Drop
    <3> QED
      BY SMTT(30), <2>8, <2>9, <3>1 DEF IsBook, OrderMatches
  <2>11. ClearedOf(b, c, slot)
    <3>1. \A x \in DOMAIN b.entries : x # id => slot \notin b.entries[x].new_refs
      BY DEF Wired, NewTableMatches, id
    <3>2. DOMAIN c.entries \subseteq DOMAIN b.entries
      BY <2>8, <2>9
    <3>3. \A x \in DOMAIN b.entries \ DOMAIN c.entries : b.entries[x].new_refs = {slot}
      BY <2>8, <2>9
    <3>4. \A x \in DOMAIN b.entries :
            /\ e[x].endpoint = b.entries[x].endpoint /\ e[x].origin = b.entries[x].origin
            /\ e[x].time = b.entries[x].time /\ e[x].tried_ref = b.entries[x].tried_ref
            /\ e[x].new_refs = b.entries[x].new_refs \ {slot}
      BY Zenon, <2>1, <2>2, <2>3, <3>1
    <3> QED
      BY SMTT(30), <2>8, <2>9, <3>2, <3>3, <3>4 DEF ClearedOf, SameEntry
  <2>12. Wired(c, k, Loose)
    BY Zenon, <1>2, <2>8, <2>9, <2>10, <2>11, WiredWithoutSlot DEF id
  <2>13. slot \notin DOMAIN c.new_buckets
    BY <2>9 DEF Drop
  <2> QED
    BY <2>9, <2>11, <2>12, <2>13 DEF c
<1> QED
  BY <1>1, <1>2

-----------------------------------------------------------------------------
(* reference_in_new_slot.                                                  *)

\* A reference added to an entry, which is counted if it had none.
Referenced(b, id, slot) ==
  LET d == reference_in_new_slot(b, id, slot)
  IN  IF b.entries[id].new_refs = {} THEN [d EXCEPT !.new_size = d.new_size + 1] ELSE d

\* Referencing an entry that is not "tried" from a free slot passes the
\* ASSERTs and keeps the book wired, provided that an entry without
\* references is counted; the entry is then no longer loose.
LEMMA ReferenceEffect ==
  ASSUME NEW b, NEW k, NEW Loose, Wired(b, k, Loose),
         NEW id \in DOMAIN b.entries, NEW slot \in NewSlots,
         slot \notin DOMAIN b.new_buckets,
         b.entries[id].tried_ref = None,
         Cardinality(b.entries[id].new_refs) < kMaxNewBucketReferences,
         NEW src \in Addresses, slot = get_new_slot(k, b.entries[id].endpoint, src)
  PROVE  LET c == Referenced(b, id, slot)
         IN  /\ Wired(c, k, Loose \ {id})
             /\ DOMAIN c.entries = DOMAIN b.entries
             /\ c.tried_buckets = b.tried_buckets /\ c.last_id = b.last_id
             /\ \A x \in DOMAIN b.entries :
                  /\ c.entries[x].endpoint = b.entries[x].endpoint
                  /\ c.entries[x].tried_ref = b.entries[x].tried_ref
                  /\ x # id => c.entries[x] = b.entries[x]
<1> DEFINE refs == b.entries[id].new_refs \cup {slot}
           e == [b.entries EXCEPT ![id].new_refs = refs]
           buckets == Put(b.new_buckets, slot, id)
           d == reference_in_new_slot(b, id, slot)
           c == Referenced(b, id, slot)
<1>1. b.ok /\ b.entries[id] \in Entry /\ slot \notin b.entries[id].new_refs
  BY DEF Wired, IsBook, NewTableMatches
<1>2. d = [b EXCEPT !.entries = e, !.new_buckets = buckets]
  <2>1. d = [b EXCEPT !.entries[id].new_refs = b.entries[id].new_refs \cup {slot},
                      !.new_buckets = Put(b.new_buckets, slot, id)]
    BY <1>1 DEF reference_in_new_slot
  <2> QED
    BY <2>1
<1>3. /\ DOMAIN e = DOMAIN b.entries
      /\ e[id] = [b.entries[id] EXCEPT !.new_refs = refs]
      /\ \A x \in DOMAIN b.entries : x # id => e[x] = b.entries[x]
  OBVIOUS
<1>4. /\ e[id] \in Entry /\ e[id].new_refs = refs
      /\ e[id].endpoint = b.entries[id].endpoint /\ e[id].tried_ref = None
      /\ e[id].random_pos = b.entries[id].random_pos
  <2>1. refs \in SUBSET NewSlots
    BY <1>1 DEF Entry
  <2> HIDE DEF e, refs
  <2> QED
    BY <1>1, <1>3, <2>1, RefsUpdate
<1>5. /\ DOMAIN buckets = DOMAIN b.new_buckets \cup {slot} /\ buckets[slot] = id
      /\ \A s \in DOMAIN b.new_buckets : buckets[s] = b.new_buckets[s]
  BY DEF Put
<1> HIDE DEF e, buckets
<1>6. /\ d.entries = e /\ d.ids = b.ids /\ DOMAIN d = DOMAIN b
      /\ d.new_buckets = buckets /\ d.tried_buckets = b.tried_buckets
      /\ d.new_size = b.new_size /\ d.tried_size = b.tried_size
      /\ d.last_id = b.last_id /\ d.ok
  BY <1>1, <1>2 DEF Wired, IsBook
<1> HIDE DEF d
<1>7. /\ c.entries = e /\ c.ids = b.ids /\ DOMAIN c = DOMAIN b
      /\ c.new_buckets = buckets /\ c.tried_buckets = b.tried_buckets
      /\ c.new_size = IF b.entries[id].new_refs = {} THEN b.new_size + 1 ELSE b.new_size
      /\ c.tried_size = b.tried_size /\ c.last_id = b.last_id /\ c.ok
  <2>1. c = IF b.entries[id].new_refs = {} THEN [d EXCEPT !.new_size = d.new_size + 1] ELSE d
    BY DEF Referenced, d
  <2> HIDE DEF c
  <2> QED
    BY <1>6, <2>1 DEF Wired, IsBook
<1> HIDE DEF c
<1>8. \A x \in DOMAIN b.entries :
        /\ e[x] \in Entry /\ e[x].endpoint = b.entries[x].endpoint
        /\ e[x].tried_ref = b.entries[x].tried_ref
        /\ e[x].random_pos = b.entries[x].random_pos
        /\ e[x].new_refs = IF x = id THEN refs ELSE b.entries[x].new_refs
  BY Zenon, <1>3, <1>4 DEF Wired, IsBook
<1>9. IsBook(c) /\ c.ok /\ IsFiniteSet(DOMAIN c.entries)
  <2>1. c.new_size \in Nat
    BY SMTT(30), <1>7 DEF Wired, IsBook
  <2>2. DOMAIN c.new_buckets \subseteq NewSlots
    BY <1>5, <1>7 DEF Wired, IsBook
  <2> QED
    BY <1>3, <1>7, <1>8, <2>1, <2>2 DEF Wired, IsBook
<1>10. NewTableMatches(c)
  <2>1. ASSUME NEW s \in DOMAIN c.new_buckets
        PROVE  /\ c.new_buckets[s] \in DOMAIN c.entries
               /\ s \in c.entries[c.new_buckets[s]].new_refs
    <3>1. CASE s = slot
      BY Zenon, <1>3, <1>4, <1>5, <1>7, <3>1
    <3>2. CASE s # slot
      <4>1. s \in DOMAIN b.new_buckets /\ c.new_buckets[s] = b.new_buckets[s]
        BY <1>5, <1>7, <3>2
      <4>2. b.new_buckets[s] \in DOMAIN b.entries /\ s \in b.entries[b.new_buckets[s]].new_refs
        BY <4>1 DEF Wired, NewTableMatches
      <4> QED
        BY <1>3, <1>7, <1>8, <4>1, <4>2
    <3> QED
      BY <3>1, <3>2
  <2>2. ASSUME NEW x \in DOMAIN c.entries, NEW s \in c.entries[x].new_refs
        PROVE  s \in DOMAIN c.new_buckets /\ c.new_buckets[s] = x
    <3>1. CASE s = slot /\ x = id
      BY <1>5, <1>7, <3>1
    <3>2. CASE ~(s = slot /\ x = id)
      <4>1. x \in DOMAIN b.entries /\ s \in b.entries[x].new_refs
        BY <1>3, <1>7, <1>8, <3>2
      <4>2. s \in DOMAIN b.new_buckets /\ b.new_buckets[s] = x
        BY <4>1 DEF Wired, NewTableMatches
      <4> QED
        BY <1>5, <1>7, <4>2
    <3> QED
      BY <3>1, <3>2
  <2> QED
    BY <2>1, <2>2 DEF NewTableMatches
<1>11. TriedTableMatches(c)
  BY <1>3, <1>7, <1>8 DEF Wired, TriedTableMatches
<1>12. OrderMatches(c)
  BY SMTT(30), <1>3, <1>7, <1>8 DEF Wired, OrderMatches
<1>13. IdsMatch(c)
  BY <1>3, <1>7, <1>8 DEF Wired, IdsMatch
<1>14. CountersMatch(c)
  <2>1. TriedEntries(c) = TriedEntries(b)
    BY <1>3, <1>7, <1>8 DEF TriedEntries
  <2>2. NewEntries(c) = NewEntries(b) \cup {id}
    BY <1>3, <1>7, <1>8 DEF NewEntries
  <2>3. IsFiniteSet(NewEntries(b))
    BY FS_Subset DEF NewEntries, Wired
  <2>4. Cardinality(NewEntries(c)) = IF b.entries[id].new_refs = {}
                                     THEN Cardinality(NewEntries(b)) + 1
                                     ELSE Cardinality(NewEntries(b))
    <3>1. id \in NewEntries(b) <=> b.entries[id].new_refs # {}
      BY DEF NewEntries
    <3> QED
      BY Zenon, <2>2, <2>3, <3>1, FS_AddElement
  <2> QED
    BY <1>7, <2>1, <2>4 DEF Wired, CountersMatch
<1>15. ReferencesBounded(c)
  <2>1. IsFiniteSet(b.entries[id].new_refs)
    BY <1>1, FiniteAssumption, FS_Subset DEF Entry
  <2>2. Cardinality(refs) <= kMaxNewBucketReferences
    <3>1. Cardinality(refs) = Cardinality(b.entries[id].new_refs) + 1
      BY Zenon, <1>1, <2>1, FS_AddElement
    <3>2. Cardinality(b.entries[id].new_refs) \in Nat
      BY <2>1, FS_CardinalityType
    <3> HIDE DEF refs
    <3> QED
      BY <3>1, <3>2, BoundAssumption
  <2> QED
    BY <1>3, <1>7, <1>8, <2>2 DEF Wired, ReferencesBounded
<1>16. PlacedBy(c, k)
  <2> SUFFICES ASSUME NEW x \in DOMAIN b.entries
               PROVE  /\ e[x].tried_ref \in {None, get_tried_slot(k, e[x].endpoint)}
                      /\ \A s \in e[x].new_refs :
                           \E r \in Addresses : s = get_new_slot(k, e[x].endpoint, r)
    BY <1>3, <1>7 DEF PlacedBy
  <2>1. /\ b.entries[x].tried_ref \in {None, get_tried_slot(k, b.entries[x].endpoint)}
        /\ \A s \in b.entries[x].new_refs :
             \E r \in Addresses : s = get_new_slot(k, b.entries[x].endpoint, r)
    BY DEF Wired, PlacedBy
  <2> QED
    BY <1>8, <2>1
<1>17. NotInBoth(c)
  BY <1>3, <1>7, <1>8 DEF Wired, NotInBoth
<1>18. Covered(c, Loose \ {id})
  BY <1>3, <1>7, <1>8 DEF Wired, Covered
<1>19. Wired(c, k, Loose \ {id})
  BY <1>9, <1>10, <1>11, <1>12, <1>13, <1>14, <1>15, <1>16, <1>17, <1>18 DEF Wired
<1> QED
  BY <1>3, <1>7, <1>8, <1>19 DEF c

-----------------------------------------------------------------------------
(* insert_or_update_impl.                                                  *)

\* The time of an entry plays no part in the wiring.
LEMMA TimeEffect ==
  ASSUME NEW b, NEW k, NEW Loose, Wired(b, k, Loose),
         NEW id \in DOMAIN b.entries, NEW t \in Int
  PROVE  LET c == [b EXCEPT !.entries[id].time = t]
         IN  /\ Wired(c, k, Loose)
             /\ DOMAIN c.entries = DOMAIN b.entries /\ c.new_buckets = b.new_buckets
             /\ c.tried_buckets = b.tried_buckets /\ c.last_id = b.last_id
             /\ \A x \in DOMAIN b.entries :
                  /\ c.entries[x].endpoint = b.entries[x].endpoint
                  /\ c.entries[x].new_refs = b.entries[x].new_refs
                  /\ c.entries[x].tried_ref = b.entries[x].tried_ref
<1> DEFINE e == [b.entries EXCEPT ![id].time = t]
           c == [b EXCEPT !.entries[id].time = t]
<1>1. b.entries[id] \in Entry
  BY DEF Wired, IsBook
<1>2. /\ DOMAIN e = DOMAIN b.entries
      /\ e[id] = [b.entries[id] EXCEPT !.time = t]
      /\ \A x \in DOMAIN b.entries : x # id => e[x] = b.entries[x]
  OBVIOUS
<1>3. c = [b EXCEPT !.entries = e]
  OBVIOUS
<1> HIDE DEF e
<1>4. /\ c.entries = e /\ c.ids = b.ids /\ DOMAIN c = DOMAIN b
      /\ c.new_buckets = b.new_buckets /\ c.tried_buckets = b.tried_buckets
      /\ c.new_size = b.new_size /\ c.tried_size = b.tried_size
      /\ c.last_id = b.last_id /\ c.ok
  BY <1>3 DEF Wired, IsBook
<1> HIDE DEF c
<1>5. \A x \in DOMAIN b.entries :
        /\ e[x] \in Entry /\ e[x].endpoint = b.entries[x].endpoint
        /\ e[x].tried_ref = b.entries[x].tried_ref /\ e[x].new_refs = b.entries[x].new_refs
        /\ e[x].random_pos = b.entries[x].random_pos
  <2>1. \A x \in DOMAIN b.entries : b.entries[x] \in Entry
    BY DEF Wired, IsBook
  <2>2. /\ e[id] \in Entry /\ e[id].endpoint = b.entries[id].endpoint
        /\ e[id].tried_ref = b.entries[id].tried_ref /\ e[id].new_refs = b.entries[id].new_refs
        /\ e[id].random_pos = b.entries[id].random_pos
    BY <1>1, <1>2, TimeUpdate
  <2> QED
    BY Zenon, <1>2, <2>1, <2>2
<1>6. IsBook(c) /\ c.ok /\ IsFiniteSet(DOMAIN c.entries)
  BY <1>2, <1>4, <1>5 DEF Wired, IsBook
<1>7. NewTableMatches(c)
  BY <1>2, <1>4, <1>5 DEF Wired, NewTableMatches
<1>8. TriedTableMatches(c)
  BY <1>2, <1>4, <1>5 DEF Wired, TriedTableMatches
<1>9. OrderMatches(c) /\ IdsMatch(c)
  BY <1>2, <1>4, <1>5 DEF Wired, OrderMatches, IdsMatch
<1>10. CountersMatch(c)
  <2>1. TriedEntries(c) = TriedEntries(b)
    BY <1>2, <1>4, <1>5 DEF TriedEntries
  <2>2. NewEntries(c) = NewEntries(b)
    BY <1>2, <1>4, <1>5 DEF NewEntries
  <2> QED
    BY <1>4, <2>1, <2>2 DEF Wired, CountersMatch
<1>11. ReferencesBounded(c) /\ NotInBoth(c) /\ Covered(c, Loose)
  BY <1>2, <1>4, <1>5 DEF Wired, ReferencesBounded, NotInBoth, Covered
<1>12. PlacedBy(c, k)
  BY <1>2, <1>4, <1>5 DEF Wired, PlacedBy
<1>13. Wired(c, k, Loose)
  BY <1>6, <1>7, <1>8, <1>9, <1>10, <1>11, <1>12 DEF Wired
<1> QED
  BY <1>2, <1>4, <1>5, <1>13 DEF c

\* A book with one more entry, referenced from a free slot, is wired.
LEMMA WiredWithEntry ==
  ASSUME NEW c, NEW d, NEW k, Wired(c, k, {}),
         NEW slot \in NewSlots, slot \notin DOMAIN c.new_buckets, NEW entry \in Entry,
         \A x \in DOMAIN c.entries : c.entries[x].endpoint # entry.endpoint,
         NEW src \in Addresses, slot = get_new_slot(k, entry.endpoint, src),
         entry.new_refs = {slot}, entry.tried_ref = None, entry.random_pos = Len(c.ids) + 1,
         DOMAIN d = DOMAIN c,
         d.last_id = c.last_id + 1,
         d.entries = Put(c.entries, c.last_id, entry),
         d.new_buckets = Put(c.new_buckets, slot, c.last_id),
         d.tried_buckets = c.tried_buckets,
         d.ids = Append(c.ids, c.last_id),
         d.new_size = c.new_size + 1, d.tried_size = c.tried_size, d.ok = c.ok
  PROVE  Wired(d, k, {})
<1> DEFINE id == c.last_id
<1>1. id \in Nat /\ id \notin DOMAIN c.entries
  BY SMTT(30) DEF Wired, IsBook, IdsMatch
<1> HIDE DEF id
<1>2. /\ DOMAIN d.entries = DOMAIN c.entries \cup {id}
      /\ d.entries[id] = entry
      /\ \A x \in DOMAIN c.entries : x # id /\ d.entries[x] = c.entries[x]
  BY <1>1 DEF Put, id
<1>3. /\ DOMAIN d.new_buckets = DOMAIN c.new_buckets \cup {slot}
      /\ d.new_buckets[slot] = id
      /\ \A s \in DOMAIN c.new_buckets : s # slot /\ d.new_buckets[s] = c.new_buckets[s]
  BY DEF Put, id
<1>4. /\ d.ids \in Seq(Nat) /\ Len(d.ids) = Len(c.ids) + 1 /\ d.ids[Len(c.ids) + 1] = id
      /\ \A i \in 1..Len(c.ids) : d.ids[i] = c.ids[i]
      /\ Len(c.ids) \in Nat
  BY SMTT(30), <1>1 DEF Wired, IsBook, id
<1>5. IsBook(d) /\ d.ok
  <2>1. DOMAIN d.entries \subseteq Nat /\ \A x \in DOMAIN d.entries : d.entries[x] \in Entry
    BY <1>1, <1>2 DEF Wired, IsBook
  <2>2. DOMAIN d.new_buckets \subseteq NewSlots
    BY <1>3 DEF Wired, IsBook
  <2>3. IsBook(c) /\ c.ok
    BY DEF Wired
  <2>4. d.new_size \in Nat /\ d.tried_size \in Nat /\ d.last_id \in Nat
    BY <2>3 DEF IsBook
  <2>5. d.ok /\ d.ok \in BOOLEAN /\ DOMAIN d.tried_buckets \subseteq TriedSlots
    BY <2>3 DEF IsBook
  <2>6. DOMAIN d = {"entries", "new_buckets", "tried_buckets", "ids",
                    "new_size", "tried_size", "last_id", "ok"}
    BY <2>3 DEF IsBook
  <2> QED
    BY <1>4, <2>1, <2>2, <2>4, <2>5, <2>6 DEF IsBook
<1>6. IsFiniteSet(DOMAIN d.entries)
  BY SMTT(30), <1>2, FS_AddElement DEF Wired
<1>7. NewTableMatches(d)
  <2>1. NewTableMatches(c)
    BY DEF Wired
  <2>2. ASSUME NEW s \in DOMAIN d.new_buckets
        PROVE  /\ d.new_buckets[s] \in DOMAIN d.entries
               /\ s \in d.entries[d.new_buckets[s]].new_refs
    <3>1. CASE s = slot
      BY <1>2, <1>3, <3>1
    <3>2. CASE s \in DOMAIN c.new_buckets
      <4>1. /\ d.new_buckets[s] = c.new_buckets[s] /\ c.new_buckets[s] \in DOMAIN c.entries
            /\ s \in c.entries[c.new_buckets[s]].new_refs
        BY <1>3, <2>1, <3>2 DEF NewTableMatches
      <4> QED
        BY <1>2, <4>1
    <3> QED
      BY <1>3, <3>1, <3>2
  <2>3. ASSUME NEW x \in DOMAIN d.entries, NEW s \in d.entries[x].new_refs
        PROVE  s \in DOMAIN d.new_buckets /\ d.new_buckets[s] = x
    <3>1. CASE x = id
      BY <1>2, <1>3, <3>1
    <3>2. CASE x \in DOMAIN c.entries
      <4>1. s \in DOMAIN c.new_buckets /\ c.new_buckets[s] = x
        BY <1>2, <2>1, <3>2 DEF NewTableMatches
      <4> QED
        BY <1>3, <4>1
    <3> QED
      BY <1>2, <3>1, <3>2
  <2> QED
    BY <2>2, <2>3 DEF NewTableMatches
<1>8. TriedTableMatches(d)
  <2>1. TriedTableMatches(c)
    BY DEF Wired
  <2>2. ASSUME NEW s \in DOMAIN d.tried_buckets
        PROVE  /\ d.tried_buckets[s] \in DOMAIN d.entries
               /\ d.entries[d.tried_buckets[s]].tried_ref = s
    <3>1. /\ c.tried_buckets[s] \in DOMAIN c.entries
          /\ c.entries[c.tried_buckets[s]].tried_ref = s
      BY <2>1 DEF TriedTableMatches
    <3> QED
      BY <1>2, <3>1
  <2>3. ASSUME NEW x \in DOMAIN d.entries, d.entries[x].tried_ref # None
        PROVE  /\ d.entries[x].tried_ref \in DOMAIN d.tried_buckets
               /\ d.tried_buckets[d.entries[x].tried_ref] = x
    <3>1. x \in DOMAIN c.entries /\ d.entries[x] = c.entries[x]
      BY <1>2, <2>3
    <3> QED
      BY <2>1, <2>3, <3>1 DEF TriedTableMatches
  <2> QED
    BY <2>2, <2>3 DEF TriedTableMatches
<1>9. OrderMatches(d)
  <2>1. ASSUME NEW i \in 1..Len(d.ids)
        PROVE  d.ids[i] \in DOMAIN d.entries /\ d.entries[d.ids[i]].random_pos = i
    <3>1. CASE i = Len(c.ids) + 1
      BY <1>2, <1>4, <3>1
    <3>2. CASE i \in 1..Len(c.ids)
      <4>1. /\ d.ids[i] = c.ids[i] /\ c.ids[i] \in DOMAIN c.entries
            /\ c.entries[c.ids[i]].random_pos = i
        BY <1>4, <3>2 DEF Wired, OrderMatches
      <4> QED
        BY <1>2, <4>1
    <3> QED
      BY SMTT(30), <1>4, <3>1, <3>2
  <2>2. ASSUME NEW x \in DOMAIN d.entries
        PROVE  /\ d.entries[x].random_pos \in 1..Len(d.ids)
               /\ d.ids[d.entries[x].random_pos] = x
    <3>1. CASE x = id
      BY SMTT(30), <1>2, <1>4, <3>1
    <3>2. CASE x \in DOMAIN c.entries
      <4>1. d.entries[x] = c.entries[x] /\ c.entries[x].random_pos \in 1..Len(c.ids)
            /\ c.ids[c.entries[x].random_pos] = x
        BY Zenon, <1>2, <3>2 DEF Wired, OrderMatches
      <4> QED
        BY SMTT(30), <1>4, <4>1
    <3> QED
      BY <1>2, <3>1, <3>2
  <2> QED
    BY <2>1, <2>2 DEF OrderMatches
<1>10. IdsMatch(d)
  <2>1. \A x, y \in DOMAIN d.entries : d.entries[x].endpoint = d.entries[y].endpoint => x = y
    <3>1. IdsMatch(c)
      BY DEF Wired
    <3> QED
      BY <1>2, <3>1 DEF IdsMatch
  <2>2. \A x \in DOMAIN d.entries : x < d.last_id
    <3>1. IdsMatch(c) /\ DOMAIN c.entries \subseteq Nat /\ c.last_id \in Nat
      BY DEF Wired, IsBook
    <3>2. \A x \in DOMAIN c.entries : x < id
      BY <3>1 DEF IdsMatch, id
    <3>3. d.last_id = id + 1
      BY DEF id
    <3> QED
      BY <1>1, <1>2, <3>1, <3>2, <3>3
  <2> QED
    BY <2>1, <2>2 DEF IdsMatch
<1>11. CountersMatch(d)
  <2>1. TriedEntries(d) = TriedEntries(c)
    BY <1>2 DEF TriedEntries
  <2>2. NewEntries(d) = NewEntries(c) \cup {id} /\ id \notin NewEntries(c)
    BY Zenon, <1>1, <1>2 DEF NewEntries
  <2>3. IsFiniteSet(NewEntries(c))
    BY FS_Subset DEF NewEntries, Wired
  <2>4. Cardinality(NewEntries(d)) = Cardinality(NewEntries(c)) + 1
    BY Zenon, <2>2, <2>3, FS_AddElement
  <2> QED
    BY <2>1, <2>4 DEF Wired, CountersMatch
<1>12. ReferencesBounded(d)
  <2>1. Cardinality({slot}) = 1
    BY ZenonT(30), FS_Singleton
  <2>2. Cardinality(entry.new_refs) <= kMaxNewBucketReferences
    BY <2>1, BoundAssumption
  <2> QED
    BY Zenon, <1>2, <2>2 DEF Wired, ReferencesBounded
<1>13. PlacedBy(d, k)
  <2>1. PlacedBy(c, k)
    BY DEF Wired
  <2>2. ASSUME NEW x \in DOMAIN d.entries
        PROVE  /\ d.entries[x].tried_ref \in {None, get_tried_slot(k, d.entries[x].endpoint)}
               /\ \A s \in d.entries[x].new_refs :
                    \E y \in Addresses : s = get_new_slot(k, d.entries[x].endpoint, y)
    <3>1. CASE x = id
      BY <1>2, <3>1
    <3>2. CASE x \in DOMAIN c.entries
      BY <1>2, <2>1, <3>2 DEF PlacedBy
    <3> QED
      BY <1>2, <3>1, <3>2
  <2> QED
    BY <2>2 DEF PlacedBy
<1>14. NotInBoth(d) /\ Covered(d, {})
  BY ZenonT(30), <1>2 DEF Wired, NotInBoth, Covered
<1> QED
  BY <1>5, <1>6, <1>7, <1>8, <1>9, <1>10, <1>11, <1>12, <1>13, <1>14 DEF Wired

\* What a call may take away from a book: one entry, which is not "tried".
Loses(b, c) ==
  /\ \E x : DOMAIN b.entries \ DOMAIN c.entries \subseteq {x}
  /\ TriedEntries(b) \subseteq DOMAIN c.entries

\* Clearing a slot of the new table loses at most the entry it held (clear_new_slot).
LEMMA ClearLoses ==
  ASSUME NEW b, NEW c, NEW k, NEW Loose, Wired(b, k, Loose), NEW slot, ClearedOf(b, c, slot)
  PROVE  Loses(b, c)
<1>1. \A x \in DOMAIN b.entries \ DOMAIN c.entries : x = b.new_buckets[slot]
  BY Zenon DEF Wired, NewTableMatches, ClearedOf
<1>2. TriedEntries(b) \subseteq DOMAIN c.entries
  BY DEF Wired, NotInBoth, ClearedOf, TriedEntries
<1> QED
  BY <1>1, <1>2 DEF Loses

\* insert_entry keeps the book wired.
LEMMA InsertEffect ==
  ASSUME NEW b, NEW k \in Keys, Wired(b, k, {}),
         NEW e \in Endpoints, lookup_entry(b, e) = {},
         NEW src \in Addresses, NEW time \in Int
  PROVE  LET d == insert_entry(b, k, e, src, time)
         IN  Wired(d, k, {}) /\ Loses(b, d)
<1> DEFINE slot == get_new_slot(k, e, src)
           c == clear_new_slot(b, slot)
           entry == [ endpoint |-> e, origin |-> src, time |-> time,
                      new_refs |-> {slot}, tried_ref |-> None,
                      random_pos |-> Len(c.ids) + 1 ]
           d == insert_entry(b, k, e, src, time)
<1>1. slot \in NewSlots
  BY HashAssumption DEF get_new_slot
<1> HIDE DEF slot
<1>2. /\ Wired(c, k, {}) /\ slot \notin DOMAIN c.new_buckets
      /\ c.last_id = b.last_id /\ ClearedOf(b, c, slot)
  BY ClearEffect
<1> HIDE DEF c
<1>3. Len(c.ids) + 1 \in Nat /\ c.ok
  <2>1. IsBook(c) /\ c.ok
    BY <1>2 DEF Wired
  <2>2. c.ids \in Seq(Nat)
    BY <2>1 DEF IsBook
  <2> QED BY <2>1, <2>2
<1>4. /\ entry \in Entry /\ entry.endpoint = e /\ entry.new_refs = {slot}
      /\ entry.tried_ref = None /\ entry.random_pos = Len(c.ids) + 1
  BY <1>1, <1>3 DEF Entry
<1>5. d = [c EXCEPT !.last_id = c.last_id + 1,
                    !.entries = Put(c.entries, c.last_id, entry),
                    !.new_buckets = Put(c.new_buckets, slot, c.last_id),
                    !.ids = Append(c.ids, c.last_id),
                    !.new_size = c.new_size + 1]
  BY <1>2, <1>3 DEF insert_entry, c, slot
<1> HIDE DEF entry
<1>6. /\ DOMAIN d = DOMAIN c
      /\ d.last_id = c.last_id + 1 /\ d.entries = Put(c.entries, c.last_id, entry)
      /\ d.new_buckets = Put(c.new_buckets, slot, c.last_id)
      /\ d.tried_buckets = c.tried_buckets /\ d.ids = Append(c.ids, c.last_id)
      /\ d.new_size = c.new_size + 1 /\ d.tried_size = c.tried_size /\ d.ok = c.ok
  BY Zenon, <1>2, <1>5 DEF Wired, IsBook
<1> HIDE DEF d
<1>7. \A x \in DOMAIN c.entries : c.entries[x].endpoint # e
  BY <1>2 DEF ClearedOf, lookup_entry
<1>8. Wired(d, k, {})
  BY <1>1, <1>2, <1>4, <1>6, <1>7, WiredWithEntry DEF slot
<1>9. Loses(b, d)
  <2>1. Loses(b, c)
    BY <1>2, ClearLoses
  <2>2. DOMAIN c.entries \subseteq DOMAIN d.entries
    BY <1>6 DEF Put
  <2> QED
    BY <2>1, <2>2 DEF Loses
<1> QED
  BY <1>8, <1>9 DEF d

\* update_entry keeps the book wired.
LEMMA UpdateEffect ==
  ASSUME NEW b, NEW k \in Keys, Wired(b, k, {}), NEW id \in DOMAIN b.entries,
         NEW src \in Addresses, NEW t \in Int, NEW penalty \in Int, NEW now \in Int,
         NEW lucky \in BOOLEAN
  PROVE  LET f == update_entry(b, k, id, src, t, penalty, now, lucky)
         IN  Wired(f, k, {}) /\ Loses(b, f)
<1> DEFINE time == updated_time(b.entries[id].time, t, now, penalty)
           c == [b EXCEPT !.entries[id].time = time]
           entry == c.entries[id]
           slot == get_new_slot(k, entry.endpoint, src)
           g == clear_new_slot(c, slot)
           d == reference_in_new_slot(g, id, slot)
           f == update_entry(b, k, id, src, t, penalty, now, lucky)
<1> SUFFICES Wired(f, k, {}) /\ Loses(b, f)
  OBVIOUS
<1>1. time \in Int
  BY SMTT(30), TimeAssumption DEF updated_time, Later, Wired, IsBook, Entry
<1> HIDE DEF time
<1>2. /\ Wired(c, k, {}) /\ DOMAIN c.entries = DOMAIN b.entries
      /\ \A x \in DOMAIN b.entries : c.entries[x].tried_ref = b.entries[x].tried_ref
  BY <1>1, TimeEffect
<1>3. f = IF (entry.new_refs # {}) = (entry.tried_ref # None) THEN Abort(c)
          ELSE IF keeps_references(entry, t) \/ ~lucky THEN c
          ELSE IF slot \in entry.new_refs
               THEN IF slot \in DOMAIN c.new_buckets THEN c ELSE Abort(c)
          ELSE IF entry.new_refs = {} THEN [d EXCEPT !.new_size = d.new_size + 1] ELSE d
  BY DEF update_entry, time
<1> HIDE DEF c, f
<1>4. (entry.new_refs # {}) # (entry.tried_ref # None)
  BY <1>2 DEF Wired, NotInBoth, Covered
<1>5. Loses(b, c)
  BY <1>2 DEF Loses, TriedEntries
<1>6. CASE keeps_references(entry, t) \/ ~lucky
  BY <1>2, <1>3, <1>4, <1>5, <1>6
<1>7. CASE slot \in entry.new_refs /\ ~(keeps_references(entry, t) \/ ~lucky)
  <2>1. slot \in DOMAIN c.new_buckets
    BY ZenonT(30), <1>2, <1>7 DEF Wired, NewTableMatches
  <2>2. f = c
    BY <1>3, <1>4, <1>7, <2>1
  <2> QED
    BY <1>2, <1>5, <2>2
<1>8. CASE slot \notin entry.new_refs /\ ~(keeps_references(entry, t) \/ ~lucky)
  <2>1. entry.tried_ref = None /\ entry.new_refs # {}
        /\ Cardinality(entry.new_refs) < kMaxNewBucketReferences
    <3>1. /\ entry.tried_ref = None
          /\ Cardinality(entry.new_refs) # kMaxNewBucketReferences
      BY <1>8 DEF keeps_references
    <3>2. /\ entry \in Entry
          /\ Cardinality(entry.new_refs) <= kMaxNewBucketReferences
      BY ZenonT(30), <1>2 DEF Wired, IsBook, ReferencesBounded
    <3>3. Cardinality(entry.new_refs) \in Nat
      BY <3>2, FiniteAssumption, FS_Subset, FS_CardinalityType DEF Entry
    <3> QED
      BY <1>4, <3>1, <3>2, <3>3, BoundAssumption
  <2>2. f = d
    BY <1>3, <1>4, <1>8, <2>1
  <2>3. slot \in NewSlots
    BY Zenon, <1>2, HashAssumption DEF get_new_slot, Wired, IsBook, Entry
  <2>4. Wired(g, k, {}) /\ slot \notin DOMAIN g.new_buckets /\ ClearedOf(c, g, slot)
    <3> HIDE DEF slot
    <3> QED
      BY <1>2, ClearEffect
  <2> HIDE DEF g
  <2>5. /\ id \in DOMAIN g.entries
        /\ g.entries[id].new_refs = entry.new_refs /\ g.entries[id].tried_ref = None
        /\ g.entries[id].endpoint = entry.endpoint
    <3>1. entry.new_refs # {slot}
      BY <1>8
    <3>2. id \in DOMAIN g.entries
      BY <1>2, <2>4, <3>1 DEF ClearedOf
    <3>3. /\ g.entries[id].new_refs = entry.new_refs \ {slot}
          /\ g.entries[id].tried_ref = entry.tried_ref
          /\ g.entries[id].endpoint = entry.endpoint
      <4> HIDE DEF slot
      <4> QED
        BY <2>4, <3>2 DEF ClearedOf
    <3>4. entry.new_refs \ {slot} = entry.new_refs
      <4> HIDE DEF slot, entry
      <4> QED
        BY <1>8
    <3> HIDE DEF slot, entry
    <3> QED
      BY <2>1, <3>2, <3>3, <3>4
  <2>6. Wired(d, k, {}) /\ DOMAIN d.entries = DOMAIN g.entries
    <3>1. slot = get_new_slot(k, g.entries[id].endpoint, src)
      BY <2>5
    <3> HIDE DEF slot, entry
    <3>2. g.entries[id].new_refs # {} /\ {} \ {id} = {}
      BY <2>1, <2>5
    <3>3. Cardinality(g.entries[id].new_refs) < kMaxNewBucketReferences
      BY <2>1, <2>5
    <3> DEFINE h == Referenced(g, id, slot)
    <3>4. Wired(h, k, {} \ {id}) /\ DOMAIN h.entries = DOMAIN g.entries
      BY SMTT(30), <2>3, <2>4, <2>5, <3>1, <3>3, ReferenceEffect
    <3>5. h = d
      BY <3>2 DEF Referenced
    <3> HIDE DEF h, d
    <3> QED
      BY <3>2, <3>4, <3>5
  <2>7. Loses(c, g)
    BY <1>2, <2>4, ClearLoses
  <2>8. TriedEntries(c) = TriedEntries(b)
    BY <1>2 DEF TriedEntries
  <2> HIDE DEF d, g
  <2> QED
    BY <1>2, <2>2, <2>6, <2>7, <2>8 DEF Loses
<1> QED
  BY <1>6, <1>7, <1>8

\* One advertised service.
LEMMA AdvertiseEffect ==
  ASSUME NEW b, NEW k \in Keys, Wired(b, k, {}), NEW e \in Endpoints,
         NEW src \in Addresses, NEW t \in Int, NEW now \in Int, NEW lucky \in BOOLEAN
  PROVE  LET f == insert_or_update_impl(b, k, e, src, t, TimePenalty, now, lucky)
         IN  Wired(f, k, {}) /\ Loses(b, f)
<1> DEFINE penalty == IF src = AddressOf[e] THEN 0 ELSE TimePenalty
           f == insert_or_update_impl(b, k, e, src, t, TimePenalty, now, lucky)
<1>1. penalty \in Int
  BY TimeAssumption
<1>2. CASE lookup_entry(b, e) = {}
  <2>1. f = insert_entry(b, k, e, src, Later(kTimeInit, t - penalty))
    BY <1>2 DEF insert_or_update_impl
  <2>2. Later(kTimeInit, t - penalty) \in Int
    BY <1>1, TimeAssumption DEF Later
  <2> HIDE DEF penalty, f
  <2>3. Wired(f, k, {}) /\ Loses(b, f)
    BY <1>2, <2>1, <2>2, InsertEffect
  <2> QED
    BY <2>3 DEF f
<1>3. CASE lookup_entry(b, e) # {}
  <2> DEFINE id == CHOOSE id \in lookup_entry(b, e) : TRUE
  <2>1. f = update_entry(b, k, id, src, t, penalty, now, lucky)
    BY <1>3 DEF insert_or_update_impl
  <2>2. id \in DOMAIN b.entries
    BY <1>3 DEF lookup_entry
  <2> HIDE DEF id, penalty, f
  <2>3. Wired(f, k, {}) /\ Loses(b, f)
    BY <1>1, <2>1, <2>2, UpdateEffect
  <2> QED
    BY <2>3 DEF f
<1> QED
  BY <1>2, <1>3
=============================================================================
