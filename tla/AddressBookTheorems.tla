------------------------ MODULE AddressBookTheorems -------------------------
(***************************************************************************)
(* The promotion of entries, the book that load() builds from what save()  *)
(* wrote, and from these and the lemmas of AddressBookProofs the inductive *)
(* invariant of AddressBook and the theorems.                              *)
(***************************************************************************)
EXTENDS AddressBookProofs, WellFoundedInduction

-----------------------------------------------------------------------------
(* make_entry_tried.                                                       *)

\* The slots of a promoted entry are all released; the entry becomes loose.
LEMMA LeaveEffect ==
  ASSUME NEW b, NEW k, Wired(b, k, {}), NEW id \in DOMAIN b.entries,
         b.entries[id].tried_ref = None
  PROVE  LET c == leave_new_buckets(b, id)
         IN  /\ Wired(c, k, {id})
             /\ DOMAIN c.entries = DOMAIN b.entries /\ TriedEntries(c) = TriedEntries(b)
             /\ c.entries[id].endpoint = b.entries[id].endpoint
             /\ c.entries[id].new_refs = {} /\ c.entries[id].tried_ref = None
<1> DEFINE refs == b.entries[id].new_refs
           e == [b.entries EXCEPT ![id].new_refs = {}]
           buckets == [s \in DOMAIN b.new_buckets \ refs |-> b.new_buckets[s]]
           size == b.new_size - (IF refs = {} THEN 0 ELSE 1)
           c == leave_new_buckets(b, id)
<1> SUFFICES /\ Wired(c, k, {id})
             /\ DOMAIN c.entries = DOMAIN b.entries /\ TriedEntries(c) = TriedEntries(b)
             /\ c.entries[id].endpoint = b.entries[id].endpoint
             /\ c.entries[id].new_refs = {} /\ c.entries[id].tried_ref = None
  OBVIOUS
<1>1. b.entries[id] \in Entry /\ refs # {}
  BY DEF Wired, IsBook, Covered
<1>2. c = [b EXCEPT !.new_size = size, !.new_buckets = buckets, !.entries = e]
  <2>1. c = [b EXCEPT !.new_size = size, !.new_buckets = buckets, !.entries[id].new_refs = {}]
    BY DEF leave_new_buckets
  <2> QED
    BY <2>1
<1>3. /\ DOMAIN e = DOMAIN b.entries
      /\ e[id] = [b.entries[id] EXCEPT !.new_refs = {}]
      /\ \A x \in DOMAIN b.entries : x # id => e[x] = b.entries[x]
  OBVIOUS
<1> HIDE DEF c, e
<1>4. /\ e[id] \in Entry /\ e[id].new_refs = {}
      /\ e[id].endpoint = b.entries[id].endpoint /\ e[id].tried_ref = None
      /\ e[id].random_pos = b.entries[id].random_pos
  BY <1>1, <1>3, RefsUpdate
<1>5. /\ DOMAIN buckets = DOMAIN b.new_buckets \ refs
      /\ \A s \in DOMAIN b.new_buckets \ refs : buckets[s] = b.new_buckets[s]
  OBVIOUS
<1> HIDE DEF buckets
<1>6. size = b.new_size - 1
  BY <1>1
<1> HIDE DEF size
<1>7. /\ c.entries = e /\ c.ids = b.ids /\ DOMAIN c = DOMAIN b
      /\ c.new_buckets = buckets /\ c.tried_buckets = b.tried_buckets
      /\ c.new_size = b.new_size - 1 /\ c.tried_size = b.tried_size
      /\ c.last_id = b.last_id /\ c.ok
  BY <1>2, <1>6 DEF Wired, IsBook
<1>8. \A x \in DOMAIN b.entries :
        /\ e[x] \in Entry /\ e[x].endpoint = b.entries[x].endpoint
        /\ e[x].tried_ref = b.entries[x].tried_ref
        /\ e[x].random_pos = b.entries[x].random_pos
        /\ e[x].new_refs = IF x = id THEN {} ELSE b.entries[x].new_refs
  BY Zenon, <1>3, <1>4 DEF Wired, IsBook
<1>9. CountersMatch(c) /\ c.new_size \in Nat /\ TriedEntries(c) = TriedEntries(b)
  <2>1. TriedEntries(c) = TriedEntries(b)
    BY <1>3, <1>7, <1>8 DEF TriedEntries
  <2>2. NewEntries(c) = NewEntries(b) \ {id} /\ id \in NewEntries(b)
    BY <1>1, <1>3, <1>7, <1>8 DEF NewEntries
  <2>3. IsFiniteSet(NewEntries(b))
    BY FS_Subset DEF NewEntries, Wired
  <2>4. /\ Cardinality(NewEntries(c)) = Cardinality(NewEntries(b)) - 1
        /\ IsFiniteSet(NewEntries(c))
    BY <2>2, <2>3, FS_RemoveElement
  <2>5. Cardinality(NewEntries(c)) \in Nat
    BY <2>4, FS_CardinalityType
  <2> QED
    BY <1>7, <2>1, <2>4, <2>5 DEF Wired, CountersMatch
<1>10. IsBook(c) /\ c.ok /\ IsFiniteSet(DOMAIN c.entries)
  <2>1. DOMAIN c.new_buckets \subseteq NewSlots
    BY <1>5, <1>7 DEF Wired, IsBook
  <2> QED
    BY <1>3, <1>7, <1>8, <1>9, <2>1 DEF Wired, IsBook
<1>11. NewTableMatches(c)
  <2>1. ASSUME NEW s \in DOMAIN c.new_buckets
        PROVE  /\ c.new_buckets[s] \in DOMAIN c.entries
               /\ s \in c.entries[c.new_buckets[s]].new_refs
    <3>1. s \in DOMAIN b.new_buckets /\ s \notin refs /\ c.new_buckets[s] = b.new_buckets[s]
      BY <1>5, <1>7
    <3>2. b.new_buckets[s] \in DOMAIN b.entries /\ s \in b.entries[b.new_buckets[s]].new_refs
      BY <3>1 DEF Wired, NewTableMatches
    <3> QED
      BY <1>3, <1>7, <1>8, <3>1, <3>2
  <2>2. ASSUME NEW x \in DOMAIN c.entries, NEW s \in c.entries[x].new_refs
        PROVE  s \in DOMAIN c.new_buckets /\ c.new_buckets[s] = x
    <3>1. x \in DOMAIN b.entries /\ x # id /\ s \in b.entries[x].new_refs
      BY <1>3, <1>7, <1>8
    <3>2. s \in DOMAIN b.new_buckets /\ b.new_buckets[s] = x /\ s \notin refs
      BY <3>1 DEF Wired, NewTableMatches
    <3> QED
      BY <1>5, <1>7, <3>2
  <2> QED
    BY <2>1, <2>2 DEF NewTableMatches
<1>12. TriedTableMatches(c)
  BY <1>3, <1>7, <1>8 DEF Wired, TriedTableMatches
<1>13. OrderMatches(c) /\ IdsMatch(c)
  BY <1>3, <1>7, <1>8 DEF Wired, OrderMatches, IdsMatch
<1>14. ReferencesBounded(c)
  <2>1. Cardinality({}) <= kMaxNewBucketReferences
    BY FS_EmptySet, BoundAssumption
  <2> QED
    BY <1>3, <1>7, <1>8, <2>1 DEF Wired, ReferencesBounded
<1>15. PlacedBy(c, k)
  BY <1>3, <1>7, <1>8 DEF Wired, PlacedBy
<1>16. NotInBoth(c) /\ Covered(c, {id})
  BY <1>3, <1>7, <1>8 DEF Wired, NotInBoth, Covered
<1>17. Wired(c, k, {id})
  BY <1>9, <1>10, <1>11, <1>12, <1>13, <1>14, <1>15, <1>16 DEF Wired
<1> QED
  BY Zenon, <1>3, <1>4, <1>7, <1>9, <1>17

\* The entry taken out of a "tried" slot becomes loose.
LEMMA UntriedEffect ==
  ASSUME NEW b, NEW k, NEW Loose, Wired(b, k, Loose), NEW ts \in DOMAIN b.tried_buckets
  PROVE  LET id == b.tried_buckets[ts]
             c == leave_tried_slot(b, ts)
         IN  /\ Wired(c, k, Loose \cup {id})
             /\ id \in DOMAIN b.entries /\ DOMAIN c.entries = DOMAIN b.entries
             /\ b.entries[id].tried_ref = ts /\ b.entries[id].new_refs = {}
             /\ c.tried_buckets = Drop(b.tried_buckets, ts)
             /\ c.entries[id].endpoint = b.entries[id].endpoint
             /\ c.entries[id].origin = b.entries[id].origin
             /\ c.entries[id].new_refs = {} /\ c.entries[id].tried_ref = None
             /\ \A x \in DOMAIN b.entries : x # id => c.entries[x] = b.entries[x]
<1> DEFINE id == b.tried_buckets[ts]
           e == [b.entries EXCEPT ![id].tried_ref = None]
           c == leave_tried_slot(b, ts)
           buckets == Drop(b.tried_buckets, ts)
<1> SUFFICES /\ Wired(c, k, Loose \cup {id})
             /\ id \in DOMAIN b.entries /\ DOMAIN c.entries = DOMAIN b.entries
             /\ b.entries[id].tried_ref = ts /\ b.entries[id].new_refs = {}
             /\ c.tried_buckets = Drop(b.tried_buckets, ts)
             /\ c.entries[id].endpoint = b.entries[id].endpoint
             /\ c.entries[id].origin = b.entries[id].origin
             /\ c.entries[id].new_refs = {} /\ c.entries[id].tried_ref = None
             /\ \A x \in DOMAIN b.entries : x # id => c.entries[x] = b.entries[x]
  OBVIOUS
<1>1. /\ id \in DOMAIN b.entries /\ b.entries[id] \in Entry
      /\ b.entries[id].tried_ref = ts /\ ts \in TriedSlots /\ ts # None
  BY NoneAssumption DEF Wired, IsBook, TriedTableMatches
<1>2. b.entries[id].new_refs = {}
  BY <1>1 DEF Wired, NotInBoth
<1>3. c = [b EXCEPT !.entries = e, !.tried_buckets = buckets, !.tried_size = b.tried_size - 1]
  BY DEF leave_tried_slot
<1>4. /\ DOMAIN e = DOMAIN b.entries
      /\ e[id] = [b.entries[id] EXCEPT !.tried_ref = None]
      /\ \A x \in DOMAIN b.entries : x # id => e[x] = b.entries[x]
  BY <1>1
<1> HIDE DEF c, e
<1>5. /\ e[id] \in Entry /\ e[id].new_refs = {} /\ e[id].origin = b.entries[id].origin
      /\ e[id].endpoint = b.entries[id].endpoint /\ e[id].tried_ref = None
      /\ e[id].random_pos = b.entries[id].random_pos
  <2> HIDE DEF id
  <2> QED
    BY <1>1, <1>2, <1>4, TriedUpdate
<1>6. /\ DOMAIN buckets = DOMAIN b.tried_buckets \ {ts}
      /\ \A s \in DOMAIN b.tried_buckets \ {ts} : buckets[s] = b.tried_buckets[s]
  BY DEF Drop
<1>7. /\ c.entries = e /\ c.ids = b.ids /\ DOMAIN c = DOMAIN b
      /\ c.new_buckets = b.new_buckets /\ c.tried_buckets = buckets
      /\ c.new_size = b.new_size /\ c.tried_size = b.tried_size - 1
      /\ c.last_id = b.last_id /\ c.ok
  <2> HIDE DEF buckets
  <2> QED
    BY <1>3 DEF Wired, IsBook
<1>8. \A x \in DOMAIN b.entries :
        /\ e[x] \in Entry /\ e[x].endpoint = b.entries[x].endpoint
        /\ e[x].tried_ref = IF x = id THEN None ELSE b.entries[x].tried_ref
        /\ e[x].random_pos = b.entries[x].random_pos
        /\ e[x].new_refs = b.entries[x].new_refs
  BY Zenon, <1>2, <1>4, <1>5 DEF Wired, IsBook
<1>9. CountersMatch(c) /\ c.tried_size \in Nat
  <2>1. NewEntries(c) = NewEntries(b)
    BY <1>4, <1>7, <1>8 DEF NewEntries
  <2>2. TriedEntries(c) = TriedEntries(b) \ {id} /\ id \in TriedEntries(b)
    BY <1>1, <1>4, <1>7, <1>8 DEF TriedEntries
  <2>3. IsFiniteSet(TriedEntries(b))
    BY FS_Subset DEF TriedEntries, Wired
  <2>4. /\ Cardinality(TriedEntries(c)) = Cardinality(TriedEntries(b)) - 1
        /\ IsFiniteSet(TriedEntries(c))
    BY Zenon, <2>2, <2>3, FS_RemoveElement
  <2>5. Cardinality(TriedEntries(c)) \in Nat
    BY <2>4, FS_CardinalityType
  <2> QED
    BY <1>7, <2>1, <2>4, <2>5 DEF Wired, CountersMatch
<1>10. IsBook(c) /\ c.ok /\ IsFiniteSet(DOMAIN c.entries)
  <2>1. DOMAIN c.tried_buckets \subseteq TriedSlots
    BY <1>6, <1>7 DEF Wired, IsBook
  <2> QED
    BY <1>4, <1>7, <1>8, <1>9, <2>1 DEF Wired, IsBook
<1> HIDE DEF buckets
<1>11. TriedTableMatches(c)
  <2>1. ASSUME NEW s \in DOMAIN c.tried_buckets
        PROVE  /\ c.tried_buckets[s] \in DOMAIN c.entries
               /\ c.entries[c.tried_buckets[s]].tried_ref = s
    <3>1. s \in DOMAIN b.tried_buckets /\ s # ts /\ c.tried_buckets[s] = b.tried_buckets[s]
      BY <1>6, <1>7
    <3>2. /\ b.tried_buckets[s] \in DOMAIN b.entries
          /\ b.entries[b.tried_buckets[s]].tried_ref = s
      BY <3>1 DEF Wired, TriedTableMatches
    <3> QED
      BY <1>1, <1>4, <1>7, <1>8, <3>1, <3>2
  <2>2. ASSUME NEW x \in DOMAIN c.entries, c.entries[x].tried_ref # None
        PROVE  /\ c.entries[x].tried_ref \in DOMAIN c.tried_buckets
               /\ c.tried_buckets[c.entries[x].tried_ref] = x
    <3>1. /\ x \in DOMAIN b.entries /\ x # id
          /\ c.entries[x].tried_ref = b.entries[x].tried_ref
      BY <1>4, <1>7, <1>8, <2>2
    <3>2. /\ b.entries[x].tried_ref \in DOMAIN b.tried_buckets
          /\ b.tried_buckets[b.entries[x].tried_ref] = x
      BY <2>2, <3>1 DEF Wired, TriedTableMatches
    <3> QED
      BY <1>6, <1>7, <3>1, <3>2
  <2> QED
    BY <2>1, <2>2 DEF TriedTableMatches
<1> HIDE DEF id
<1>12. NewTableMatches(c)
  BY <1>4, <1>7, <1>8 DEF Wired, NewTableMatches
<1>13. OrderMatches(c) /\ IdsMatch(c)
  BY <1>4, <1>7, <1>8 DEF Wired, OrderMatches, IdsMatch
<1>14. ReferencesBounded(c) /\ PlacedBy(c, k)
  BY <1>4, <1>7, <1>8 DEF Wired, ReferencesBounded, PlacedBy
<1>15. NotInBoth(c) /\ Covered(c, Loose \cup {id})
  BY <1>4, <1>7, <1>8 DEF Wired, NotInBoth, Covered
<1>16. Wired(c, k, Loose \cup {id})
  BY <1>9, <1>10, <1>11, <1>12, <1>13, <1>14, <1>15 DEF Wired
<1> QED
  BY ZenonT(30), <1>1, <1>2, <1>4, <1>5, <1>7, <1>16 DEF buckets

\* The holder of a "tried" slot goes back to a "new" slot: the ASSERTs pass,
\* the slot is free, and at most an entry that is not "tried" is lost.
LEMMA EvictEffect ==
  ASSUME NEW b, NEW k \in Keys, NEW Loose, Wired(b, k, Loose), NEW p \in DOMAIN b.entries,
         b.entries[p].new_refs = {}, b.entries[p].tried_ref = None,
         NEW ts \in DOMAIN b.tried_buckets
  PROVE  LET d == evict_tried(b, k, ts)
         IN  /\ Wired(d, k, Loose) /\ ts \notin DOMAIN d.tried_buckets
             /\ p \in DOMAIN d.entries /\ d.entries[p].endpoint = b.entries[p].endpoint
             /\ d.entries[p].new_refs = {} /\ d.entries[p].tried_ref = None
             /\ Loses(b, d)
<1> DEFINE id == b.tried_buckets[ts]
           slot == get_new_slot(k, b.entries[id].endpoint, b.entries[id].origin)
           c == leave_tried_slot(b, ts)
           g == clear_new_slot(c, slot)
           h == reference_in_new_slot(g, id, slot)
           d == evict_tried(b, k, ts)
<1> SUFFICES /\ Wired(d, k, Loose) /\ ts \notin DOMAIN d.tried_buckets
             /\ p \in DOMAIN d.entries /\ d.entries[p].endpoint = b.entries[p].endpoint
             /\ d.entries[p].new_refs = {} /\ d.entries[p].tried_ref = None
             /\ Loses(b, d)
  OBVIOUS
<1>1. /\ Wired(c, k, Loose \cup {id})
      /\ id \in DOMAIN b.entries /\ DOMAIN c.entries = DOMAIN b.entries
      /\ b.entries[id].tried_ref = ts /\ b.entries[id].new_refs = {}
      /\ c.tried_buckets = Drop(b.tried_buckets, ts)
      /\ c.entries[id].endpoint = b.entries[id].endpoint
      /\ c.entries[id].origin = b.entries[id].origin
      /\ c.entries[id].new_refs = {} /\ c.entries[id].tried_ref = None
      /\ \A x \in DOMAIN b.entries : x # id => c.entries[x] = b.entries[x]
  BY SMTT(30), UntriedEffect
<1>2. d = [h EXCEPT !.new_size = h.new_size + 1]
  BY <1>1 DEF evict_tried
<1> HIDE DEF c, d
<1>3. id # p /\ ts # None /\ ts \in TriedSlots
  BY SMTT(30), <1>1, NoneAssumption DEF Wired, IsBook
<1>4. /\ slot \in NewSlots /\ b.entries[id].origin \in Addresses
      /\ slot = get_new_slot(k, c.entries[id].endpoint, b.entries[id].origin)
  BY Zenon, <1>1, HashAssumption DEF get_new_slot, Wired, IsBook, Entry
<1> HIDE DEF slot, id
<1>5. /\ Wired(g, k, Loose \cup {id}) /\ slot \notin DOMAIN g.new_buckets
      /\ g.tried_buckets = c.tried_buckets /\ ClearedOf(c, g, slot)
  BY <1>1, ClearEffect
<1>6. Loses(c, g)
  BY <1>1, <1>5, ClearLoses
<1> HIDE DEF g
<1>7. /\ id \in DOMAIN g.entries /\ p \in DOMAIN g.entries
      /\ g.entries[id].new_refs = {} /\ g.entries[id].tried_ref = None
      /\ g.entries[id].endpoint = c.entries[id].endpoint
      /\ g.entries[p].new_refs = {} /\ g.entries[p].tried_ref = None
      /\ g.entries[p].endpoint = b.entries[p].endpoint
  <2>1. c.entries[p] = b.entries[p] /\ p \in DOMAIN c.entries /\ id \in DOMAIN c.entries
    BY <1>1, <1>3
  <2>2. id \in DOMAIN g.entries /\ p \in DOMAIN g.entries
    BY Zenon, <1>1, <1>5, <2>1 DEF ClearedOf
  <2> QED
    BY <1>1, <1>5, <2>1, <2>2 DEF ClearedOf
<1>8. /\ Wired(d, k, Loose) /\ DOMAIN d.entries = DOMAIN g.entries
      /\ d.tried_buckets = g.tried_buckets /\ d.entries[p] = g.entries[p]
  <2>1. Cardinality(g.entries[id].new_refs) < kMaxNewBucketReferences
    BY <1>7, FS_EmptySet, BoundAssumption
  <2>2. slot = get_new_slot(k, g.entries[id].endpoint, b.entries[id].origin)
    BY <1>4, <1>7
  <2> DEFINE f == Referenced(g, id, slot)
             src == b.entries[id].origin
             Loose2 == Loose \cup {id}
  <2>3. src \in Addresses /\ slot = get_new_slot(k, g.entries[id].endpoint, src)
    BY <1>4, <2>2
  <2>4. Wired(g, k, Loose2)
    BY <1>5
  <2> HIDE DEF Loose2, src
  <2>5. /\ slot \in NewSlots /\ slot \notin DOMAIN g.new_buckets
        /\ id \in DOMAIN g.entries /\ g.entries[id].tried_ref = None
    BY <1>4, <1>5, <1>7
  <2>6. /\ Wired(f, k, Loose2 \ {id}) /\ DOMAIN f.entries = DOMAIN g.entries
        /\ f.tried_buckets = g.tried_buckets
        /\ \A x \in DOMAIN g.entries : x # id => f.entries[x] = g.entries[x]
    BY SMTT(30), <2>1, <2>3, <2>4, <2>5, ReferenceEffect
  <2>7. f.entries[p] = g.entries[p]
    <3> HIDE DEF f
    <3> QED
      BY <1>3, <1>7, <2>6
  <2>8. f = d
    BY <1>2, <1>7 DEF Referenced
  <2> HIDE DEF f
  <2>9. Wired(f, k, Loose)
    BY <2>6 DEF Wired, Covered, Loose2
  <2> QED
    BY <2>6, <2>7, <2>8, <2>9
<1>9. ts \notin DOMAIN d.tried_buckets
  BY <1>1, <1>5, <1>8 DEF Drop
<1>10. Loses(b, d)
  <2>1. TriedEntries(b) \subseteq TriedEntries(c) \cup {id}
    BY <1>1 DEF TriedEntries
  <2> QED
    BY <1>1, <1>6, <1>7, <1>8, <2>1 DEF Loses
<1> QED
  BY <1>7, <1>8, <1>9, <1>10

\* A loose entry that enters its "tried" slot is loose no more.
LEMMA EnterEffect ==
  ASSUME NEW b, NEW k \in Keys, NEW id \in DOMAIN b.entries, Wired(b, k, {id}),
         b.entries[id].new_refs = {}, b.entries[id].tried_ref = None,
         NEW ts \in TriedSlots, ts \notin DOMAIN b.tried_buckets,
         ts = get_tried_slot(k, b.entries[id].endpoint)
  PROVE  LET c == enter_tried_slot(b, id, ts)
         IN  Wired(c, k, {}) /\ DOMAIN c.entries = DOMAIN b.entries
<1> DEFINE e == [b.entries EXCEPT ![id].tried_ref = ts]
           buckets == Put(b.tried_buckets, ts, id)
           c == enter_tried_slot(b, id, ts)
<1> SUFFICES Wired(c, k, {}) /\ DOMAIN c.entries = DOMAIN b.entries
  OBVIOUS
<1>1. b.entries[id] \in Entry /\ b.ok /\ ts # None
  BY NoneAssumption DEF Wired, IsBook
<1>2. c = [b EXCEPT !.entries = e, !.tried_buckets = buckets, !.tried_size = b.tried_size + 1]
  <2>1. c = [b EXCEPT !.tried_buckets = Put(b.tried_buckets, ts, id),
                      !.entries[id].tried_ref = ts,
                      !.tried_size = b.tried_size + 1]
    BY <1>1 DEF enter_tried_slot
  <2> QED
    BY Zenon, <2>1
<1>3. /\ DOMAIN e = DOMAIN b.entries
      /\ e[id] = [b.entries[id] EXCEPT !.tried_ref = ts]
      /\ \A x \in DOMAIN b.entries : x # id => e[x] = b.entries[x]
  OBVIOUS
<1> HIDE DEF c, e
<1>4. /\ e[id] \in Entry /\ e[id].new_refs = {}
      /\ e[id].endpoint = b.entries[id].endpoint /\ e[id].tried_ref = ts
      /\ e[id].random_pos = b.entries[id].random_pos
  BY <1>1, <1>3, TriedUpdate
<1>5. /\ DOMAIN buckets = DOMAIN b.tried_buckets \cup {ts} /\ buckets[ts] = id
      /\ \A s \in DOMAIN b.tried_buckets : s # ts /\ buckets[s] = b.tried_buckets[s]
  BY DEF Put
<1> HIDE DEF buckets
<1>6. /\ c.entries = e /\ c.ids = b.ids /\ DOMAIN c = DOMAIN b
      /\ c.new_buckets = b.new_buckets /\ c.tried_buckets = buckets
      /\ c.new_size = b.new_size /\ c.tried_size = b.tried_size + 1
      /\ c.last_id = b.last_id /\ c.ok
  BY <1>1, <1>2 DEF Wired, IsBook
<1>7. \A x \in DOMAIN b.entries :
        /\ e[x] \in Entry /\ e[x].endpoint = b.entries[x].endpoint
        /\ e[x].tried_ref = IF x = id THEN ts ELSE b.entries[x].tried_ref
        /\ e[x].random_pos = b.entries[x].random_pos
        /\ e[x].new_refs = b.entries[x].new_refs
  BY Zenon, <1>3, <1>4 DEF Wired, IsBook
<1>8. CountersMatch(c)
  <2>1. NewEntries(c) = NewEntries(b)
    BY <1>3, <1>6, <1>7 DEF NewEntries
  <2>2. TriedEntries(c) = TriedEntries(b) \cup {id} /\ id \notin TriedEntries(b)
    BY <1>1, <1>3, <1>6, <1>7 DEF TriedEntries
  <2>3. IsFiniteSet(TriedEntries(b))
    BY FS_Subset DEF TriedEntries, Wired
  <2>4. Cardinality(TriedEntries(c)) = Cardinality(TriedEntries(b)) + 1
    BY Zenon, <2>2, <2>3, FS_AddElement
  <2> QED
    BY <1>6, <2>1, <2>4 DEF Wired, CountersMatch
<1>9. IsBook(c) /\ c.ok /\ IsFiniteSet(DOMAIN c.entries)
  <2>1. DOMAIN c.tried_buckets \subseteq TriedSlots /\ c.tried_size \in Nat
    BY <1>5, <1>6 DEF Wired, IsBook
  <2> QED
    BY <1>3, <1>6, <1>7, <2>1 DEF Wired, IsBook
<1>10. TriedTableMatches(c)
  <2>1. ASSUME NEW s \in DOMAIN c.tried_buckets
        PROVE  /\ c.tried_buckets[s] \in DOMAIN c.entries
               /\ c.entries[c.tried_buckets[s]].tried_ref = s
    <3>1. CASE s = ts
      BY ZenonT(30), <1>3, <1>4, <1>5, <1>6, <3>1
    <3>2. CASE s # ts
      <4>1. s \in DOMAIN b.tried_buckets /\ c.tried_buckets[s] = b.tried_buckets[s]
        BY <1>5, <1>6, <3>2
      <4>2. /\ b.tried_buckets[s] \in DOMAIN b.entries
            /\ b.entries[b.tried_buckets[s]].tried_ref = s
        BY <4>1 DEF Wired, TriedTableMatches
      <4>3. b.tried_buckets[s] # id
        BY <1>1, <4>1, <4>2, NoneAssumption DEF Wired, IsBook
      <4> QED
        BY <1>3, <1>6, <1>7, <4>1, <4>2, <4>3
    <3> QED
      BY <3>1, <3>2
  <2>2. ASSUME NEW x \in DOMAIN c.entries, c.entries[x].tried_ref # None
        PROVE  /\ c.entries[x].tried_ref \in DOMAIN c.tried_buckets
               /\ c.tried_buckets[c.entries[x].tried_ref] = x
    BY <1>3, <1>5, <1>6, <1>7, <2>2 DEF Wired, TriedTableMatches
  <2> QED
    BY <2>1, <2>2 DEF TriedTableMatches
<1>11. NewTableMatches(c)
  BY <1>3, <1>6, <1>7 DEF Wired, NewTableMatches
<1>12. OrderMatches(c) /\ IdsMatch(c)
  BY <1>3, <1>6, <1>7 DEF Wired, OrderMatches, IdsMatch
<1>13. ReferencesBounded(c) /\ PlacedBy(c, k)
  BY <1>3, <1>6, <1>7 DEF Wired, ReferencesBounded, PlacedBy
<1>14. NotInBoth(c) /\ Covered(c, {})
  BY <1>1, <1>3, <1>6, <1>7 DEF Wired, NotInBoth, Covered
<1> QED
  BY <1>3, <1>6, <1>8, <1>9, <1>10, <1>11, <1>12, <1>13, <1>14 DEF Wired

\* set_good, set_failed and set_tried: the whole promotion.
LEMMA PromoteEffect ==
  ASSUME NEW b, NEW k \in Keys, Wired(b, k, {}), NEW id \in DOMAIN b.entries
  PROVE  LET f == make_entry_tried(b, k, id)
         IN  Wired(f, k, {}) /\ Loses(b, f)
<1> DEFINE ts == get_tried_slot(k, b.entries[id].endpoint)
           c == leave_new_buckets(b, id)
           d == IF ts \in DOMAIN c.tried_buckets THEN evict_tried(c, k, ts) ELSE c
           f == make_entry_tried(b, k, id)
<1> SUFFICES Wired(f, k, {}) /\ Loses(b, f)
  OBVIOUS
<1>1. CASE b.entries[id].tried_ref # None
  <2>1. f = b
    BY <1>1 DEF make_entry_tried
  <2> HIDE DEF f
  <2> QED
    BY <2>1 DEF Loses, TriedEntries
<1>2. CASE b.entries[id].tried_ref = None
  <2>1. f = enter_tried_slot(d, id, ts)
    BY <1>2 DEF make_entry_tried
  <2>2. ts \in TriedSlots
    BY HashAssumption DEF get_tried_slot, Wired, IsBook, Entry
  <2>3. /\ Wired(c, k, {id})
        /\ DOMAIN c.entries = DOMAIN b.entries /\ TriedEntries(c) = TriedEntries(b)
        /\ c.entries[id].endpoint = b.entries[id].endpoint
        /\ c.entries[id].new_refs = {} /\ c.entries[id].tried_ref = None
    BY <1>2, LeaveEffect
  <2> HIDE DEF ts, c, f
  <2>4. /\ Wired(d, k, {id}) /\ ts \notin DOMAIN d.tried_buckets
        /\ id \in DOMAIN d.entries /\ d.entries[id].endpoint = c.entries[id].endpoint
        /\ d.entries[id].new_refs = {} /\ d.entries[id].tried_ref = None
        /\ Loses(c, d)
    <3>1. CASE ts \in DOMAIN c.tried_buckets
      <4>1. d = evict_tried(c, k, ts)
        BY <3>1
      <4>2. id \in DOMAIN c.entries
        BY <2>3
      <4> HIDE DEF d
      <4> QED
        BY SMTT(30), <2>3, <3>1, <4>1, <4>2, EvictEffect
    <3>2. CASE ts \notin DOMAIN c.tried_buckets
      <4>1. d = c
        BY <3>2
      <4> HIDE DEF d
      <4> QED
        BY <2>3, <3>2, <4>1 DEF Loses, TriedEntries
    <3> QED
      BY <3>1, <3>2
  <2> HIDE DEF d
  <2>5. ts = get_tried_slot(k, d.entries[id].endpoint)
    BY <2>3, <2>4 DEF ts
  <2>6. Wired(f, k, {}) /\ DOMAIN f.entries = DOMAIN d.entries
    BY <2>1, <2>2, <2>4, <2>5, EnterEffect
  <2> QED
    BY <2>3, <2>4, <2>6 DEF Loses
<1> QED
  BY <1>1, <1>2

-----------------------------------------------------------------------------
(* load() after save().                                                    *)

\* The id after the last one in use is above all of them.
LEMMA NextIdEffect ==
  ASSUME NEW ids, ids \subseteq Nat, NEW n \in Nat, \A id \in ids : id < n
  PROVE  next_id(ids) \in Nat /\ \A id \in ids : id < next_id(ids)
<1>1. CASE ids = {}
  BY <1>1 DEF next_id
<1>2. CASE ids # {}
  <2> DEFINE T == {m \in Nat : \A id \in ids : id <= m}
  <2>1. T \subseteq Nat /\ T # {}
    <3>1. n \in T
      OBVIOUS
    <3> QED
      BY <3>1
  <2>2. PICK m \in T : \A y \in T : ~ (<<y, m>> \in OpToRel(<, Nat))
    <3> HIDE DEF T
    <3> QED
      BY Zenon, <2>1, WFMin, NatLessThanWellFounded
  <2>3. \A y \in T : ~ (y < m)
    BY Zenon, <2>2 DEF OpToRel
  <2>4. m \in ids
    <3> SUFFICES ASSUME m \notin ids PROVE FALSE
      OBVIOUS
    <3>1. \A id \in ids : id < m
      OBVIOUS
    <3>2. PICK first \in ids : first < m
      BY Zenon, <1>2, <3>1
    <3>3. m - 1 \in Nat /\ \A id \in ids : id <= m - 1
      BY <3>1, <3>2
    <3>4. m - 1 \in T
      BY <3>3
    <3> QED
      BY <2>3, <3>3, <3>4
  <2> DEFINE last == CHOOSE x \in ids : \A id \in ids : id <= x
  <2>5. last \in ids /\ \A id \in ids : id <= last
    BY Zenon, <2>4
  <2>6. next_id(ids) = 1 + last
    BY ZenonT(30), <1>2 DEF next_id
  <2> HIDE DEF last
  <2> QED
    BY <2>5, <2>6
<1> QED
  BY <1>1, <1>2

\* An entry is read back as it was.
LEMMA LoadedEntry ==
  ASSUME NEW b, NEW k, Wired(b, k, {}), NEW id \in DOMAIN b.entries
  PROVE  /\ loaded_entry(saved(k, b), id) = b.entries[id]
         /\ Cardinality(SlotsOf(b.tried_buckets, id)) <= 1
<1> DEFINE entry == b.entries[id]
           d == saved(k, b)
           tried == SlotsOf(b.tried_buckets, id)
<1>1. entry \in Entry
  BY DEF Wired, IsBook
<1>2. SlotsOf(b.new_buckets, id) = entry.new_refs
  BY DEF SlotsOf, Wired, NewTableMatches
<1>3. tried = IF entry.tried_ref = None THEN {} ELSE {entry.tried_ref}
  <2>1. \A s \in DOMAIN b.tried_buckets : s # None
    BY NoneAssumption DEF Wired, IsBook
  <2> QED
    BY <2>1 DEF SlotsOf, Wired, TriedTableMatches
<1>4. Cardinality(tried) <= 1
  <2>1. Cardinality({}) = 0 /\ Cardinality({entry.tried_ref}) = 1
    BY ZenonT(30), FS_EmptySet, FS_Singleton
  <2> QED
    BY <1>3, <2>1
<1>5. (IF tried = {} THEN None ELSE CHOOSE s \in tried : TRUE) = entry.tried_ref
  BY <1>3
<1>6. /\ d.new_buckets = b.new_buckets /\ d.tried_buckets = b.tried_buckets
      /\ d.services[id].endpoint = entry.endpoint /\ d.services[id].origin = entry.origin
      /\ d.services[id].time = entry.time /\ d.services[id].random_pos = entry.random_pos
  BY DEF saved
<1>7. loaded_entry(d, id) =
        [ endpoint |-> entry.endpoint, origin |-> entry.origin, time |-> entry.time,
          random_pos |-> entry.random_pos, new_refs |-> entry.new_refs,
          tried_ref |-> entry.tried_ref ]
  <2> HIDE DEF entry, d
  <2> QED
    BY Zenon, <1>2, <1>5, <1>6 DEF loaded_entry
<1>8. loaded_entry(d, id) = entry
  <2> HIDE DEF entry
  <2> QED
    BY <1>1, <1>7 DEF Entry
<1> QED
  BY <1>4, <1>8

\* A table of "tried" slots has as many slots as entries.
LEMMA TriedCount ==
  ASSUME NEW b, NEW k, NEW Loose, Wired(b, k, Loose)
  PROVE  Cardinality(DOMAIN b.tried_buckets) = Cardinality(TriedEntries(b))
<1> DEFINE f == [s \in DOMAIN b.tried_buckets |-> b.tried_buckets[s]]
<1>1. \A s \in DOMAIN b.tried_buckets : s # None
  BY NoneAssumption DEF Wired, IsBook
<1>2. f \in [DOMAIN b.tried_buckets -> TriedEntries(b)]
  BY <1>1 DEF TriedEntries, Wired, TriedTableMatches
<1>3. \A s \in DOMAIN b.tried_buckets, t \in DOMAIN b.tried_buckets : f[s] = f[t] => s = t
  BY DEF Wired, TriedTableMatches
<1>4. \A id \in TriedEntries(b) : \E s \in DOMAIN b.tried_buckets : f[s] = id
  BY DEF TriedEntries, Wired, TriedTableMatches
<1> HIDE DEF f
<1>5. f \in Injection(DOMAIN b.tried_buckets, TriedEntries(b))
  BY <1>2, <1>3 DEF Injection, IsInjective
<1>6. f \in Surjection(DOMAIN b.tried_buckets, TriedEntries(b))
  BY <1>2, <1>4 DEF Surjection
<1>7. IsFiniteSet(DOMAIN b.tried_buckets)
  BY FiniteAssumption, FS_Subset DEF Wired, IsBook
<1> QED
  BY <1>5, <1>6, <1>7, FS_Surjection

\* What save() stores of a wired book, load() turns into a wired book.
LEMMA LoadSavedEffect ==
  ASSUME NEW b, NEW k, Wired(b, k, {})
  PROVE  Wired(loaded(saved(k, b)), k, {})
<1> DEFINE d == saved(k, b)
           c == loaded(d)
           ids == DOMAIN b.entries
<1>1. /\ DOMAIN d.services = ids /\ d.ids = b.ids
      /\ d.new_buckets = b.new_buckets /\ d.tried_buckets = b.tried_buckets
  BY DEF saved
<1>2. \A id \in ids : loaded_entry(d, id) = b.entries[id]
  BY LoadedEntry
<1>3. HeldIds(b.new_buckets) = NewEntries(b)
  BY DEF HeldIds, NewEntries, Wired, NewTableMatches
<1>4. HeldIds(b.tried_buckets) \subseteq ids
  BY DEF HeldIds, Wired, TriedTableMatches
<1>5. next_id(ids) \in Nat /\ \A id \in ids : id < next_id(ids)
  BY NextIdEffect DEF Wired, IsBook, IdsMatch
<1>6. \A id \in ids : Cardinality(SlotsOf(b.tried_buckets, id)) <= 1
  BY LoadedEntry
<1> HIDE DEF d
<1>7. c = [ entries |-> [id \in ids |-> loaded_entry(d, id)],
            new_buckets |-> b.new_buckets, tried_buckets |-> b.tried_buckets, ids |-> b.ids,
            new_size |-> Cardinality(NewEntries(b)),
            tried_size |-> Cardinality(DOMAIN b.tried_buckets),
            last_id |-> next_id(ids), ok |-> TRUE ]
  <2>1. (/\ HeldIds(b.new_buckets) \cup HeldIds(b.tried_buckets) \subseteq ids
         /\ \A id \in ids : Cardinality(SlotsOf(b.tried_buckets, id)) <= 1) = TRUE
    BY <1>3, <1>4, <1>6 DEF NewEntries
  <2> QED
    BY Zenon, <1>1, <1>3, <2>1 DEF loaded
<1> HIDE DEF c
<1>8. /\ DOMAIN c.entries = ids /\ \A id \in ids : c.entries[id] = b.entries[id]
      /\ c.new_buckets = b.new_buckets /\ c.tried_buckets = b.tried_buckets /\ c.ids = b.ids
      /\ c.new_size = Cardinality(NewEntries(b)) /\ c.last_id = next_id(ids) /\ c.ok
      /\ c.tried_size = Cardinality(TriedEntries(b))
      /\ c.ok \in BOOLEAN
      /\ DOMAIN c = {"entries", "new_buckets", "tried_buckets", "ids",
                     "new_size", "tried_size", "last_id", "ok"}
  BY <1>2, <1>7, TriedCount
<1>9. TriedEntries(c) = TriedEntries(b) /\ NewEntries(c) = NewEntries(b)
  BY <1>8 DEF TriedEntries, NewEntries
<1>10. IsBook(c) /\ CountersMatch(c) /\ IsFiniteSet(DOMAIN c.entries)
  <2>1. c.new_size \in Nat /\ c.tried_size \in Nat
    BY <1>8 DEF Wired, CountersMatch, IsBook
  <2> QED
    BY <1>5, <1>8, <1>9, <2>1 DEF Wired, IsBook, CountersMatch
<1> HIDE DEF ids
<1>11. NewTableMatches(c) /\ TriedTableMatches(c)
  <2>1. NewTableMatches(b) /\ TriedTableMatches(b)
    BY DEF Wired
  <2>2. NewTableMatches(c)
    BY <1>8, <2>1 DEF NewTableMatches, ids
  <2>3. TriedTableMatches(c)
    BY <1>8, <2>1 DEF TriedTableMatches, ids
  <2> QED
    BY <2>2, <2>3
<1>12. OrderMatches(c) /\ IdsMatch(c)
  <2>1. OrderMatches(b) /\ IdsMatch(b)
    BY DEF Wired
  <2>2. OrderMatches(c)
    BY <1>8, <2>1 DEF OrderMatches, ids
  <2>3. IdsMatch(c)
    BY <1>5, <1>8, <2>1 DEF IdsMatch, ids
  <2> QED
    BY <2>2, <2>3
<1>13. ReferencesBounded(c) /\ PlacedBy(c, k)
  <2>1. ReferencesBounded(b) /\ PlacedBy(b, k)
    BY DEF Wired
  <2>2. ReferencesBounded(c)
    BY <1>8, <2>1 DEF ReferencesBounded, ids
  <2>3. PlacedBy(c, k)
    BY <1>8, <2>1 DEF PlacedBy, ids
  <2> QED
    BY <2>2, <2>3
<1>14. NotInBoth(c) /\ Covered(c, {})
  BY <1>8 DEF Wired, NotInBoth, Covered, ids
<1>15. Wired(c, k, {})
  BY ZenonT(30), <1>8, <1>10, <1>11, <1>12, <1>13, <1>14 DEF Wired
<1> QED
  BY <1>15 DEF c, d

\* A book without entries is wired.
LEMMA EmptyWired ==
  ASSUME NEW b, NEW k, IsBook(b), b.ok, DOMAIN b.entries = {}, b.ids = << >>,
         DOMAIN b.new_buckets = {}, DOMAIN b.tried_buckets = {},
         b.new_size = 0, b.tried_size = 0
  PROVE  Wired(b, k, {})
<1>1. NewEntries(b) = {} /\ TriedEntries(b) = {}
  BY DEF NewEntries, TriedEntries
<1>2. IsFiniteSet({}) /\ Cardinality({}) = 0
  BY FS_EmptySet
<1>3. CountersMatch(b) /\ IsFiniteSet(DOMAIN b.entries)
  BY <1>1, <1>2 DEF CountersMatch
<1>4. OrderMatches(b)
  BY DEF OrderMatches
<1> QED
  BY Zenon, <1>3, <1>4 DEF Wired, NewTableMatches, TriedTableMatches, IdsMatch,
     ReferencesBounded, PlacedBy, NotInBoth, Covered

\* The book a process begins with is wired for any key.
LEMMA EmptyBookWired ==
  ASSUME NEW k
  PROVE  Wired(EmptyBook, k, {}) /\ TriedEntries(EmptyBook) = {} /\ DOMAIN EmptyBook.entries = {}
<1>1. DOMAIN << >> = {} /\ << >> \in Seq(Nat)
  OBVIOUS
<1>2. IsBook(EmptyBook) /\ EmptyBook.ok
  BY <1>1 DEF IsBook, EmptyBook
<1>3. DOMAIN EmptyBook.entries = {} /\ EmptyBook.ids = << >>
      /\ DOMAIN EmptyBook.new_buckets = {} /\ DOMAIN EmptyBook.tried_buckets = {}
      /\ EmptyBook.new_size = 0 /\ EmptyBook.tried_size = 0
  BY <1>1 DEF EmptyBook
<1> QED
  BY <1>2, <1>3, EmptyWired DEF TriedEntries

\* A database without services is loaded as a wired book.
LEMMA LoadEmptyEffect ==
  ASSUME NEW d, NEW k, d.services = << >>, d.ids = << >>,
         d.new_buckets = << >>, d.tried_buckets = << >>
  PROVE  Wired(loaded(d), k, {})
<1> DEFINE c == loaded(d)
<1>1. DOMAIN << >> = {} /\ << >> \in Seq(Nat)
  OBVIOUS
<1>2. HeldIds(<< >>) = {} /\ Cardinality({}) = 0
  BY <1>1, FS_EmptySet DEF HeldIds
<1>3. next_id({}) = 2
  BY DEF next_id
<1>4. c = [ entries |-> [id \in {} |-> loaded_entry(d, id)],
            new_buckets |-> << >>, tried_buckets |-> << >>, ids |-> << >>,
            new_size |-> 0, tried_size |-> 0, last_id |-> 2, ok |-> TRUE ]
  <2>1. (/\ HeldIds(<< >>) \cup HeldIds(<< >>) \subseteq {}
         /\ \A id \in {} : Cardinality(SlotsOf(<< >>, id)) <= 1) = TRUE
    BY <1>2
  <2> QED
    BY Zenon, <1>1, <1>2, <1>3, <2>1 DEF loaded
<1> HIDE DEF c
<1>5. /\ DOMAIN c.entries = {} /\ c.ids = << >> /\ c.ok
      /\ DOMAIN c.new_buckets = {} /\ DOMAIN c.tried_buckets = {}
      /\ c.new_size = 0 /\ c.tried_size = 0 /\ c.last_id = 2 /\ c.ok \in BOOLEAN
      /\ DOMAIN c = {"entries", "new_buckets", "tried_buckets", "ids",
                     "new_size", "tried_size", "last_id", "ok"}
  BY <1>1, <1>4
<1>6. IsBook(c)
  BY <1>1, <1>5 DEF IsBook
<1> QED
  BY <1>5, <1>6, EmptyWired DEF c

\* Shuffling keeps the wiring.
LEMMA SwapWired ==
  ASSUME NEW b, NEW k, Wired(b, k, {}), NEW i \in 1..Len(b.ids), NEW j \in 1..Len(b.ids)
  PROVE  LET c == swap_randomly_ordered_ids(b, i, j)
         IN  Wired(c, k, {}) /\ DOMAIN c.entries = DOMAIN b.entries /\ Len(c.ids) = Len(b.ids)
<1> DEFINE c == swap_randomly_ordered_ids(b, i, j)
<1>1. /\ IsBook(c) /\ OrderMatches(c)
      /\ c.new_buckets = b.new_buckets /\ c.tried_buckets = b.tried_buckets
      /\ c.new_size = b.new_size /\ c.tried_size = b.tried_size
      /\ c.last_id = b.last_id /\ c.ok = b.ok
      /\ DOMAIN c.entries = DOMAIN b.entries
      /\ \A id \in DOMAIN b.entries : SameEntry(c.entries[id], b.entries[id])
      /\ Len(c.ids) = Len(b.ids)
  <2>1. IsBook(b) /\ OrderMatches(b)
    BY DEF Wired
  <2> QED
    BY <2>1, SwapEffect
<1> HIDE DEF c
<1>2. CountersMatch(c)
  <2>1. TriedEntries(c) = TriedEntries(b) /\ NewEntries(c) = NewEntries(b)
    BY <1>1 DEF TriedEntries, NewEntries, SameEntry
  <2> QED
    BY <1>1, <2>1 DEF Wired, CountersMatch
<1>3. NewTableMatches(c) /\ TriedTableMatches(c)
  <2>1. NewTableMatches(b) /\ TriedTableMatches(b)
    BY DEF Wired
  <2>2. \A x \in DOMAIN b.entries : c.entries[x].new_refs = b.entries[x].new_refs
                                  /\ c.entries[x].tried_ref = b.entries[x].tried_ref
    BY <1>1 DEF SameEntry
  <2>3. NewTableMatches(c)
    BY <1>1, <2>1, <2>2 DEF NewTableMatches
  <2>4. TriedTableMatches(c)
    BY <1>1, <2>1, <2>2 DEF TriedTableMatches
  <2> QED
    BY <2>3, <2>4
<1>4. IdsMatch(c) /\ ReferencesBounded(c)
  <2>1. IdsMatch(b) /\ ReferencesBounded(b)
    BY DEF Wired
  <2>2. \A x \in DOMAIN b.entries : c.entries[x].new_refs = b.entries[x].new_refs
                                  /\ c.entries[x].endpoint = b.entries[x].endpoint
    BY <1>1 DEF SameEntry
  <2>3. IdsMatch(c)
    BY <1>1, <2>1, <2>2 DEF IdsMatch
  <2>4. ReferencesBounded(c)
    BY <1>1, <2>1, <2>2 DEF ReferencesBounded
  <2> QED
    BY <2>3, <2>4
<1>5. PlacedBy(c, k) /\ NotInBoth(c) /\ Covered(c, {})
  <2>1. PlacedBy(b, k) /\ NotInBoth(b) /\ Covered(b, {})
    BY DEF Wired
  <2>2. \A x \in DOMAIN b.entries : /\ c.entries[x].new_refs = b.entries[x].new_refs
                                  /\ c.entries[x].endpoint = b.entries[x].endpoint
                                  /\ c.entries[x].tried_ref = b.entries[x].tried_ref
    BY <1>1 DEF SameEntry
  <2>3. PlacedBy(c, k)
    BY <1>1, <2>1, <2>2 DEF PlacedBy
  <2>4. NotInBoth(c)
    BY <1>1, <2>1, <2>2 DEF NotInBoth
  <2>5. Covered(c, {})
    BY <1>1, <2>1, <2>2 DEF Covered
  <2> QED
    BY <2>3, <2>4, <2>5
<1>6. Wired(c, k, {})
  BY <1>1, <1>2, <1>3, <1>4, <1>5 DEF Wired
<1> QED
  BY <1>1, <1>6 DEF c

-----------------------------------------------------------------------------
(* The specification.                                                      *)

\* The inductive invariant: the book in memory is wired for the key in use,
\* what is on disk is loaded as a wired book for the key it is stored with,
\* a stopped process has an empty book, and the locals of a method in
\* progress are what its next step needs.
IInv ==
  /\ TypeOK
  /\ Wired(book, key, {})
  /\ \A k \in Keys : disk.seed \in {None, k} => Wired(loaded(disk), k, {})
  /\ ~running => book = EmptyBook /\ holder = "nobody"
  /\ holder = "insert" => source \in Addresses
  /\ holder = "services" => cursor >= 1

\* The program that has not started yet satisfies the invariant.
LEMMA InitIInv == Init => IInv
<1> SUFFICES ASSUME Init PROVE IInv
  OBVIOUS
<1> USE DEF Init
<1>1. Wired(book, key, {})
  BY EmptyBookWired
<1>2. TypeOK
  BY ZenonT(30), <1>1 DEF TypeOK, Wired, EmptyDisk, NoOperation
<1>3. \A k \in Keys : Wired(loaded(disk), k, {})
  <2>1. /\ disk.services = << >> /\ disk.ids = << >>
        /\ disk.new_buckets = << >> /\ disk.tried_buckets = << >>
    BY DEF EmptyDisk
  <2> QED
    BY <2>1, LoadEmptyEffect
<1> QED
  BY <1>1, <1>2, <1>3 DEF IInv, NoOperation

\* What a step may take away from the book.
Step == running' => Loses(book, book')

\* The steps that leave the database alone, with the process up.
LEMMA MemoryStep ==
  ASSUME IInv, key' = key, disk' = disk, running' = running,
         Wired(book', key, {}),
         holder' \in {"nobody", "insert", "services", "save"},
         source' \in Addresses \cup {None}, selected' \subseteq Endpoints, cursor' \in Nat,
         running, holder' = "insert" => source' \in Addresses,
         holder' = "services" => cursor' >= 1
  PROVE  IInv'
<1>1. TypeOK'
  BY Zenon DEF IInv, TypeOK, Wired
<1>2. Wired(book, key, {})'
  OBVIOUS
<1>3. (\A k \in Keys : disk.seed \in {None, k} => Wired(loaded(disk), k, {}))'
  BY DEF IInv
<1> QED
  BY <1>1, <1>2, <1>3 DEF IInv

\* A step that keeps all entries loses none.
LEMMA SameLoses ==
  ASSUME NEW b, NEW c, DOMAIN b.entries \subseteq DOMAIN c.entries
  PROVE  Loses(b, c)
BY DEF Loses, TriedEntries

\* Every step keeps the invariant, and takes at most one entry that is not
\* "tried" away.
LEMMA NextIInv == IInv /\ [Next]_vars => IInv' /\ Step
<1> SUFFICES ASSUME IInv, [Next]_vars PROVE IInv' /\ Step
  OBVIOUS
<1>1. /\ TypeOK /\ Wired(book, key, {}) /\ key \in Keys
      /\ (~running => holder = "nobody")
      /\ holder \in {"nobody", "insert", "services", "save"}
      /\ source \in Addresses \cup {None} /\ selected \subseteq Endpoints /\ cursor \in Nat
      /\ (holder = "insert" => source \in Addresses)
      /\ (holder = "services" => cursor >= 1)
  BY DEF IInv, TypeOK
<1>2. ASSUME NEW e \in Endpoints, NEW src \in Addresses, NEW t \in Int, Advertise(e, src, t)
      PROVE  Wired(book', key, {}) /\ Loses(book, book')
  <2>1. PICK now \in Clocks, lucky \in BOOLEAN :
          book' = insert_or_update_impl(book, key, e, src, t, TimePenalty, now, lucky)
    BY <1>2 DEF Advertise
  <2>2. now \in Int
    BY TimeAssumption
  <2> QED
    BY <1>1, <2>1, <2>2, AdvertiseEffect
<1>3. ASSUME NEW e \in Endpoints, NEW src \in Addresses, NEW t \in Times,
             InsertOrUpdate(e, src, t)
      PROVE  IInv' /\ Step
  <2>1. t \in Int
    BY TimeAssumption
  <2>2. Wired(book', key, {}) /\ Loses(book, book')
    BY <1>2, <1>3, <2>1 DEF InsertOrUpdate
  <2> QED
    BY <1>1, <1>3, <2>2, MemoryStep DEF InsertOrUpdate, Unlocked, Step
<1>4. ASSUME NEW src \in Addresses, InsertBegin(src) PROVE IInv' /\ Step
  <2>1. Wired(book', key, {}) /\ Loses(book, book')
    BY <1>1, <1>4, SameLoses DEF InsertBegin
  <2> QED
    BY <1>1, <1>4, <2>1, MemoryStep DEF InsertBegin, Unlocked, Step
<1>5. ASSUME NEW e \in Endpoints, NEW t \in Times, InsertNext(e, t) PROVE IInv' /\ Step
  <2>1. PICK now \in Clocks : Advertise(e, source, adjusted_time(t, now))
    BY <1>5 DEF InsertNext
  <2>2. adjusted_time(t, now) \in Int /\ source \in Addresses
    BY <1>1, <1>5, TimeAssumption DEF adjusted_time, InsertNext
  <2>3. Wired(book', key, {}) /\ Loses(book, book')
    BY <1>2, <2>1, <2>2
  <2>4. running
    BY <1>1, <1>5 DEF InsertNext
  <2>5. selected' \subseteq Endpoints
    BY <1>1, <1>5 DEF InsertNext
  <2> QED
    BY <1>1, <1>5, <2>3, <2>4, <2>5, MemoryStep DEF InsertNext, Step
<1>6. ASSUME InsertEnd PROVE IInv' /\ Step
  <2>1. Wired(book', key, {}) /\ Loses(book, book') /\ running
    BY <1>1, <1>6, SameLoses DEF InsertEnd
  <2> QED
    BY <1>1, <1>6, <2>1, MemoryStep DEF InsertEnd, Release, Step
<1>7. ASSUME NEW e \in Endpoints, NEW now \in Clocks, SetGood(e, now) PROVE IInv' /\ Step
  <2>1. PICK id \in lookup_entry(book, e) :
          book' = make_entry_tried([book EXCEPT !.entries[id].time = now], key, id)
    BY ZenonT(30), <1>7 DEF SetGood
  <2> DEFINE b == [book EXCEPT !.entries[id].time = now]
  <2>2. id \in DOMAIN book.entries /\ now \in Int
    BY TimeAssumption DEF lookup_entry
  <2>3. /\ Wired(b, key, {}) /\ DOMAIN b.entries = DOMAIN book.entries
        /\ \A x \in DOMAIN book.entries : b.entries[x].tried_ref = book.entries[x].tried_ref
    BY <1>1, <2>2, TimeEffect
  <2> HIDE DEF b
  <2>4. book' = make_entry_tried(b, key, id)
    BY <2>1 DEF b
  <2>5. Wired(book', key, {}) /\ Loses(b, book')
    BY <1>1, <2>2, <2>3, <2>4, PromoteEffect
  <2>6. Loses(book, book')
    BY <2>3, <2>5 DEF Loses, TriedEntries
  <2> QED
    BY <1>1, <1>7, <2>5, <2>6, MemoryStep DEF SetGood, Unlocked, Step
<1>8. ASSUME NEW e \in Endpoints, SetAttempted(e) PROVE IInv' /\ Step
  <2>1. PICK id \in lookup_entry(book, e) : book' = make_entry_tried(book, key, id)
    BY <1>8 DEF SetAttempted
  <2>2. Wired(book', key, {}) /\ Loses(book, book')
    BY <1>1, <2>1, PromoteEffect DEF lookup_entry
  <2> QED
    BY <1>1, <1>8, <2>2, MemoryStep DEF SetAttempted, Unlocked, Step
<1>9. ASSUME ServicesBegin PROVE IInv' /\ Step
  <2>1. Wired(book', key, {}) /\ Loses(book, book')
    BY <1>1, <1>9, SameLoses DEF ServicesBegin
  <2> QED
    BY <1>1, <1>9, <2>1, MemoryStep DEF ServicesBegin, Unlocked, Step
<1>10. ASSUME NEW j \in 1..Len(book.ids), NEW usable \in BOOLEAN, ServicesNext(j, usable)
       PROVE  IInv' /\ Step
  <2> DEFINE b == swap_randomly_ordered_ids(book, cursor, j)
  <2>1. cursor \in 1..Len(book.ids) /\ running
    <3>1. holder = "services" /\ cursor <= Len(book.ids)
      BY Zenon, <1>10 DEF ServicesNext, ServicesWanted
    <3>2. IsBook(book)
      BY Zenon, <1>1 DEF Wired
    <3>3. Len(book.ids) \in Nat
      BY <3>2 DEF IsBook
    <3> QED
      BY <1>1, <3>1, <3>3
  <2>2. /\ Wired(b, key, {}) /\ DOMAIN b.entries = DOMAIN book.entries
        /\ Len(b.ids) = Len(book.ids)
    BY <1>1, <2>1, SwapWired
  <2>3. book' = (IF b.ids[cursor] \in DOMAIN b.entries THEN b ELSE Abort(b))
        /\ (selected' = selected
            \/ selected' = selected \cup {b.entries[b.ids[cursor]].endpoint})
    BY <1>10 DEF ServicesNext
  <2> HIDE DEF b
  <2>4. b.ids[cursor] \in DOMAIN b.entries /\ b.entries[b.ids[cursor]] \in Entry
    BY ZenonT(30), <2>1, <2>2 DEF Wired, OrderMatches, IsBook
  <2>5. book' = b /\ selected' \subseteq Endpoints
    BY <1>1, <2>3, <2>4 DEF Entry
  <2>6. Wired(book', key, {}) /\ Loses(book, book')
    BY <2>2, <2>5, SameLoses
  <2>7. cursor' \in Nat /\ cursor' >= 1
    <3>1. holder = "services" /\ cursor' = cursor + 1
      BY Zenon, <1>10 DEF ServicesNext
    <3> QED
      BY <1>1, <3>1
  <2> QED
    BY ZenonT(30), <1>1, <1>10, <2>1, <2>5, <2>6, <2>7, MemoryStep DEF ServicesNext, Step
<1>11. ASSUME ServicesEnd PROVE IInv' /\ Step
  <2>1. Wired(book', key, {}) /\ Loses(book, book') /\ running
    BY <1>1, <1>11, SameLoses DEF ServicesEnd
  <2> QED
    BY <1>1, <1>11, <2>1, MemoryStep DEF ServicesEnd, Release, Step
<1>12. ASSUME Load PROVE IInv' /\ Step
  <2>1. PICK k \in Keys : key' = IF disk.seed = None THEN k ELSE disk.seed
    BY <1>12 DEF Load
  <2>2. key' \in Keys /\ disk.seed \in {None, key'}
    BY <1>1, <2>1 DEF TypeOK
  <2>3. Wired(book, key, {})'
    BY <1>12, <2>2 DEF Load, IInv
  <2>4. Loses(book, book')
    BY <1>12, EmptyBookWired, SameLoses DEF Load, IInv
  <2>5. TypeOK'
    BY Zenon, <1>12, <2>2, <2>3 DEF Load, IInv, TypeOK, Wired
  <2>6. (\A k2 \in Keys : disk.seed \in {None, k2} => Wired(loaded(disk), k2, {}))'
    BY <1>12 DEF Load, IInv
  <2> QED
    BY <1>12, <2>3, <2>4, <2>5, <2>6 DEF Load, IInv, Step
<1>13. ASSUME Crash PROVE IInv' /\ Step
  <2>1. Wired(book, key, {})'
    BY <1>13, EmptyBookWired DEF Crash
  <2>2. TypeOK'
    BY Zenon, <1>13, <2>1 DEF Crash, Release, IInv, TypeOK, Wired
  <2>3. (\A k \in Keys : disk.seed \in {None, k} => Wired(loaded(disk), k, {}))'
    BY <1>13 DEF Crash, IInv
  <2> QED
    BY <1>13, <2>1, <2>2, <2>3 DEF Crash, Release, IInv, Step
<1>14. ASSUME SaveBegin PROVE IInv' /\ Step
  <2>1. disk'.seed = key /\ disk'.services = << >> /\ disk'.ids = << >>
        /\ disk'.new_buckets = << >> /\ disk'.tried_buckets = << >>
    BY <1>14 DEF SaveBegin, cleared, EmptyDisk
  <2>2. (\A k \in Keys : disk.seed \in {None, k} => Wired(loaded(disk), k, {}))'
    BY <2>1, LoadEmptyEffect
  <2>3. TypeOK'
    BY <1>1, <1>14, <2>1 DEF SaveBegin, TypeOK
  <2>4. Loses(book, book')
    BY <1>14, SameLoses DEF SaveBegin
  <2> QED
    BY <1>1, <1>14, <2>2, <2>3, <2>4 DEF SaveBegin, Unlocked, IInv, Step
<1>15. ASSUME SaveCommit PROVE IInv' /\ Step
  <2>1. disk' = saved(key, book) /\ disk'.seed = key
    BY <1>15 DEF SaveCommit, saved
  <2>2. (\A k \in Keys : disk.seed \in {None, k} => Wired(loaded(disk), k, {}))'
    BY <1>1, <2>1, LoadSavedEffect, NoneAssumption
  <2>3. TypeOK'
    BY <1>1, <1>15, <2>1 DEF SaveCommit, Release, TypeOK
  <2>4. Loses(book, book')
    BY <1>15, SameLoses DEF SaveCommit
  <2> QED
    BY <1>1, <1>15, <2>2, <2>3, <2>4 DEF SaveCommit, Release, IInv, Step
<1>16. ASSUME SaveThrow PROVE IInv' /\ Step
  <2>1. Wired(book', key, {}) /\ Loses(book, book') /\ running
    BY <1>1, <1>16, SameLoses DEF SaveThrow
  <2> QED
    BY <1>1, <1>16, <2>1, MemoryStep DEF SaveThrow, Release, Step
<1>17. ASSUME UNCHANGED vars PROVE IInv' /\ Step
  <2>1. Wired(book', key', {}) /\ Loses(book, book')
    BY <1>1, <1>17, SameLoses DEF vars
  <2>2. TypeOK'
    BY <1>1, <1>17 DEF vars, TypeOK
  <2> QED
    BY <1>1, <1>17, <2>1, <2>2 DEF vars, IInv, Step
<1> QED
  BY <1>3, <1>4, <1>5, <1>6, <1>7, <1>8, <1>9, <1>10, <1>11, <1>12, <1>13, <1>14,
     <1>15, <1>16, <1>17 DEF Next, BookNext

-----------------------------------------------------------------------------
(* Theorems.                                                               *)

\* The inductive invariant holds in every reachable state, restarts included.
LEMMA Invariance == Spec => []IInv
BY InitIInv, NextIInv, PTL DEF Spec

\* The fields of the book keep their types; the counters new_size_ and
\* tried_size_ are never decremented below zero.
THEOREM TypeCorrect == Spec => []TypeOK
<1>1. IInv => TypeOK
  BY DEF IInv
<1> QED
  BY <1>1, Invariance, PTL

\* No ASSERT of addressbook.cpp ever aborts the process, in any sequence of
\* insertions, promotions, shuffles, saves, crashes and restarts.
THEOREM NeverAborts == Spec => []NoAssertFails
<1>1. IInv => NoAssertFails
  BY DEF IInv, Wired, NoAssertFails
<1> QED
  BY <1>1, Invariance, PTL

\* Both tables, the randomly ordered ids, the counters and the references
\* kept in the entries agree in every state.
THEOREM BookStaysConsistent == Spec => []BookConsistent
<1>1. IInv => BookConsistent
  BY WiredIsConsistent DEF IInv, BookConsistent
<1> QED
  BY <1>1, Invariance, PTL

\* Entries sit where the key in use hashes them, across restarts.
THEOREM BookStaysPlaced == Spec => []PlacedByKey
<1>1. IInv => PlacedByKey
  BY DEF IInv, Wired, PlacedByKey
<1> QED
  BY <1>1, Invariance, PTL

\* Whenever the process dies, the database holds what load() accepts.
THEOREM DiskStaysLoadable == Spec => []DiskLoadable
<1>1. IInv => DiskLoadable
  <2> SUFFICES ASSUME IInv PROVE DiskLoadable
    OBVIOUS
  <2>1. PICK k \in Keys : disk.seed \in {None, k}
    BY DEF IInv, TypeOK
  <2>2. Wired(loaded(disk), k, {})
    BY <2>1 DEF IInv
  <2>3. disk.seed # None => disk.seed = k
    BY <2>1
  <2> QED
    BY <2>2, <2>3, WiredIsConsistent DEF DiskLoadable
<1> QED
  BY <1>1, Invariance, PTL

\* An entry in the "tried" table is not erased while the process is up.
THEOREM TriedStays == Spec => TriedNotErased
<1>1. IInv /\ [Next]_vars => [running' => TriedEntries(book) \subseteq DOMAIN book'.entries]_vars
  BY NextIInv DEF Step, Loses
<1> QED
  BY <1>1, Invariance, PTL DEF Spec, TriedNotErased

\* No call erases two entries.
THEOREM OneErasedAtMost == Spec => ErasesAtMostOne
<1>1. IInv /\ [Next]_vars =>
        [running' => Cardinality(DOMAIN book.entries \ DOMAIN book'.entries) <= 1]_vars
  <2> SUFFICES ASSUME IInv, [Next]_vars, running'
               PROVE  Cardinality(DOMAIN book.entries \ DOMAIN book'.entries) <= 1
    OBVIOUS
  <2> DEFINE lost == DOMAIN book.entries \ DOMAIN book'.entries
  <2>1. PICK x : lost \subseteq {x}
    BY NextIInv DEF Step, Loses
  <2>2. IsFiniteSet({x}) /\ Cardinality({x}) = 1
    BY Zenon, FS_Singleton
  <2> HIDE DEF lost
  <2>3. Cardinality(lost) <= Cardinality({x})
    BY <2>1, <2>2, FS_Subset
  <2> QED
    BY <2>2, <2>3 DEF lost
<1> QED
  BY <1>1, Invariance, PTL DEF Spec, ErasesAtMostOne
==============================================================================
