----------------------------- MODULE AddressBook -----------------------------
(***************************************************************************)
(* The address book of a node: znode::net::AddressBook                     *)
(* (infra/network/addressbook.hpp, addressbook.cpp).                       *)
(*                                                                         *)
(* The book keeps every known peer in exactly one of two tables of hashed  *)
(* slots.  A "new" entry may be referenced from up to kMaxNewBucketRefer-  *)
(* ences slots, a "tried" entry sits in one slot of its own.  Beside the   *)
(* tables it keeps a randomly ordered vector of the ids, two counters, and *)
(* in every entry the back references to all of them.  Every private       *)
(* method guards this redundancy with ASSERT, which aborts the process in  *)
(* every build; here an aborted book has ok = FALSE and stays as it is.    *)
(*                                                                         *)
(* The private methods are operators from books to books, so that a public *)
(* method, which runs them one after the other under the write lock, is    *)
(* one action.  Three methods hold the lock over a loop or over two        *)
(* database transactions; they take several steps, with `holder' naming    *)
(* the method that owns the mutex.                                         *)
(*                                                                         *)
(* Data abstracted: addresses and endpoints are model values, the keyed    *)
(* hash of get_new_slot and get_tried_slot is an arbitrary function of the *)
(* key and of its arguments, time is counted in hours, and the connection  *)
(* statistics and service bits (read only by is_bad and get_chance) are    *)
(* left out.  Positions in the vector are counted from 1.                  *)
(***************************************************************************)
EXTENDS Integers, FiniteSets, Sequences

CONSTANTS
  Endpoints,      \* endpoints of peers (address and port)
  Addresses,      \* addresses of peers, the sources of advertisements
  AddressOf,      \* the address part of each endpoint
  Keys,           \* the values of key_, the secret the slots are hashed with
  NewSlots,       \* coordinates in the "new" buckets
  TriedSlots,     \* coordinates in the "tried" buckets
  NewHash,        \* the hash that get_new_slot computes
  TriedHash,      \* the hash that get_tried_slot computes
  kMaxNewBucketReferences,
  kTimeInit,      \* NodeService::kTimeInit, the earliest legal time
  Times,          \* times that advertisements carry
  Clocks,         \* readings of the clock
  TimePenalty,    \* what the hub subtracts from times told by others
  MaxCount,       \* arguments of get_random_services; 0 is no limit
  MaxPercentage,
  MaxId,          \* bound: ids given out in one behaviour
  MaxServices,    \* bound: services in one vector insertion
  None            \* no tried slot, no persisted key

ASSUME HashAssumption ==
  /\ AddressOf \in [Endpoints -> Addresses]
  /\ NewHash \in [Keys \X Endpoints \X Addresses -> NewSlots]
  /\ TriedHash \in [Keys \X Endpoints -> TriedSlots]
ASSUME NoneAssumption == None \notin TriedSlots /\ None \notin Keys
ASSUME FiniteAssumption == IsFiniteSet(NewSlots) /\ IsFiniteSet(TriedSlots)
ASSUME TimeAssumption ==
  /\ kTimeInit \in Int /\ TimePenalty \in Nat
  /\ Times \subseteq Int /\ Clocks \subseteq Int
ASSUME BoundAssumption ==
  /\ kMaxNewBucketReferences \in Nat \ {0}
  /\ MaxCount \in Nat /\ MaxPercentage \in Nat
  /\ MaxId \in Nat /\ MaxServices \in Nat

VARIABLES
  book,       \* the in-memory state of the process, guarded by mutex_
  key,        \* key_
  disk,       \* the committed content of the node data database
  running,    \* whether the process is up
  holder,     \* the multi-step method that holds mutex_, or "nobody"
  source,     \* its argument, for a vector insertion
  selected,   \* its local set of endpoints already met
  cursor      \* its loop index

vars == <<book, key, disk, running, holder, source, selected, cursor>>

-----------------------------------------------------------------------------
(* Books.                                                                  *)

\* A freshly constructed book.
EmptyBook ==
  [ entries |-> << >>, new_buckets |-> << >>, tried_buckets |-> << >>,
    ids |-> << >>, new_size |-> 0, tried_size |-> 0, last_id |-> 1, ok |-> TRUE ]

\* A map with one more, or one less, key.
Put(f, x, v) == [y \in DOMAIN f \cup {x} |-> IF y = x THEN v ELSE f[y]]
Drop(f, x) == [y \in DOMAIN f \ {x} |-> f[y]]

\* A failed ASSERT.
Abort(b) == [b EXCEPT !.ok = FALSE]

get_new_slot(k, e, src) == NewHash[<<k, e, src>>]
get_tried_slot(k, e) == TriedHash[<<k, e>>]

\* lookup_entry by endpoint: the ids bound to an endpoint.
lookup_entry(b, e) == {id \in DOMAIN b.entries : b.entries[id].endpoint = e}

\* Bug: the entries keep their old position.
swap_ids_only(b, i, j) ==
  IF i \in 1..Len(b.ids) /\ j \in 1..Len(b.ids)
  THEN [b EXCEPT !.ids = [@ EXCEPT ![i] = b.ids[j], ![j] = b.ids[i]]]
  ELSE Abort(b)

swap_randomly_ordered_ids(b, i, j) ==
  IF i = j THEN b
  ELSE IF /\ i \in 1..Len(b.ids) /\ j \in 1..Len(b.ids)
          /\ b.ids[i] \in DOMAIN b.entries /\ b.ids[j] \in DOMAIN b.entries
       THEN [b EXCEPT !.entries = [@ EXCEPT ![b.ids[i]].random_pos = j,
                                            ![b.ids[j]].random_pos = i],
                      !.ids = [@ EXCEPT ![i] = b.ids[j], ![j] = b.ids[i]]]
       ELSE Abort(b)

erase_new_entry(b, id) ==
  LET entry == b.entries[id]
      c == swap_randomly_ordered_ids(b, entry.random_pos, Len(b.ids))
  IN  IF /\ id \in DOMAIN b.entries
         /\ entry.new_refs = {} /\ entry.tried_ref = None
         /\ c.ok /\ c.ids # << >> /\ c.ids[Len(c.ids)] = id
      THEN [c EXCEPT !.ids = SubSeq(@, 1, Len(@) - 1),
                     !.new_size = @ - 1,
                     !.entries = Drop(@, id)]
      ELSE Abort(b)

\* clear_new_slot: the entry loses its reference, and is erased with the last.
release_reference(b, id, slot) ==
  LET c == [b EXCEPT !.entries[id].new_refs = @ \ {slot}]
  IN  IF c.entries[id].new_refs = {} /\ c.entries[id].tried_ref = None
      THEN erase_new_entry(c, id) ELSE c

clear_new_slot(b, slot) ==
  IF ~b.ok \/ slot \notin DOMAIN b.new_buckets THEN b
  ELSE LET id == b.new_buckets[slot]
           c == release_reference(b, id, slot)
       IN  IF id \in DOMAIN b.entries /\ slot \in b.entries[id].new_refs
           THEN [c EXCEPT !.new_buckets = Drop(@, slot)]
           ELSE Abort(b)

\* new_refs_.emplace and new_buckets_.emplace, both of which must insert.
reference_in_new_slot(b, id, slot) ==
  IF /\ b.ok
     /\ id \in DOMAIN b.entries /\ slot \notin b.entries[id].new_refs
     /\ slot \notin DOMAIN b.new_buckets
  THEN [b EXCEPT !.entries[id].new_refs = @ \cup {slot},
                 !.new_buckets = Put(@, slot, id)]
  ELSE Abort(b)

-----------------------------------------------------------------------------
(* Insertion and update of an advertised service.                          *)

Later(s, t) == IF s < t THEN t ELSE s

insert_entry(b, k, e, src, time) ==
  LET id == b.last_id
      slot == get_new_slot(k, e, src)
      c == clear_new_slot(b, slot)
      entry == [ endpoint |-> e, origin |-> src, time |-> time,
                 new_refs |-> {slot}, tried_ref |-> None,
                 random_pos |-> Len(c.ids) + 1 ]
  IN  IF c.ok /\ slot \notin DOMAIN c.new_buckets
      THEN [c EXCEPT !.last_id = @ + 1,
                     !.entries = Put(@, id, entry),
                     !.new_buckets = Put(@, slot, id),
                     !.ids = Append(@, id),
                     !.new_size = @ + 1]
      ELSE Abort(c)

\* The time of an entry after an advertisement of time t.
updated_time(time, t, now, penalty) ==
  LET update_interval == IF now - t < 24 THEN 1 ELSE 24
  IN  IF time < t - update_interval - penalty THEN Later(kTimeInit, t - penalty) ELSE time

\* The early returns of update_entry: no further reference is added.
keeps_references(entry, t) ==
  \/ entry.time < t
  \/ entry.tried_ref # None
  \/ Cardinality(entry.new_refs) = kMaxNewBucketReferences

\* lucky: the outcome of the stochastic test, 1 in 2^references.
update_entry(b, k, id, src, t, penalty, now, lucky) ==
  LET c == [b EXCEPT !.entries[id].time = updated_time(@, t, now, penalty)]
      entry == c.entries[id]
      slot == get_new_slot(k, entry.endpoint, src)
      d == reference_in_new_slot(clear_new_slot(c, slot), id, slot)
  IN  IF (entry.new_refs # {}) = (entry.tried_ref # None) THEN Abort(c)
      ELSE IF keeps_references(entry, t) \/ ~lucky THEN c
      ELSE IF slot \in entry.new_refs
           THEN IF slot \in DOMAIN c.new_buckets THEN c ELSE Abort(c)
      ELSE IF entry.new_refs = {} THEN [d EXCEPT !.new_size = @ + 1] ELSE d

insert_or_update_impl(b, k, e, src, t, time_penalty, now, lucky) ==
  LET penalty == IF src = AddressOf[e] THEN 0 ELSE time_penalty
  IN  IF lookup_entry(b, e) # {}
      THEN update_entry(b, k, CHOOSE id \in lookup_entry(b, e) : TRUE,
                        src, t, penalty, now, lucky)
      ELSE insert_entry(b, k, e, src, Later(kTimeInit, t - penalty))

-----------------------------------------------------------------------------
(* Promotion of an entry to the "tried" table.                             *)

\* Bug: the slots keep pointing to the entry.
leave_new_buckets_dangling(b, id) ==
  [b EXCEPT !.new_size = @ - (IF b.entries[id].new_refs = {} THEN 0 ELSE 1),
            !.entries[id].new_refs = {}]

\* make_entry_tried, first half: the entry leaves every "new" slot.
leave_new_buckets(b, id) ==
  LET refs == b.entries[id].new_refs
  IN  [b EXCEPT !.new_size = @ - (IF refs = {} THEN 0 ELSE 1),
                !.new_buckets = [s \in DOMAIN b.new_buckets \ refs |-> b.new_buckets[s]],
                !.entries[id].new_refs = {}]

\* make_entry_tried, when the tried slot is taken: its holder leaves it ...
leave_tried_slot(b, tried_slot) ==
  [b EXCEPT !.entries[b.tried_buckets[tried_slot]].tried_ref = None,
            !.tried_buckets = Drop(@, tried_slot),
            !.tried_size = @ - 1]

\* Bug: the evicted entry is erased as well as the one in its way.
evict_tried_erasing(b, k, tried_slot) ==
  LET id == b.tried_buckets[tried_slot]
      slot == get_new_slot(k, b.entries[id].endpoint, b.entries[id].origin)
      c == clear_new_slot(leave_tried_slot(b, tried_slot), slot)
  IN  erase_new_entry([c EXCEPT !.new_size = @ + 1], id)

\* Bug: the evicted entry is not counted as new again.
evict_tried_uncounted(b, k, tried_slot) ==
  LET id == b.tried_buckets[tried_slot]
      slot == get_new_slot(k, b.entries[id].endpoint, b.entries[id].origin)
  IN  reference_in_new_slot(clear_new_slot(leave_tried_slot(b, tried_slot), slot), id, slot)

\* ... and goes back to a "new" slot, from which whatever was there is cleared.
evict_tried(b, k, tried_slot) ==
  LET id == b.tried_buckets[tried_slot]
      evicted == b.entries[id]
      slot == get_new_slot(k, evicted.endpoint, evicted.origin)
      d == reference_in_new_slot(clear_new_slot(leave_tried_slot(b, tried_slot), slot), id, slot)
  IN  IF id \in DOMAIN b.entries /\ evicted.tried_ref = tried_slot /\ evicted.new_refs = {}
      THEN [d EXCEPT !.new_size = @ + 1]
      ELSE Abort(b)

\* make_entry_tried, last lines.
enter_tried_slot(b, id, tried_slot) ==
  IF b.ok /\ tried_slot \notin DOMAIN b.tried_buckets
  THEN [b EXCEPT !.tried_buckets = Put(@, tried_slot, id),
                 !.entries[id].tried_ref = tried_slot,
                 !.tried_size = @ + 1]
  ELSE Abort(b)

make_entry_tried(b, k, id) ==
  LET tried_slot == get_tried_slot(k, b.entries[id].endpoint)
      c == leave_new_buckets(b, id)
      d == IF tried_slot \in DOMAIN c.tried_buckets THEN evict_tried(c, k, tried_slot) ELSE c
  IN  IF b.entries[id].tried_ref # None THEN b ELSE enter_tried_slot(d, id, tried_slot)

-----------------------------------------------------------------------------
(* Persistence.  Every service is stored with its position but without its *)
(* references, which load() rebuilds from the stored buckets.              *)

EmptyDisk ==
  [ seed |-> None, services |-> << >>, ids |-> << >>,
    new_buckets |-> << >>, tried_buckets |-> << >> ]

\* What the first transaction of save() commits.
cleared(k) == [EmptyDisk EXCEPT !.seed = k]

\* Bug: the seed is not written.
saved_without_seed(k, b) ==
  [ seed |-> None,
    services |-> [id \in DOMAIN b.entries |->
                    [ endpoint |-> b.entries[id].endpoint, origin |-> b.entries[id].origin,
                      time |-> b.entries[id].time, random_pos |-> b.entries[id].random_pos ]],
    ids |-> b.ids,
    new_buckets |-> b.new_buckets, tried_buckets |-> b.tried_buckets ]

\* Bug: the "tried" buckets are not written.
saved_without_tried(k, b) ==
  [saved_without_seed(k, b) EXCEPT !.seed = k, !.tried_buckets = << >>]

\* Bug: the position of an entry is not serialized.
saved_without_position(k, b) ==
  [saved_without_seed(k, b) EXCEPT !.seed = k,
     !.services = [id \in DOMAIN @ |-> [@[id] EXCEPT !.random_pos = 1]]]

\* What the second one commits.
saved(k, b) ==
  [ seed |-> k,
    services |-> [id \in DOMAIN b.entries |->
                    [ endpoint |-> b.entries[id].endpoint, origin |-> b.entries[id].origin,
                      time |-> b.entries[id].time, random_pos |-> b.entries[id].random_pos ]],
    ids |-> b.ids,
    new_buckets |-> b.new_buckets, tried_buckets |-> b.tried_buckets ]

\* The slots of a table that hold an id.
SlotsOf(buckets, id) == {s \in DOMAIN buckets : buckets[s] = id}

\* load(): an entry with the references found in the buckets.
loaded_entry(d, id) ==
  LET service == d.services[id]
      tried == SlotsOf(d.tried_buckets, id)
  IN  [ endpoint |-> service.endpoint, origin |-> service.origin, time |-> service.time,
        random_pos |-> service.random_pos,
        new_refs |-> SlotsOf(d.new_buckets, id),
        tried_ref |-> IF tried = {} THEN None ELSE CHOOSE s \in tried : TRUE ]

\* load(): the counter restarts after the last id in key order, at 2 if none.
next_id(ids) == IF ids = {} THEN 2 ELSE 1 + CHOOSE m \in ids : \A id \in ids : id <= m

\* The ids a table refers to.
HeldIds(f) == {f[x] : x \in DOMAIN f}

loaded(d) ==
  LET ids == DOMAIN d.services
  IN  [ entries |-> [id \in ids |-> loaded_entry(d, id)],
        new_buckets |-> d.new_buckets, tried_buckets |-> d.tried_buckets, ids |-> d.ids,
        new_size |-> Cardinality(HeldIds(d.new_buckets)),
        tried_size |-> Cardinality(DOMAIN d.tried_buckets),
        last_id |-> next_id(ids),
        ok |-> /\ HeldIds(d.new_buckets) \cup HeldIds(d.tried_buckets) \subseteq ids
               /\ \A id \in ids : Cardinality(SlotsOf(d.tried_buckets, id)) <= 1 ]

-----------------------------------------------------------------------------
(* The process: construction, start and load, crash.                       *)

NoOperation == holder = "nobody" /\ source = None /\ selected = {} /\ cursor = 0

\* The locals of a method that returns, releasing the lock.
Release ==
  holder' = "nobody" /\ source' = None /\ selected' = {} /\ cursor' = 0

\* A public method can take the lock.
Unlocked == running /\ holder = "nobody"

Init ==
  /\ book = EmptyBook /\ key \in Keys /\ disk = EmptyDisk
  /\ running = FALSE
  /\ NoOperation

\* AddressBook() draws a random key, NodeHub::start calls start() and load().
\* load() replaces the key by the persisted seed, if there is one.
Load ==
  /\ ~running /\ running' = TRUE
  /\ \E k \in Keys : key' = IF disk.seed = None THEN k ELSE disk.seed
  /\ book' = loaded(disk)
  /\ UNCHANGED <<disk, holder, source, selected, cursor>>

\* The process ends at any point, cleanly or not; what is committed remains.
Crash ==
  /\ running /\ running' = FALSE
  /\ book' = EmptyBook
  /\ Release
  /\ UNCHANGED <<key, disk>>

-----------------------------------------------------------------------------
(* Insertion.                                                              *)

\* One service handed to insert_or_update_impl.
Advertise(e, src, t) ==
  /\ book.last_id <= MaxId
  /\ \E now \in Clocks, lucky \in BOOLEAN :
       book' = insert_or_update_impl(book, key, e, src, t, TimePenalty, now, lucky)

\* insert_or_update of one service.
InsertOrUpdate(e, src, t) ==
  /\ Unlocked
  /\ Advertise(e, src, t)
  /\ UNCHANGED <<key, disk, running, holder, source, selected, cursor>>

\* insert_or_update of a vector: takes the lock ...
InsertBegin(src) ==
  /\ Unlocked
  /\ holder' = "insert" /\ source' = src
  /\ UNCHANGED <<book, key, disk, running, selected, cursor>>

\* The date of an advertisement, replaced when it lies before kTimeInit or
\* more than ten minutes ahead.
adjusted_time(t, now) == IF t < kTimeInit \/ t > now THEN now - 5 * 24 ELSE t

\* ... treats one service after the other, discarding those without the
\* network bit and those whose endpoint occurred before in the vector ...
InsertNext(e, t) ==
  /\ holder = "insert"
  /\ Cardinality(selected) < MaxServices
  /\ e \notin selected /\ selected' = selected \cup {e}
  /\ \E now \in Clocks : Advertise(e, source, adjusted_time(t, now))
  /\ UNCHANGED <<key, disk, running, holder, source, cursor>>

\* ... and returns.
InsertEnd ==
  /\ holder = "insert"
  /\ Release
  /\ UNCHANGED <<book, key, disk, running>>

-----------------------------------------------------------------------------
(* Outcomes of connection attempts.                                        *)

\* set_good: the time of the entry becomes the time of the connection.
SetGood(e, now) ==
  /\ Unlocked
  /\ \E id \in lookup_entry(book, e) :
       book' = make_entry_tried(
                 [book EXCEPT !.entries[id].time = now], key, id)
  /\ UNCHANGED <<key, disk, running, holder, source, selected, cursor>>

\* set_failed and set_tried, which differ in the statistics they record.
SetAttempted(e) ==
  /\ Unlocked
  /\ \E id \in lookup_entry(book, e) : book' = make_entry_tried(book, key, id)
  /\ UNCHANGED <<key, disk, running, holder, source, selected, cursor>>

-----------------------------------------------------------------------------
(* get_random_services: a partial Fisher-Yates shuffle, persisted in the   *)
(* book, from which the answer to a getaddr message is drawn.              *)

services_count(n) ==
  LET count == IF MaxPercentage > 0 THEN (n * MaxPercentage) \div 100 ELSE n
  IN  IF MaxCount > 0 /\ MaxCount < count THEN MaxCount ELSE count

ServicesBegin ==
  /\ Unlocked
  /\ book.ids # << >>
  /\ holder' = "services" /\ cursor' = 1
  /\ UNCHANGED <<book, key, disk, running, source, selected>>

ServicesWanted ==
  /\ Cardinality(selected) < services_count(Len(book.ids))
  /\ cursor <= Len(book.ids)

\* One iteration: `usable' stands for the outcome of is_bad.
ServicesNext(j, usable) ==
  /\ holder = "services" /\ ServicesWanted
  /\ j >= cursor
  /\ LET b == swap_randomly_ordered_ids(book, cursor, j)
         found == b.ids[cursor] \in DOMAIN b.entries
     IN  /\ book' = IF found THEN b ELSE Abort(b)
         /\ selected' = IF found /\ usable
                        THEN selected \cup {b.entries[b.ids[cursor]].endpoint}
                        ELSE selected
  /\ cursor' = cursor + 1
  /\ UNCHANGED <<key, disk, running, holder, source>>

ServicesEnd ==
  /\ holder = "services" /\ ~ServicesWanted
  /\ Release
  /\ UNCHANGED <<book, key, disk, running>>

-----------------------------------------------------------------------------
(* save().                                                                 *)

\* The compare-and-exchange on is_saving_ expects and stores false, so it never
\* turns a caller away: a second save() waits for the mutex and saves again.
SaveBegin ==
  /\ Unlocked
  /\ DOMAIN book.entries # {}
  /\ disk' = cleared(key)
  /\ holder' = "save"
  /\ UNCHANGED <<book, key, running, source, selected, cursor>>

SaveCommit ==
  /\ holder = "save"
  /\ disk' = saved(key, book)
  /\ Release
  /\ UNCHANGED <<book, key, running>>

\* An exception while the second transaction is filled aborts it.
SaveThrow ==
  /\ holder = "save"
  /\ Release
  /\ UNCHANGED <<book, key, disk, running>>

\* The methods that work on the book in memory ...
BookNext ==
  \/ \E e \in Endpoints, src \in Addresses, t \in Times : InsertOrUpdate(e, src, t)
  \/ \E src \in Addresses : InsertBegin(src)
  \/ \E e \in Endpoints, t \in Times : InsertNext(e, t)
  \/ InsertEnd
  \/ \E e \in Endpoints, now \in Clocks : SetGood(e, now)
  \/ \E e \in Endpoints : SetAttempted(e)
  \/ ServicesBegin
  \/ \E j \in 1..Len(book.ids), usable \in BOOLEAN : ServicesNext(j, usable)
  \/ ServicesEnd

\* ... and those that relate it to the database.
Next ==
  \/ BookNext
  \/ Load \/ Crash
  \/ SaveBegin \/ SaveCommit \/ SaveThrow

Spec == Init /\ [][Next]_vars

-----------------------------------------------------------------------------
(* Properties.                                                             *)

Entry ==
  [ endpoint : Endpoints, origin : Addresses, time : Int, new_refs : SUBSET NewSlots,
    tried_ref : TriedSlots \cup {None}, random_pos : Nat ]

IsBook(b) ==
  /\ DOMAIN b = {"entries", "new_buckets", "tried_buckets", "ids",
                  "new_size", "tried_size", "last_id", "ok"}
  /\ DOMAIN b.entries \subseteq Nat /\ \A id \in DOMAIN b.entries : b.entries[id] \in Entry
  /\ DOMAIN b.new_buckets \subseteq NewSlots
  /\ DOMAIN b.tried_buckets \subseteq TriedSlots
  /\ b.ids \in Seq(Nat)
  /\ b.new_size \in Nat /\ b.tried_size \in Nat /\ b.last_id \in Nat /\ b.ok \in BOOLEAN

\* The state has the types of the fields of AddressBook (addressbook.hpp); in
\* particular the unsigned counters are never decremented below zero.
TypeOK ==
  /\ IsBook(book)
  /\ key \in Keys
  /\ disk.seed \in Keys \cup {None}
  /\ running \in BOOLEAN
  /\ holder \in {"nobody", "insert", "services", "save"}
  /\ source \in Addresses \cup {None}
  /\ selected \subseteq Endpoints
  /\ cursor \in Nat

\* Every entry is in exactly one of the two tables.
EachInOneTable(b) ==
  \A id \in DOMAIN b.entries :
    (b.entries[id].new_refs # {}) # (b.entries[id].tried_ref # None)

\* The buckets and the references of the entries are inverse to each other.
NewTableMatches(b) ==
  /\ \A s \in DOMAIN b.new_buckets :
       b.new_buckets[s] \in DOMAIN b.entries /\ s \in b.entries[b.new_buckets[s]].new_refs
  /\ \A id \in DOMAIN b.entries : \A s \in b.entries[id].new_refs :
       s \in DOMAIN b.new_buckets /\ b.new_buckets[s] = id
TriedTableMatches(b) ==
  /\ \A s \in DOMAIN b.tried_buckets :
       b.tried_buckets[s] \in DOMAIN b.entries /\ b.entries[b.tried_buckets[s]].tried_ref = s
  /\ \A id \in DOMAIN b.entries : b.entries[id].tried_ref # None =>
       /\ b.entries[id].tried_ref \in DOMAIN b.tried_buckets
       /\ b.tried_buckets[b.entries[id].tried_ref] = id

\* The randomly ordered ids are a permutation of the ids, and every entry
\* knows its position.
OrderMatches(b) ==
  /\ \A i \in 1..Len(b.ids) :
       b.ids[i] \in DOMAIN b.entries /\ b.entries[b.ids[i]].random_pos = i
  /\ \A id \in DOMAIN b.entries :
       b.entries[id].random_pos \in 1..Len(b.ids) /\ b.ids[b.entries[id].random_pos] = id

\* No two entries have the same endpoint, and every id was given out.
IdsMatch(b) ==
  /\ \A x, y \in DOMAIN b.entries : b.entries[x].endpoint = b.entries[y].endpoint => x = y
  /\ \A id \in DOMAIN b.entries : id < b.last_id

NewEntries(b) == {id \in DOMAIN b.entries : b.entries[id].new_refs # {}}
TriedEntries(b) == {id \in DOMAIN b.entries : b.entries[id].tried_ref # None}

\* The two counters are the sizes of the two tables.
CountersMatch(b) ==
  b.new_size = Cardinality(NewEntries(b)) /\ b.tried_size = Cardinality(TriedEntries(b))

\* The limit on references from "new" slots.
ReferencesBounded(b) ==
  \A id \in DOMAIN b.entries :
    Cardinality(b.entries[id].new_refs) <= kMaxNewBucketReferences

Consistent(b) ==
  /\ EachInOneTable(b) /\ NewTableMatches(b) /\ TriedTableMatches(b)
  /\ OrderMatches(b) /\ IdsMatch(b) /\ CountersMatch(b) /\ ReferencesBounded(b)

\* The redundant structures of the book agree whenever no method is inside
\* the lock, and also between the iterations of a method that loops.
BookConsistent == Consistent(book)

\* No ASSERT of addressbook.cpp fails, those of load() included.
NoAssertFails == book.ok

\* Entries sit in the slots that the current key assigns to them: a tried
\* entry in the slot of its endpoint, a new entry in slots of sources that
\* may have advertised it.
PlacedBy(b, k) ==
  \A id \in DOMAIN b.entries :
    LET entry == b.entries[id]
    IN  /\ entry.tried_ref \in {None, get_tried_slot(k, entry.endpoint)}
        /\ \A s \in entry.new_refs :
             \E src \in Addresses : s = get_new_slot(k, entry.endpoint, src)

\* ... which survives a restart only because the key is persisted with them.
PlacedByKey == PlacedBy(book, key)

\* Whatever the database holds, load() builds a consistent book from it.
DiskLoadable ==
  LET b == loaded(disk) IN b.ok /\ Consistent(b) /\ (disk.seed # None => PlacedBy(b, disk.seed))

\* save() followed by load() in a new process gives back the same book; only
\* the next id may differ, and it stays above every id in use.
RoundTrip ==
  LET b == loaded(saved(key, book))
  IN  [b EXCEPT !.last_id = book.last_id] = book

\* A tried entry leaves the book only with the process: make_entry_tried
\* pushes it back to a "new" slot, and never erases it in the same call.
TriedNotErased ==
  [][running' => TriedEntries(book) \subseteq DOMAIN book'.entries]_vars

\* No call erases more than one entry, however many slots it touches.
ErasesAtMostOne ==
  [][running' => Cardinality(DOMAIN book.entries \ DOMAIN book'.entries) <= 1]_vars

\* What update_entry says of itself: it does not add a reference when "the
\* provided service has a seen date older than the one in the address book".
OlderNotReferenced ==
  \A id \in DOMAIN book.entries, src \in Addresses, t \in Times, now \in Clocks :
    t < book.entries[id].time =>
      update_entry(book, key, id, src, t, TimePenalty, now, TRUE).entries[id].new_refs
        = book.entries[id].new_refs

=============================================================================
