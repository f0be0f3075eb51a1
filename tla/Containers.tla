----------------------------- MODULE Containers -----------------------------
(***************************************************************************)
(* The bounded containers (LruSet, CappedSet, UniqueQueue), each a list    *)
(* with an index beside it, and the counted locks on memory pages that     *)
(* secure_allocator takes for the objects it allocates.                    *)
(***************************************************************************)
EXTENDS Integers, FiniteSets, SequencesExt

CONSTANTS Keys,        \* what the containers hold
          Capacity,    \* max_size_, capacity_
          MaxInserts,  \* bound on the ghost history of a container
          PageSize,    \* a power of two
          MaxCount,    \* bound on a count: failed unlocks let it grow
          Objects      \* [name -> [address, size]] of the allocated memory

\* A container without room is refused (capped_set.hpp 37, unique_queue.hpp 38-40).
ASSUME CapacityAssumption == Capacity \in Nat \ {0}

VARIABLES box,      \* [kind, list, index, used, gone]: used, gone: ghosts, what was inserted, what left
          pages,    \* locked_pages_: [page -> count], 0: not there
          mlocked,  \* pages the system keeps in memory
          live,     \* objects allocated and not deallocated
          tainted   \* ghost: pages of an object for which lock_range or unlock_range failed

containersVars == <<box, pages, mlocked, live, tainted>>

-----------------------------------------------------------------------------
(* The bounded containers.  The list of an LruSet has the newest element   *)
(* in front, the queues of the others the oldest.                          *)

Empty(kind) == [kind |-> kind, list |-> <<>>, index |-> {}, used |-> <<>>, gone |-> <<>>]

Used(b, key) == [b EXCEPT !.used = Append(@, key)]

\* Mutant of touched: an element used again keeps its place.
touched_not(b, key) == b

\* splice: the element goes to the front.
touched(b, key) ==
    LET at == CHOOSE i \in DOMAIN b.list : b.list[i] = key
    IN  [b EXCEPT !.list = [i \in DOMAIN b.list |->
            IF i = 1 THEN key ELSE IF i <= at THEN b.list[i - 1] ELSE b.list[i]]]

\* LruSet::insert.
insert(b, key) ==
    IF key \in b.index THEN touched(b, key)
    ELSE LET full == [b EXCEPT !.list = <<key>> \o @, !.index = @ \cup {key}]
         IN  IF Len(full.list) > Capacity
                 THEN [full EXCEPT !.index = @ \ {Last(full.list)}, !.list = Front(@)]
                 ELSE full

\* What leaves a queue, at its front.
dropped(b) ==
    [b EXCEPT !.index = @ \ {Head(b.list)}, !.list = Tail(@), !.gone = Append(@, Head(b.list))]

entered(b, key) == Used([b EXCEPT !.list = Append(@, key), !.index = @ \cup {key}], key)

\* CappedSet::insert makes room before, UniqueQueue::push after.
insert_capped(b, key) ==
    IF key \in b.index THEN b
    ELSE entered(IF Cardinality(b.index) = Capacity THEN dropped(b) ELSE b, key)

push(b, key) ==
    IF key \in b.index THEN b
    ELSE LET in == entered(b, key) IN IF Len(in.list) > Capacity THEN dropped(in) ELSE in

Insert(key) ==
    /\ Len(box.used) < MaxInserts
    /\ box' = CASE box.kind = "LruSet" -> Used(insert(box, key), key)
                [] box.kind = "CappedSet" -> insert_capped(box, key)
                [] box.kind = "UniqueQueue" -> push(box, key)

Pop ==
    /\ box.kind = "UniqueQueue" /\ box.list # <<>>
    /\ box' = dropped(box)

Clear ==
    /\ box.list # <<>>
    /\ box' = Empty(box.kind)

-----------------------------------------------------------------------------
(* LockedPagesManager.                                                     *)

page_of(address) == (address \div PageSize) * PageSize

\* get_range_boundaries, and the pages from one to the other.
Covered(object) ==
    LET start == page_of(Objects[object].address)
        end == page_of(Objects[object].address + Objects[object].size - 1)
    IN  {page \in DOMAIN pages : start <= page /\ page <= end}

\* The pages of an object before the one that stops the loop; NoPage stops none.
NoPage == -1
Before(object, stop) == {page \in Covered(object) : stop = NoPage \/ page < stop}

Taint(object, stop) == tainted' = IF stop = NoPage THEN tainted ELSE tainted \cup Covered(object)

lock_range(object, stop) ==
    /\ stop = NoPage \/ (stop \in Covered(object) /\ pages[stop] = 0)
    /\ pages' = [page \in DOMAIN pages |-> pages[page] + IF page \in Before(object, stop) THEN 1 ELSE 0]
    /\ mlocked' = mlocked \cup Before(object, stop)
    /\ Taint(object, stop)

\* Mutant of released: the last count of a page is not waited for.
released_all(page, count) == 0

released(page, count) == IF count > 0 THEN count - 1 ELSE 0

unlock_range(object, stop) ==
    /\ stop = NoPage \/ (stop \in Covered(object) /\ pages[stop] = 1)
    /\ pages' = [page \in DOMAIN pages |->
                    IF page \in Before(object, stop) THEN released(page, pages[page]) ELSE pages[page]]
    /\ mlocked' = mlocked \ {page \in Before(object, stop) : pages[page] = 1}
    /\ Taint(object, stop)

Stops == {NoPage} \cup DOMAIN pages

\* What lock_range and unlock_range return is ignored.
allocate(object) ==
    /\ object \notin live
    /\ \A page \in Covered(object) : pages[page] < MaxCount
    /\ \E stop \in Stops : lock_range(object, stop)
    /\ live' = live \cup {object}

deallocate(object) ==
    /\ object \in live
    /\ \E stop \in Stops : unlock_range(object, stop)
    /\ live' = live \ {object}

\* The destructor, when no object is left; a page may resist.
ClearPages ==
    /\ live = {} /\ mlocked # {}
    /\ \E kept \in SUBSET mlocked :
           /\ pages' = [page \in DOMAIN pages |-> IF page \in kept THEN pages[page] ELSE 0]
           /\ mlocked' = kept
    /\ UNCHANGED <<live, tainted>>

-----------------------------------------------------------------------------
Kinds == {"LruSet", "CappedSet", "UniqueQueue"}
AllPages == UNION {{page_of(a) : a \in Objects[o].address..(Objects[o].address + Objects[o].size - 1)} : o \in DOMAIN Objects}

NoPages == pages = [page \in AllPages |-> 0] /\ mlocked = {} /\ live = {} /\ tainted = {}

NoContainers == box = Empty("none") /\ NoPages

InitContainers == box \in {Empty(kind) : kind \in Kinds \cup {"none"}} /\ NoPages

ContainersNext ==
    \/ box.kind \in Kinds /\ (\E key \in Keys : Insert(key)) /\ UNCHANGED <<pages, mlocked, live, tainted>>
    \/ Pop /\ UNCHANGED <<pages, mlocked, live, tainted>>
    \/ box.kind \in Kinds /\ Clear /\ UNCHANGED <<pages, mlocked, live, tainted>>

PagesNext ==
    /\ box.kind = "none"
    /\ \/ \E object \in DOMAIN Objects : allocate(object)
       \/ \E object \in DOMAIN Objects : deallocate(object)
       \/ ClearPages
    /\ UNCHANGED box

ContainersSpec == InitContainers /\ [][ContainersNext \/ PagesNext]_containersVars

-----------------------------------------------------------------------------
(* Properties.                                                             *)

LastUse(key) == CHOOSE i \in 1..Len(box.used) : box.used[i] = key /\ \A j \in i + 1..Len(box.used) : box.used[j] # key

\* Index and list of a container always agree and stay within capacity.  An
\* LruSet holds the elements inserted last, in the order of their last use; in
\* a CappedSet or a UniqueQueue elements leave in the order they came, none of
\* them lost, and a CappedSet only gives up an element for another (lru_set.hpp
\* 38-53, capped_set.hpp 40-55, unique_queue.hpp 57-82).
ContainersExact ==
    /\ box.index = Range(box.list) /\ IsInjective(box.list) /\ Len(box.list) <= Capacity
    /\ box.kind = "LruSet" =>
           /\ \A i, j \in DOMAIN box.list : i < j => LastUse(box.list[i]) > LastUse(box.list[j])
           /\ \A key \in Range(box.used) \ box.index :
                  Len(box.list) = Capacity /\ \A i \in DOMAIN box.list : LastUse(box.list[i]) > LastUse(key)
    /\ box.kind \in {"CappedSet", "UniqueQueue"} => box.used = box.gone \o box.list
    /\ box.kind = "CappedSet" /\ box.gone # <<>> => Len(box.list) = Capacity

\* A page is kept in memory exactly while it is counted, and, when no lock or
\* unlock of an object on it ever failed, counted exactly once per object on
\* it: a secret never lies on a page another object's release let go (memory.hpp
\* 58-100, secure_bytes.hpp 42-57).
PagesExact ==
    /\ mlocked = {page \in DOMAIN pages : pages[page] > 0}
    /\ \A page \in DOMAIN pages \ tainted : pages[page] = Cardinality({object \in live : page \in Covered(object)})
=============================================================================
