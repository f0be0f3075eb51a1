----------------------------- MODULE TableWalks -----------------------------
(***************************************************************************)
(* The walks of infra/database over a table: a call of one of them from    *)
(* any position of the cursor.  The order of libmdbx is external: that of  *)
(* the bytes of the keys.                                                  *)
(***************************************************************************)
EXTENDS Integers, FiniteSets, SequencesExt

CONSTANTS Tables,      \* sets of keys, each a sequence of bytes
          Searches     \* prefixes, and keys to erase from

VARIABLE walk   \* a call of one of the walks

-----------------------------------------------------------------------------
(* Walks.  A position is a key, that of a record or of one just erased, or *)
(* Nowhere: before the first move, or after one that found nothing.        *)

Nowhere == <<-1>>

RECURSIVE Lower(_, _)
Lower(a, b) ==
    b # <<>> /\ (a = <<>> \/ Head(a) < Head(b) \/ (Head(a) = Head(b) /\ Lower(Tail(a), Tail(b))))

LeastOf(keys) == IF keys = {} THEN Nowhere ELSE CHOOSE k \in keys : \A l \in keys : l = k \/ Lower(k, l)
GreatestOf(keys) == IF keys = {} THEN Nowhere ELSE CHOOSE k \in keys : \A l \in keys : l = k \/ Lower(l, k)

lower_bound(keys, key) == LeastOf({k \in keys : ~Lower(k, key)})

move(keys, at, direction) ==
    IF direction = "Forward" THEN LeastOf({k \in keys : Lower(at, k)}) ELSE GreatestOf({k \in keys : Lower(k, at)})

adjust_cursor_position_if_unpositioned(keys, at, direction) ==
    IF at # Nowhere THEN at ELSE IF direction = "Forward" THEN LeastOf(keys) ELSE GreatestOf(keys)

\* The last key below the given one.
strict_lower_bound(keys, key) ==
    IF lower_bound(keys, key) = Nowhere THEN GreatestOf(keys) ELSE move(keys, lower_bound(keys, key), "Reverse")

WithPrefix(keys, prefix) == {k \in keys : IsPrefix(prefix, k)}

\* Records visited from a position on, at most count of them, while in goes.
RECURSIVE Visit(_, _, _, _, _)
Visit(keys, at, direction, count, goes) ==
    IF at = Nowhere \/ count = 0 \/ at \notin goes THEN [seen |-> <<>>, at |-> at]
    ELSE LET rest == Visit(keys, move(keys, at, direction), direction, count - 1, goes)
         IN  [rest EXCEPT !.seen = <<at>> \o @]

cursor_for_count(keys, at, count, direction) ==
    Visit(keys, adjust_cursor_position_if_unpositioned(keys, at, direction), direction, count, keys)

cursor_for_each(keys, at, direction) == cursor_for_count(keys, at, Cardinality(keys), direction)

cursor_for_prefix(keys, prefix, direction) ==
    Visit(keys, lower_bound(keys, prefix), direction, Cardinality(keys), WithPrefix(keys, prefix))

\* Records erased one by one from a position on, while in goes: the keys left.
RECURSIVE Erased(_, _, _, _)
Erased(keys, at, direction, goes) ==
    IF at = Nowhere \/ at \notin goes THEN keys
    ELSE Erased(keys \ {at}, move(keys \ {at}, at, direction), direction, goes)

cursor_erase_prefix(keys, prefix) ==
    Erased(keys, lower_bound(keys, prefix), "Forward", WithPrefix(keys, prefix))

\* Mutant of erase_from: the given key is taken as the last one to erase.
erase_from_inclusive(keys, key, direction) == lower_bound(keys, key)

erase_from(keys, key, direction) ==
    IF direction = "Forward" THEN lower_bound(keys, key) ELSE strict_lower_bound(keys, key)

cursor_erase(keys, key, direction) == Erased(keys, erase_from(keys, key, direction), direction, keys)

-----------------------------------------------------------------------------
NoWalk == [of |-> "none", keys |-> {}, at |-> Nowhere, prefix |-> <<>>, direction |-> "Forward", count |-> 0]

Walks ==
    {[of |-> "walk", keys |-> table, at |-> at, prefix |-> prefix, direction |-> direction, count |-> count] :
        table \in Tables, at \in UNION Tables \cup {Nowhere}, prefix \in Searches,
        direction \in {"Forward", "Reverse"}, count \in 0..2}

InitWalk == walk \in {NoWalk} \cup {w \in Walks : w.at \in w.keys \cup {Nowhere}}

-----------------------------------------------------------------------------
(* Properties.                                                             *)

Sorted(seen, direction) ==
    \A i, j \in DOMAIN seen : i < j => IF direction = "Forward" THEN Lower(seen[i], seen[j]) ELSE Lower(seen[j], seen[i])

\* The walks do what they are for, from any position: all records on one side
\* of it in order; the first count of them, and a second call the next ones
\* unless the first reached the end; forward, exactly the records with the
\* prefix; an erase leaves exactly the keys on the other side of the given one
\* (mdbx.cpp 295-353).
WalksExact ==
    walk.of = "walk" =>
        LET keys == walk.keys
            from == IF walk.at = Nowhere THEN keys
                    ELSE {k \in keys : k = walk.at \/ IF walk.direction = "Forward" THEN Lower(walk.at, k) ELSE Lower(k, walk.at)}
            all == cursor_for_each(keys, walk.at, walk.direction)
            some == cursor_for_count(keys, walk.at, walk.count, walk.direction)
            more == cursor_for_count(keys, some.at, walk.count, walk.direction)
            with == WithPrefix(keys, walk.prefix)
            below == {k \in keys : Lower(k, walk.prefix)}
            prefixed == cursor_for_prefix(keys, walk.prefix, "Forward").seen
        IN  /\ Range(all.seen) = from /\ Sorted(all.seen, walk.direction)
            /\ IsPrefix(some.seen, all.seen) /\ Len(some.seen) <= walk.count
            /\ some.at # Nowhere => IsPrefix(some.seen \o more.seen, all.seen)
            /\ Range(prefixed) = with /\ Sorted(prefixed, "Forward")
            /\ cursor_erase_prefix(keys, walk.prefix) = keys \ with
            /\ cursor_erase(keys, walk.prefix, "Forward") = below
            /\ cursor_erase(keys, walk.prefix, "Reverse") = keys \ below
=============================================================================
