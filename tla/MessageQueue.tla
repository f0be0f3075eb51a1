---------------------------- MODULE MessageQueue ----------------------------
(***************************************************************************)
(* The queue of outbound messages of a session, outbound_messages_queue_:   *)
(* a std::priority_queue over a vector, ordered by                          *)
(* MessageQueueItemComparator (node/network/node.hpp).  The order of equals *)
(* is that of the push_heap and pop_heap of the standard library.           *)
(***************************************************************************)
EXTENDS Integers, Sequences

kHigh == 0
kNormal == 1

Message(type, priority) == [type |-> type, nonce |-> 0, priority |-> priority]
PingPong(type, nonce) == [type |-> type, nonce |-> nonce, priority |-> kHigh]

Less(lhs, rhs) == lhs.priority < rhs.priority

\* __push_heap: moves the hole at `hole` up past every lesser parent, and fills it.
sift_up(heap, hole, value) ==
    LET rise[i \in DOMAIN heap] ==
            IF i > 1 /\ Less(heap[i \div 2], value)
            THEN [rise[i \div 2] EXCEPT ![i] = heap[i \div 2]]
            ELSE [heap EXCEPT ![i] = value]
    IN  rise[hole]

emplace(heap, value) == sift_up(Append(heap, value), Len(heap) + 1, value)

\* The child that takes the place of its parent: the right one, unless it is missing or less.
child(heap, i) == IF 2 * i = Len(heap) \/ Less(heap[2 * i + 1], heap[2 * i]) THEN 2 * i ELSE 2 * i + 1

\* __adjust_heap: the hole left by the top sinks to a leaf, then the last element rises from it.
pop(heap) ==
    LET value == heap[Len(heap)]
        rest  == SubSeq(heap, 1, Len(heap) - 1)
        sink[i \in DOMAIN rest] ==
            IF 2 * i > Len(rest) THEN [heap |-> rest, hole |-> i]
            ELSE [sink[child(rest, i)] EXCEPT !.heap[i] = rest[child(rest, i)]]
    IN  IF rest = <<>> THEN <<>> ELSE sift_up(sink[1].heap, sink[1].hole, value)
=============================================================================
