-------------------------- MODULE NodeSessionProofs --------------------------
(****************************************************************************)
(* What holds of a session whatever its peer does: its operations on the    *)
(* socket do not overlap, no message is left behind, its end is reported    *)
(* once, and it keeps the contract the hub relies on.                       *)
(*                                                                          *)
(* The argument is about the jobs on the strand.  The inductive invariant   *)
(* counts them by name together with the operations they lead to, and says  *)
(* which job the strand is in the middle of.                                *)
(****************************************************************************)
EXTENDS NodeSession, FiniteSetTheorems, TLAPS

-----------------------------------------------------------------------------
(* The queues of callbacks.                                                *)

\* The positions of an element, and their number.
In(q, x) == {i \in DOMAIN q : q[i] = x}
Count(q, x) == Cardinality(In(q, x))

\* An element stands in a queue a finite number of times.
LEMMA CountType == ASSUME NEW S, NEW q \in Seq(S), NEW x PROVE IsFiniteSet(In(q, x)) /\ Count(q, x) \in Nat
<1>1. In(q, x) \subseteq 1 .. Len(q) /\ Len(q) \in Nat
  BY DEF In
<1>2. IsFiniteSet(1 .. Len(q))
  BY <1>1, FS_Interval
<1> QED BY <1>1, <1>2, FS_Subset, FS_CardinalityType DEF Count

\* Nothing stands in an empty queue.
LEMMA CountEmpty == ASSUME NEW x PROVE Count(<<>>, x) = 0
<1>1. In(<<>>, x) = {}
  BY DEF In
<1> QED BY <1>1, FS_EmptySet DEF Count

\* What is counted stands somewhere.
LEMMA CountPositive ==
    ASSUME NEW S, NEW q \in Seq(S), NEW x
    PROVE  Count(q, x) > 0 <=> \E i \in DOMAIN q : q[i] = x
<1>1. Count(q, x) \in Nat /\ (Count(q, x) = 0 <=> In(q, x) = {})
  BY CountType, FS_EmptySet DEF Count
<1> QED BY <1>1 DEF In

\* A queue of one element.
LEMMA CountOne == ASSUME NEW e, NEW x PROVE Count(<<e>>, x) = IF e = x THEN 1 ELSE 0
<1>1. In(<<e>>, x) = IF e = x THEN {1} ELSE {}
  BY DEF In
<1>2. Cardinality({1}) = 1 /\ Cardinality({}) = 0
  BY FS_Singleton, FS_EmptySet
<1> QED BY <1>1, <1>2 DEF Count

\* A queue of two elements.
LEMMA CountTwo ==
    ASSUME NEW d, NEW e, d # e, NEW x PROVE Count(<<d, e>>, x) = IF x \in {d, e} THEN 1 ELSE 0
<1>1. In(<<d, e>>, x) = IF d = x THEN {1} ELSE IF e = x THEN {2} ELSE {}
  BY DEF In
<1>2. Cardinality({1}) = 1 /\ Cardinality({2}) = 1 /\ Cardinality({}) = 0
  BY Zenon, FS_Singleton, FS_EmptySet
<1> QED BY <1>1, <1>2 DEF Count

\* Posting a list of jobs adds up what stands in both.
LEMMA CountJoined ==
    ASSUME NEW S, NEW q \in Seq(S), NEW r \in Seq(S), NEW x
    PROVE  Count(q \o r, x) = Count(q, x) + Count(r, x)
<1> DEFINE R == {i \in In(q \o r, x) : i > Len(q)}
<1> DEFINE f == [i \in In(r, x) |-> i + Len(q)]
<1>1. q \o r \in Seq(S) /\ Len(q) \in Nat /\ Len(r) \in Nat /\ Len(q \o r) = Len(q) + Len(r)
      /\ (\A i \in 1 .. Len(q) : (q \o r)[i] = q[i]) /\ \A i \in 1 .. Len(r) : (q \o r)[i + Len(q)] = r[i]
  OBVIOUS
<1>2. f \in Bijection(In(r, x), R)
  <2>1. \A i \in In(r, x) : i \in Nat /\ i + Len(q) \in R
    BY <1>1 DEF In
  <2>2. \A j \in R : j \in Nat /\ j - Len(q) \in In(r, x)
    <3> SUFFICES ASSUME NEW j \in R PROVE j \in Nat /\ j - Len(q) \in In(r, x)
      OBVIOUS
    <3>1. j \in Nat /\ j > Len(q) /\ j <= Len(q) + Len(r) /\ (q \o r)[j] = x
      BY <1>1 DEF In
    <3>2. j - Len(q) \in 1 .. Len(r) /\ (j - Len(q)) + Len(q) = j
      BY <1>1, <3>1
    <3>3. r[j - Len(q)] = x
      BY <1>1, <3>1, <3>2
    <3> QED BY <3>1, <3>2, <3>3 DEF In
  <2>3. f \in [In(r, x) -> R]
    BY <2>1
  <2>4. \A i, j \in In(r, x) : f[i] = f[j] => i = j
    BY <1>1, <2>1
  <2>5. \A j \in R : \E i \in In(r, x) : f[i] = j
    <3> SUFFICES ASSUME NEW j \in R PROVE \E i \in In(r, x) : f[i] = j
      OBVIOUS
    <3>1. j - Len(q) \in In(r, x) /\ (j - Len(q)) + Len(q) = j
      BY <1>1, <2>2
    <3> QED BY <3>1
  <2> QED BY <2>3, <2>4, <2>5 DEF Bijection, Injection, Surjection, IsInjective
<1>3. IsFiniteSet(R) /\ Cardinality(R) = Count(r, x)
  <2>1. ExistsBijection(In(r, x), R)
    BY <1>2 DEF ExistsBijection
  <2>2. IsFiniteSet(In(r, x))
    BY CountType
  <2> HIDE DEF R
  <2> QED BY <2>1, <2>2, FS_Bijection DEF Count
<1>4. In(q \o r, x) = In(q, x) \cup R /\ In(q, x) \cap R = {}
  BY <1>1 DEF In
<1>5. IsFiniteSet(In(q, x)) /\ Count(q, x) \in Nat /\ Count(r, x) \in Nat
  BY CountType
<1>6. Cardinality(In(q, x) \cup R) = Cardinality(In(q, x)) + Cardinality(R) - Cardinality(In(q, x) \cap R)
  <2> HIDE DEF R
  <2> QED BY <1>3, <1>5, FS_Union
<1> HIDE DEF R
<1>7. Cardinality(In(q, x) \cap R) = 0
  BY Zenon, <1>4, FS_EmptySet
<1>8. Count(q \o r, x) = Cardinality(In(q, x) \cup R) /\ Count(q, x) = Cardinality(In(q, x))
  BY <1>4 DEF Count
<1> QED BY <1>3, <1>5, <1>6, <1>7, <1>8

\* Taking the head of a queue uncounts it.
LEMMA CountTail ==
    ASSUME NEW S, NEW q \in Seq(S), q # <<>>, NEW x
    PROVE  Count(q, x) = IF Head(q) = x THEN Count(Tail(q), x) + 1 ELSE Count(Tail(q), x)
<1> DEFINE first == <<Head(q)>>
           rest == Tail(q)
<1>1. first \in Seq(S) /\ rest \in Seq(S) /\ q = first \o rest
  OBVIOUS
<1>2. Count(first, x) = IF Head(q) = x THEN 1 ELSE 0
  BY CountOne
<1> HIDE DEF first, rest
<1>3. Count(rest, x) \in Nat
  BY <1>1, CountType
<1>4. Count(first \o rest, x) = Count(first, x) + Count(rest, x)
  BY <1>1, CountJoined
<1>5. Count(q, x) = IF Head(q) = x THEN Count(rest, x) + 1 ELSE Count(rest, x)
  BY <1>1, <1>2, <1>3, <1>4
<1> QED BY <1>5 DEF rest

-----------------------------------------------------------------------------
(* The inductive invariant.                                                *)

SessionTypes ==
    /\ status \in {"kNotStarted", "kStarted", "kStopping"}
    /\ strand \in Seq(JobNames)
    /\ job \in [pc : {"idle", "validate", "completed"}, message : {NoMessage}, seen : SUBSET kCompleted, parsed : {0}]
    /\ reader \in [pc : {"idle", "validate", "process", "verack", "notify", "next"}, message : Items,
                   seen : SUBSET kCompleted, parsed : Nat]
    /\ handshake \subseteq kCompleted
    /\ writes \in Nat /\ reads \in Nat /\ disconnects \in Nat /\ requests \in Nat

\* Nothing happens before Node::start.
Fresh ==
    status = "kNotStarted" /\ disconnects = 0 =>
        /\ strand = <<>> /\ job.pc = "idle" /\ reader.pc = "idle" /\ tls = "none"
        /\ reads = 0 /\ writes = 0 /\ requests = 0 /\ queue = <<>> /\ ~barrel.rest

\* The job in the middle of which the strand is stands first; a message being validated is not yet
\* being written, and nothing else is.
InJob ==
    /\ job.pc = "validate" => strand # <<>> /\ Head(strand) = "start_write" /\ is_writing /\ writes = 0
    /\ job.pc = "completed" => strand # <<>> /\ Head(strand) = "on_handshake_completed"

\* One write at a time, and is_writing_ says so.
Writing == writes <= 1 /\ (writes = 1 => is_writing)

\* Where the one read of a session can be.
Reading ==
    reads + (IF reader.pc = "idle" THEN 0 ELSE 1) + (IF tls = "pending" THEN 1 ELSE 0)
        + posted("start_read") + posted("start_ssl_handshake") <= 1

\* The end is reported when the socket is closed, and a stop that began has one job left to complete it.
Ending ==
    /\ disconnects <= 1
    /\ disconnects = 1 <=> ~is_open
    /\ status # "kNotStarted" => disconnects = 0
    /\ posted("on_stop_completed") = (IF status = "kStopping" THEN 1 ELSE 0)

\* What waits to be written has a job that will look at it.
Wakeup ==
    is_running /\ is_open /\ (queue # <<>> \/ barrel.rest) /\ ~is_writing => posted("start_write") + posted("stop") > 0

IInv == SessionTypes /\ Fresh /\ InJob /\ Writing /\ Reading /\ Ending /\ Wakeup

-----------------------------------------------------------------------------
(* Jobs are posted at the end of the strand, and one is dropped when done.   *)

\* posted is Count on the strand, before and after a step.
LEMMA PostedCount == ASSUME NEW x PROVE posted(x) = Count(strand, x) /\ posted(x)' = Count(strand', x)
  BY DEF posted, Count, In

\* The jobs of a name are a number.
LEMMA PostedType == ASSUME SessionTypes, NEW x PROVE posted(x) \in Nat
  BY PostedCount, CountType DEF SessionTypes

\* The job at the head of the strand is posted.
LEMMA HeadPosted == ASSUME SessionTypes, strand # <<>> PROVE posted(Head(strand)) > 0
<1>1. strand \in Seq(JobNames) /\ 1 \in DOMAIN strand /\ strand[1] = Head(strand)
  BY DEF SessionTypes
<1>2. Count(strand, Head(strand)) > 0
  BY <1>1, CountPositive
<1> QED BY <1>2, PostedCount

\* A step that leaves the strand alone leaves the jobs of every name.
LEMMA Kept == ASSUME UNCHANGED strand, NEW x PROVE posted(x)' = posted(x)
  BY DEF posted

\* What asio::post adds to the strand.
LEMMA Posts ==
    ASSUME SessionTypes, NEW jobs \in Seq(JobNames), post(jobs)
    PROVE  /\ strand' \in Seq(JobNames)
           /\ \A x : posted(x)' = posted(x) + Count(jobs, x)
           /\ strand # <<>> => strand' # <<>> /\ Head(strand') = Head(strand)
<1>1. strand \in Seq(JobNames) /\ strand' = strand \o jobs
  BY DEF SessionTypes, post
<1>2. \A x : Count(strand \o jobs, x) = Count(strand, x) + Count(jobs, x)
  BY <1>1, CountJoined
<1>3. \A x : posted(x)' = posted(x) + Count(jobs, x)
  BY <1>1, <1>2, PostedCount
<1>4. strand # <<>> => strand \o jobs # <<>> /\ Head(strand \o jobs) = Head(strand)
  BY <1>1
<1> QED BY <1>1, <1>3, <1>4

\* What a handler of the strand takes away, and what it posts.
LEMMA Finishes ==
    ASSUME SessionTypes, strand # <<>>, NEW jobs \in Seq(JobNames), finish(jobs)
    PROVE  /\ strand' \in Seq(JobNames) /\ job'.pc = "idle"
           /\ \A x : posted(x)' = posted(x) + Count(jobs, x) - (IF Head(strand) = x THEN 1 ELSE 0)
<1>1. strand \in Seq(JobNames) /\ strand' = Tail(strand) \o jobs /\ Tail(strand) \in Seq(JobNames)
  BY DEF SessionTypes, finish
<1>2. \A x : Count(Tail(strand) \o jobs, x) = Count(Tail(strand), x) + Count(jobs, x)
  BY Zenon, <1>1, CountJoined
<1>3. \A x : Count(strand, x) = IF Head(strand) = x THEN Count(Tail(strand), x) + 1 ELSE Count(Tail(strand), x)
  BY <1>1, CountTail
<1>4. \A x : Count(Tail(strand), x) \in Nat /\ Count(jobs, x) \in Nat
  BY Zenon, <1>1, CountType
<1>5. \A x : posted(x)' = posted(x) + Count(jobs, x) - (IF Head(strand) = x THEN 1 ELSE 0)
  BY <1>1, <1>2, <1>3, <1>4, PostedCount
<1> QED BY <1>1, <1>5 DEF finish, Idle

\* The jobs a handler posts.
LEMMA JobCounts ==
    /\ <<>> \in Seq(JobNames) /\ \A x : Count(<<>>, x) = 0
    /\ \A e \in JobNames : <<e>> \in Seq(JobNames) /\ \A x : Count(<<e>>, x) = IF e = x THEN 1 ELSE 0
<1>1. \A e \in JobNames : <<e>> \in Seq(JobNames)
  OBVIOUS
<1> QED BY <1>1, CountEmpty, CountOne

\* The jobs of a session, by name.
LEMMA Names ==
    JobNames = {"start_ssl_handshake", "start_read", "start_write", "stop",
                "on_stop_completed", "on_handshake_completed"}
  BY DEF JobNames

\* The strand gains the jobs `plus`, in that order and at its end, and loses the jobs `minus`.
Moves(x, plus, minus) == posted(x)' = posted(x) + (IF x \in plus THEN 1 ELSE 0) - (IF x \in minus THEN 1 ELSE 0)
Moved(plus, minus) ==
    /\ strand' \in Seq(JobNames)
    /\ Moves("start_read", plus, minus) /\ Moves("start_ssl_handshake", plus, minus)
    /\ Moves("start_write", plus, minus) /\ Moves("stop", plus, minus) /\ Moves("on_stop_completed", plus, minus)
SameHead == strand # <<>> => strand' # <<>> /\ Head(strand') = Head(strand)

\* The jobs that are left by a handler that posts at most one, in numbers.
Tally(read, write, halt) ==
    /\ posted("start_read")' = posted("start_read") + read
    /\ posted("start_write")' = posted("start_write") + write
    /\ posted("stop")' = posted("stop") + halt
    /\ posted("start_ssl_handshake")' = posted("start_ssl_handshake")
    /\ posted("on_stop_completed")' = posted("on_stop_completed")

\* Posting nothing, a stop, a write or a read, in numbers.
LEMMA Tallies ==
    ASSUME posted("start_read") \in Nat, posted("start_ssl_handshake") \in Nat, posted("start_write") \in Nat,
           posted("stop") \in Nat, posted("on_stop_completed") \in Nat
    PROVE  /\ Moved({}, {}) => Tally(0, 0, 0)
           /\ Moved({"stop"}, {}) => Tally(0, 0, 1)
           /\ Moved({"start_write"}, {}) => Tally(0, 1, 0)
           /\ Moved({"start_read"}, {}) => Tally(1, 0, 0)
<1>1. Moved({}, {}) => Tally(0, 0, 0)
  BY DEF Moved, Moves, Tally
<1>2. Moved({"stop"}, {}) => Tally(0, 0, 1)
  BY DEF Moved, Moves, Tally
<1>3. Moved({"start_write"}, {}) => Tally(0, 1, 0)
  BY DEF Moved, Moves, Tally
<1>4. Moved({"start_read"}, {}) => Tally(1, 0, 0)
  BY DEF Moved, Moves, Tally
<1> QED BY <1>1, <1>2, <1>3, <1>4

\* A step that leaves the strand alone moves no job.
LEMMA MovedNone == ASSUME SessionTypes, UNCHANGED strand PROVE Moved({}, {}) /\ SameHead
<1>1. \A x : posted(x)' = posted(x) /\ posted(x) \in Nat
  BY Kept, PostedType
<1> QED BY <1>1 DEF Moved, Moves, SameHead, SessionTypes

\* Posting one job.
LEMMA MovedPost == ASSUME SessionTypes, NEW e \in JobNames, post(<<e>>) PROVE Moved({e}, {}) /\ SameHead
<1>1. <<e>> \in Seq(JobNames) /\ \A x : Count(<<e>>, x) = IF e = x THEN 1 ELSE 0
  BY JobCounts
<1>2. strand' \in Seq(JobNames) /\ (\A x : posted(x)' = posted(x) + Count(<<e>>, x)) /\ SameHead
  BY Zenon, <1>1, Posts DEF SameHead
<1>3. \A x : posted(x) \in Nat
  BY PostedType
<1> QED BY <1>1, <1>2, <1>3 DEF Moved, Moves

\* Posting two jobs (Node::start on a connection this node opened).
LEMMA MovedPostTwo ==
    ASSUME SessionTypes, NEW d \in JobNames, NEW e \in JobNames, d # e, post(<<d, e>>)
    PROVE  Moved({d, e}, {}) /\ SameHead
<1>1. <<d, e>> \in Seq(JobNames)
  OBVIOUS
<1>2. \A x : Count(<<d, e>>, x) = IF x \in {d, e} THEN 1 ELSE 0
  BY CountTwo
<1>3. strand' \in Seq(JobNames) /\ (\A x : posted(x)' = posted(x) + Count(<<d, e>>, x)) /\ SameHead
  BY Zenon, <1>1, Posts DEF SameHead
<1>4. \A x : posted(x) \in Nat
  BY PostedType
<1> QED BY <1>2, <1>3, <1>4 DEF Moved, Moves

\* Posting the jobs of two lists.
LEMMA PostsBoth ==
    ASSUME SessionTypes, NEW first \in Seq(JobNames), NEW second \in Seq(JobNames), post(first \o second)
    PROVE  /\ strand' \in Seq(JobNames) /\ SameHead
           /\ \A x : posted(x)' = posted(x) + Count(first, x) + Count(second, x)
<1>1. first \o second \in Seq(JobNames)
  OBVIOUS
<1>2. \A x : Count(first \o second, x) = Count(first, x) + Count(second, x)
  BY CountJoined
<1>3. \A x : posted(x) \in Nat /\ Count(first, x) \in Nat /\ Count(second, x) \in Nat
  BY PostedType, CountType
<1>4. strand' \in Seq(JobNames) /\ (\A x : posted(x)' = posted(x) + Count(first \o second, x)) /\ SameHead
  BY Zenon, <1>1, Posts DEF SameHead
<1> QED BY <1>2, <1>3, <1>4

\* Posting two jobs, one after the other.
LEMMA MovedPostBoth ==
    ASSUME SessionTypes, NEW d \in JobNames, NEW e \in JobNames, d # e, post(<<d>> \o <<e>>)
    PROVE  Moved({d, e}, {}) /\ SameHead
<1>1. <<d>> \in Seq(JobNames) /\ <<e>> \in Seq(JobNames)
  OBVIOUS
<1>2. /\ strand' \in Seq(JobNames) /\ SameHead
      /\ \A x : posted(x)' = posted(x) + Count(<<d>>, x) + Count(<<e>>, x)
  <2> DEFINE first == <<d>>
  <2> DEFINE second == <<e>>
  <2>1. first \in Seq(JobNames) /\ second \in Seq(JobNames) /\ post(first \o second)
    BY <1>1
  <2>2. /\ strand' \in Seq(JobNames) /\ SameHead
        /\ \A x : posted(x)' = posted(x) + Count(first, x) + Count(second, x)
    <3> HIDE DEF first, second
    <3> QED BY <2>1, PostsBoth
  <2> QED BY Zenon, <2>2
<1>4. \A x : posted(x) \in Nat
  BY PostedType
<1>5. ASSUME NEW x PROVE posted(x)' = posted(x) + (IF x \in {d, e} THEN 1 ELSE 0)
  <2>1. Count(<<d>>, x) = (IF d = x THEN 1 ELSE 0) /\ Count(<<e>>, x) = (IF e = x THEN 1 ELSE 0)
    BY CountOne
  <2>2. posted(x) \in Nat /\ posted(x)' = posted(x) + Count(<<d>>, x) + Count(<<e>>, x)
    BY Zenon, <1>2, <1>4
  <2>3. (IF d = x THEN 1 ELSE 0) + (IF e = x THEN 1 ELSE 0) = IF x \in {d, e} THEN 1 ELSE 0
    OBVIOUS
  <2> QED BY <2>1, <2>2, <2>3
<1> QED BY <1>2, <1>4, <1>5 DEF Moved, Moves

\* A handler that ends and posts nothing.
LEMMA MovedFinish ==
    ASSUME SessionTypes, strand # <<>>, finish(<<>>) PROVE Moved({}, {Head(strand)}) /\ job'.pc = "idle"
<1>1. <<>> \in Seq(JobNames) /\ \A x : Count(<<>>, x) = 0
  BY JobCounts
<1>2. /\ strand' \in Seq(JobNames) /\ job'.pc = "idle"
      /\ \A x : posted(x)' = posted(x) + Count(<<>>, x) - (IF Head(strand) = x THEN 1 ELSE 0)
  BY Zenon, <1>1, Finishes
<1>3. \A x : posted(x) \in Nat
  BY PostedType
<1> QED BY <1>1, <1>2, <1>3 DEF Moved, Moves

\* A handler that ends and posts one job.
LEMMA MovedFinishOne ==
    ASSUME SessionTypes, strand # <<>>, NEW e \in JobNames, finish(<<e>>)
    PROVE  Moved({e}, {Head(strand)}) /\ job'.pc = "idle"
<1>1. <<e>> \in Seq(JobNames) /\ \A x : Count(<<e>>, x) = IF e = x THEN 1 ELSE 0
  BY JobCounts
<1>2. /\ strand' \in Seq(JobNames) /\ job'.pc = "idle"
      /\ \A x : posted(x)' = posted(x) + Count(<<e>>, x) - (IF Head(strand) = x THEN 1 ELSE 0)
  BY Zenon, <1>1, Finishes
<1>3. \A x : posted(x) \in Nat
  BY PostedType
<1> QED BY Zenon, <1>1, <1>2, <1>3 DEF Moved, Moves

\* push_message posts start_write when there is a message to push, and nothing otherwise.
LEMMA MovedPush ==
    ASSUME SessionTypes, NEW messages, push_message(messages)
    PROVE  ((Moved({}, {}) /\ queue' = queue) \/ Moved({"start_write"}, {})) /\ SameHead
<1>1. CASE messages = <<>>
  BY <1>1, MovedNone DEF push_message
<1>2. CASE messages # <<>>
  BY <1>2, MovedPost, Names DEF push_message
<1> QED BY <1>1, <1>2

-----------------------------------------------------------------------------
(* What the steps keep.                                                      *)

\* A session that was only constructed satisfies the invariant.
LEMMA InitIInv == Init => IInv
<1> SUFFICES ASSUME Init PROVE IInv
  OBVIOUS
<1>1. \A x : posted(x) = 0
  <2>1. strand = <<>>
    BY DEF Init
  <2> QED BY <2>1, PostedCount, CountEmpty
<1>2. SessionTypes
  <2>1. NoMessage \in Items
    BY SessionAssumption DEF NoMessage, Items, kHigh
  <2>2. Idle \in [pc : {"idle", "validate", "completed"}, message : {NoMessage}, seen : SUBSET kCompleted, parsed : {0}]
    BY DEF Idle
  <2>3. Idle \in [pc : {"idle", "validate", "process", "verack", "notify", "next"}, message : Items,
                  seen : SUBSET kCompleted, parsed : Nat]
    BY <2>1 DEF Idle
  <2> QED BY <2>2, <2>3 DEF Init, SessionTypes
<1>3. Fresh /\ InJob /\ Writing /\ Wakeup
  BY DEF Init, Fresh, InJob, Writing, Wakeup, Idle, EmptyBarrel, is_running
<1>4. Reading /\ Ending
  BY <1>1 DEF Init, Reading, Ending, Idle
<1> QED BY <1>2, <1>3, <1>4 DEF IInv

\* A message has one flag of ProtocolHandShakeStatus, or none.
LEMMA FlagType == ASSUME NEW direction, NEW type PROVE Flag(direction, type) \in kCompleted \cup {"none"}
  BY DEF Flag, kCompleted

\* What a peer sends is a message.
LEMMA MessagesType == Messages \subseteq Items /\ NoMessage \in Items
  BY SessionAssumption DEF Messages, Message, PingPong, NoMessage, Items, kHigh, kNormal

\* What the validation stores are flags of ProtocolHandShakeStatus.
LEMMA HandshakeType ==
    ASSUME SessionTypes, NEW seen \in SUBSET kCompleted, NEW direction, NEW type,
           exchange_status(seen, Flag(direction, type))
    PROVE  handshake' \subseteq kCompleted
  BY FlagType DEF exchange_status, SessionTypes

\* Every handler preserves the invariant, whatever the others are in the middle of.
LEMMA NextIInv == IInv /\ [Next]_vars => IInv'
<1> SUFFICES ASSUME IInv, [Next]_vars PROVE IInv'
  OBVIOUS
<1>t. SessionTypes
  BY DEF IInv
<1>n. /\ posted("start_read") \in Nat /\ posted("start_ssl_handshake") \in Nat /\ posted("start_write") \in Nat
      /\ posted("stop") \in Nat /\ posted("on_stop_completed") \in Nat
  BY <1>t, PostedType
<1>r. reads \in Nat
  BY <1>t DEF SessionTypes
<1> USE DEF IInv, is_running
<1>1. CASE Start
  <2>1. \/ Moved({"start_ssl_handshake"}, {}) /\ queue' = queue
        \/ Moved({"start_read"}, {}) /\ queue' = queue
        \/ Moved({"start_read", "start_write"}, {})
    BY <1>1, <1>t, MovedPost, MovedPostTwo, Names DEF Start
  <2>2. posted("start_read") = 0 /\ posted("start_ssl_handshake") = 0
    <3>1. strand = <<>>
      BY <1>1 DEF Fresh, Start
    <3> QED BY <3>1, PostedCount, CountEmpty
  <2>3. SessionTypes'
    BY <1>1, <2>1 DEF SessionTypes, Start, Moved, reading, shaking
  <2>4. Fresh' /\ InJob' /\ Writing' /\ Reading'
    BY <1>1, <2>1, <2>2 DEF SessionTypes, Fresh, InJob, Writing, Reading, Start, Moved, Moves, reading
  <2>5. Ending'
    BY <1>1, <1>n, <2>1 DEF Ending, Start, Moved, Moves
  <2>6. Wakeup'
    BY <1>1, <1>n, <2>1 DEF Fresh, Wakeup, Start, Moved, Moves
  <2> QED BY <2>3, <2>4, <2>5, <2>6
<1>2. CASE HubStop
  <2>1. Moved({"on_stop_completed"}, {}) /\ SameHead
    BY <1>2, <1>t, MovedPost, Names DEF HubStop, stopped_jobs
  <2>a. SessionTypes'
    BY <1>2, <2>1 DEF SessionTypes, Moved, HubStop, stopping, writing, reading, shaking
  <2>b. Fresh' /\ InJob' /\ Writing'
    BY <1>2, <2>1 DEF SessionTypes, Fresh, InJob, Writing, SameHead, HubStop, stopping, writing, reading
  <2>c. Reading'
    BY <1>2, <1>n, <1>r, <2>1 DEF Reading, Moved, Moves, HubStop, reading
  <2>d. Ending'
    BY <1>2, <1>n, <2>1 DEF Ending, Moved, Moves, HubStop, stopping
  <2>e. Wakeup'
    BY <1>2, <1>n, <2>1 DEF Wakeup, Moved, Moves, HubStop, stopping, writing
  <2> QED BY <2>a, <2>b, <2>c, <2>d, <2>e
<1>3. CASE StrandStop
  <2>1. strand # <<>> /\ Head(strand) = "stop" /\ job.pc = "idle"
    BY <1>3 DEF StrandStop, runs
  <2>2. Moved(IF is_running THEN {"on_stop_completed"} ELSE {}, {"stop"}) /\ job'.pc = "idle" /\ job' = Idle
    BY Zenon, <1>3, <1>t, <2>1, MovedFinish, MovedFinishOne, Names DEF StrandStop, stopped_jobs, finish
  <2>a. SessionTypes'
    BY <1>3, <2>1, <2>2 DEF SessionTypes, Moved, StrandStop, stopping, writing, reading, shaking, Idle
  <2>b. Fresh' /\ InJob' /\ Writing'
    BY <1>3, <2>1, <2>2 DEF SessionTypes, Fresh, InJob, Writing, SameHead, StrandStop, stopping, writing,
                            reading, Idle
  <2>c. Reading'
    BY <1>3, <1>n, <1>r, <2>1, <2>2 DEF Reading, Moved, Moves, StrandStop, reading, Idle
  <2>d. Ending'
    BY <1>3, <1>n, <2>1, <2>2 DEF Ending, Moved, Moves, StrandStop, stopping
  <2>e. Wakeup'
    BY <1>3, <1>n, <2>1, <2>2 DEF Wakeup, Moved, Moves, StrandStop, stopping, writing
  <2> QED BY <2>a, <2>b, <2>c, <2>d, <2>e
<1>4. CASE on_stop_completed
  <2>1. strand # <<>> /\ Head(strand) = "on_stop_completed" /\ job.pc = "idle"
    BY <1>4 DEF on_stop_completed, runs
  <2>2. posted("on_stop_completed") > 0
    BY <1>t, <2>1, HeadPosted
  <2>3. Moved({}, {"on_stop_completed"}) /\ job' = Idle
    BY Zenon, <1>4, <1>t, <2>1, MovedFinish DEF on_stop_completed, finish
  <2>4. SessionTypes'
    BY <1>4, <2>3 DEF SessionTypes, on_stop_completed, Moved, writing, reading, shaking, Idle
  <2>5. status = "kStopping" /\ disconnects = 0 /\ disconnects' = 1 /\ is_open' = FALSE /\ status' = "kNotStarted"
    BY <1>4, <2>2 DEF Ending, on_stop_completed
  <2>6. Ending'
    BY <1>n, <2>3, <2>5 DEF Ending, Moved, Moves
  <2>7. Fresh' /\ InJob' /\ Writing' /\ Wakeup'
    BY <1>4, <2>3, <2>5 DEF Fresh, InJob, Writing, Wakeup, on_stop_completed, writing, Idle
  <2>8. Reading'
    BY <1>4, <1>n, <1>r, <2>3 DEF Reading, on_stop_completed, Moved, Moves, reading
  <2> QED BY <2>4, <2>6, <2>7, <2>8
<1>5. CASE start_ssl_handshake
  <2>1. strand # <<>> /\ Head(strand) = "start_ssl_handshake" /\ job.pc = "idle"
    BY <1>5 DEF start_ssl_handshake, runs
  <2>2. Moved({}, {"start_ssl_handshake"}) /\ job' = Idle
    BY Zenon, <1>5, <1>t, <2>1, MovedFinish DEF start_ssl_handshake, finish
  <2>a. SessionTypes'
    BY <1>5, <2>1, <2>2 DEF SessionTypes, Moved, start_ssl_handshake, writing, reading, shaking, ending, Idle
  <2>b. Fresh' /\ InJob' /\ Writing'
    BY <1>5, <2>1, <2>2 DEF SessionTypes, Fresh, InJob, Writing, SameHead, start_ssl_handshake, writing,
                            reading, ending, Idle
  <2>c. Reading'
    <3>1. reads' = reads /\ reader' = reader /\ (tls' = tls \/ tls' = "pending")
      BY <1>5 DEF start_ssl_handshake, reading
    <3>2. /\ posted("start_read")' = posted("start_read")
          /\ posted("start_ssl_handshake")' = posted("start_ssl_handshake") - 1
      BY <1>n, <2>2 DEF Moved, Moves
    <3> QED BY <1>n, <1>r, <3>1, <3>2 DEF Reading
  <2>d. Ending'
    BY <1>5, <1>n, <2>1, <2>2 DEF Ending, Moved, Moves, start_ssl_handshake, ending
  <2>e. Wakeup'
    BY <1>5, <1>n, <2>1, <2>2 DEF Wakeup, Moved, Moves, start_ssl_handshake, writing, ending
  <2> QED BY <2>a, <2>b, <2>c, <2>d, <2>e
<1>6. CASE start_read
  <2>1. strand # <<>> /\ Head(strand) = "start_read" /\ job.pc = "idle"
    BY <1>6 DEF start_read, runs
  <2>2. Moved({}, {"start_read"}) /\ job' = Idle
    BY Zenon, <1>6, <1>t, <2>1, MovedFinish DEF start_read, finish
  <2>a. SessionTypes'
    BY <1>6, <2>1, <2>2 DEF SessionTypes, Moved, start_read, writing, shaking, ending, Idle
  <2>b. Fresh' /\ InJob' /\ Writing'
    BY <1>6, <2>1, <2>2 DEF SessionTypes, Fresh, InJob, Writing, SameHead, start_read, writing, ending, Idle
  <2>c. Reading'
    <3>1. (reads' = reads \/ reads' = reads + 1) /\ reader' = reader /\ tls' = tls
      BY <1>6 DEF start_read
    <3>2. /\ posted("start_read")' = posted("start_read") - 1
          /\ posted("start_ssl_handshake")' = posted("start_ssl_handshake")
      BY <1>n, <2>2 DEF Moved, Moves
    <3> QED BY <1>n, <1>r, <3>1, <3>2 DEF Reading
  <2>d. Ending'
    BY <1>6, <1>n, <2>1, <2>2 DEF Ending, Moved, Moves, start_read, ending
  <2>e. Wakeup'
    BY <1>6, <1>n, <2>1, <2>2 DEF Wakeup, Moved, Moves, start_read, writing, ending
  <2> QED BY <2>a, <2>b, <2>c, <2>d, <2>e
<1>7. CASE WriteNothing
  <2>1. strand # <<>> /\ Head(strand) = "start_write" /\ job.pc = "idle"
    BY <1>7 DEF WriteNothing, runs
  <2>2. Moved({}, {"start_write"}) /\ job' = Idle
    BY Zenon, <1>7, <1>t, <2>1, MovedFinish DEF WriteNothing, finish
  <2>a. SessionTypes'
    BY <1>7, <2>1, <2>2 DEF SessionTypes, Moved, WriteNothing, writing, reading, shaking, ending, Idle
  <2>b. Fresh' /\ InJob' /\ Writing'
    BY <1>7, <2>1, <2>2 DEF SessionTypes, Fresh, InJob, Writing, SameHead, WriteNothing, writing, reading,
                            ending, Idle
  <2>c. Reading'
    BY <1>7, <1>n, <1>r, <2>1, <2>2 DEF Reading, Moved, Moves, WriteNothing, reading, Idle
  <2>d. Ending'
    BY <1>7, <1>n, <2>1, <2>2 DEF Ending, Moved, Moves, WriteNothing, ending
  <2>e. Wakeup'
    BY <1>7, <1>n, <2>1, <2>2 DEF Wakeup, Moved, Moves, WriteNothing, writing, ending
  <2> QED BY <2>a, <2>b, <2>c, <2>d, <2>e
<1>8. CASE WriteRest
  <2>1. strand # <<>> /\ Head(strand) = "start_write" /\ job.pc = "idle"
    BY <1>8 DEF WriteRest, runs
  <2>2. Moved({}, {"start_write"}) /\ job' = Idle
    BY Zenon, <1>8, <1>t, <2>1, MovedFinish DEF WriteRest, finish
  <2>a. SessionTypes'
    BY <1>8, <2>1, <2>2 DEF SessionTypes, Moved, WriteRest, may_write, begin_write, reading, shaking, ending, Idle
  <2>b. Fresh' /\ InJob' /\ Writing'
    BY <1>8, <2>1, <2>2 DEF SessionTypes, Fresh, InJob, Writing, SameHead, WriteRest, may_write, begin_write,
                            reading, ending, Idle
  <2>c. Reading'
    BY <1>8, <1>n, <1>r, <2>1, <2>2 DEF Reading, Moved, Moves, WriteRest, reading, Idle
  <2>d. Ending'
    <3>1. posted("on_stop_completed")' = posted("on_stop_completed")
      BY <1>n, <2>2 DEF Moved, Moves
    <3> QED BY <1>8, <3>1 DEF Ending, WriteRest, ending
  <2>e. Wakeup'
    BY <1>8, <1>n, <2>1, <2>2 DEF Wakeup, Moved, Moves, WriteRest, may_write, begin_write, ending
  <2> QED BY <2>a, <2>b, <2>c, <2>d, <2>e
<1>9. CASE TakeMessage
  <2>1. strand # <<>> /\ Head(strand) = "start_write" /\ Moved({}, {}) /\ strand' = strand
    BY <1>9, <1>t, MovedNone DEF TakeMessage, runs
  <2>2. job' = [pc |-> "validate", message |-> NoMessage, seen |-> handshake, parsed |-> 0]
    BY Zenon, <1>9 DEF TakeMessage, Idle
  <2>a. SessionTypes'
    BY <1>9, <2>1, <2>2 DEF SessionTypes, Moved, TakeMessage, may_write, reading, shaking, ending
  <2>b. Fresh' /\ InJob' /\ Writing'
    BY <1>9, <2>1, <2>2 DEF SessionTypes, Fresh, InJob, Writing, SameHead, TakeMessage, may_write, reading,
                            ending
  <2>c. Reading'
    BY <1>9, <1>n, <1>r, <2>1, <2>2 DEF Reading, Moved, Moves, TakeMessage, reading
  <2>d. Ending'
    BY <1>9, <1>n, <2>1, <2>2 DEF Ending, Moved, Moves, TakeMessage, ending
  <2>e. Wakeup'
    BY <1>9, <1>n, <2>1, <2>2 DEF Wakeup, Moved, Moves, TakeMessage, may_write, ending
  <2> QED BY <2>a, <2>b, <2>c, <2>d, <2>e
<1>10. CASE WriteMessage
  <2>1. strand # <<>> /\ Head(strand) = "start_write" /\ job.pc = "validate" /\ is_writing /\ writes = 0
    BY <1>10 DEF InJob, WriteMessage
  <2>2. CASE is_writing' = FALSE /\ finish(<<"stop">>) /\ UNCHANGED <<shaking, writes>>
    <3>1. Moved({"stop"}, {"start_write"}) /\ job' = Idle
      BY ZenonT(30), <1>t, <2>1, <2>2, MovedFinishOne, Names DEF finish
    <3>2. UNCHANGED <<tls, requests, queue, reading, ending>>
      BY <1>10 DEF WriteMessage
    <3>3. posted("start_write") > 0
      BY <1>t, <2>1, HeadPosted
    <3>a. SessionTypes'
      BY <2>1, <2>2, <3>1, <3>2 DEF SessionTypes, Moved, reading, shaking, ending, Idle
    <3>b. Fresh' /\ InJob' /\ Writing'
      BY <2>1, <2>2, <3>1, <3>2 DEF SessionTypes, Fresh, InJob, Writing, SameHead, reading, ending, Idle
    <3>c. Reading'
      BY <1>n, <1>r, <2>1, <2>2, <3>1, <3>2 DEF Reading, Moved, Moves, reading, Idle
    <3>d. Ending'
      BY <1>n, <2>1, <2>2, <3>1, <3>2 DEF Ending, Moved, Moves, ending
    <3>e. Wakeup'
      BY <1>n, <2>1, <2>2, <3>1, <3>2, <3>3 DEF Wakeup, Moved, Moves, ending
    <3> QED BY <3>a, <3>b, <3>c, <3>d, <3>e
  <2>3. CASE /\ exchange_status(job.seen, Flag("out", barrel.message.type)) /\ writes' = writes + 1
             /\ finish(completed_jobs) /\ UNCHANGED is_writing
    <3>1. Moved({}, {"start_write"}) /\ job' = Idle
      <4>1. CASE completed_jobs = <<>>
        BY Zenon, <1>t, <2>1, <2>3, <4>1, MovedFinish DEF finish
      <4>2. CASE completed_jobs = <<"on_handshake_completed">>
        BY <1>t, <2>1, <2>3, <4>2, MovedFinishOne, Names DEF finish, Moved, Moves
      <4> QED BY <4>1, <4>2 DEF completed_jobs
    <3>2. handshake' \subseteq kCompleted
      BY <1>t, <2>3, HandshakeType DEF SessionTypes
    <3>a. SessionTypes'
      BY <1>10, <2>1, <2>3, <3>1, <3>2 DEF SessionTypes, Moved, WriteMessage, reading, ending, Idle
    <3>b. Fresh' /\ InJob' /\ Writing'
      BY <1>10, <2>1, <2>3, <3>1, <3>2 DEF SessionTypes, Fresh, InJob, Writing, SameHead, WriteMessage,
                                           reading, ending, Idle
    <3>c. Reading'
      BY <1>10, <1>n, <1>r, <2>1, <2>3, <3>1, <3>2 DEF Reading, Moved, Moves, WriteMessage, reading,
                                                 Idle
    <3>d. Ending'
      BY <1>10, <1>n, <2>1, <2>3, <3>1, <3>2 DEF Ending, Moved, Moves, WriteMessage, ending
    <3>e. Wakeup'
      BY <1>10, <1>n, <2>1, <2>3, <3>1, <3>2 DEF Wakeup, Moved, Moves, WriteMessage, ending
    <3> QED BY <3>a, <3>b, <3>c, <3>d, <3>e
  <2> QED BY Zenon, <1>10, <2>2, <2>3 DEF WriteMessage, begin_write
<1>11. CASE on_handshake_completed
  <2>1. strand # <<>> /\ Head(strand) = "on_handshake_completed" /\ job.pc = "idle"
    BY <1>11 DEF on_handshake_completed, runs
  <2>2. CASE ~is_running /\ finish(<<>>)
    <3>1. Moved({}, {}) /\ job' = Idle
      BY <1>t, <2>1, <2>2, MovedFinish DEF finish, Moved, Moves
    <3>a. SessionTypes'
      BY <1>11, <2>1, <2>2, <3>1 DEF SessionTypes, Moved, on_handshake_completed, reading, shaking, ending, Idle
    <3>b. Fresh' /\ InJob' /\ Writing'
      BY <1>11, <2>1, <2>2, <3>1 DEF SessionTypes, Fresh, InJob, Writing, SameHead, on_handshake_completed,
                                     reading, ending, Idle
    <3>c. Reading'
      BY <1>11, <1>n, <1>r, <2>1, <2>2, <3>1 DEF Reading, Moved, Moves, on_handshake_completed,
                                           reading, Idle
    <3>d. Ending'
      BY <1>11, <1>n, <2>1, <2>2, <3>1 DEF Ending, Moved, Moves, on_handshake_completed, ending
    <3>e. Wakeup'
      BY <1>11, <1>n, <2>1, <2>2, <3>1 DEF Wakeup, Moved, Moves, on_handshake_completed, ending
    <3> QED BY <3>a, <3>b, <3>c, <3>d, <3>e
  <2>3. CASE job' = [Idle EXCEPT !.pc = "completed"]
    <3>1. ((Moved({}, {}) /\ queue' = queue) \/ Moved({"start_write"}, {})) /\ SameHead
      BY <1>11, <1>t, <2>1, <2>3, MovedNone, MovedPush DEF on_handshake_completed, finish, Idle
    <3>2. job' = [pc |-> "completed", message |-> NoMessage, seen |-> {}, parsed |-> 0]
      BY <2>3 DEF Idle
    <3>a. SessionTypes'
      BY <1>11, <2>1, <3>1, <3>2 DEF SessionTypes, Moved, on_handshake_completed, reading, shaking, ending
    <3>b. Fresh' /\ InJob' /\ Writing'
      BY <1>11, <2>1, <3>1, <3>2 DEF SessionTypes, Fresh, InJob, Writing, SameHead, on_handshake_completed,
                                     reading, ending
    <3>c. Reading'
      BY <1>11, <1>n, <1>r, <2>1, <3>1, <3>2 DEF Reading, Moved, Moves, on_handshake_completed, reading
    <3>d. Ending'
      BY <1>11, <1>n, <2>1, <3>1, <3>2 DEF Ending, Moved, Moves, on_handshake_completed, ending
    <3>e. Wakeup'
      BY <1>11, <1>n, <2>1, <3>1, <3>2 DEF Wakeup, Moved, Moves, on_handshake_completed, ending
    <3> QED BY <3>a, <3>b, <3>c, <3>d, <3>e
  <2> QED BY <1>11, <2>2, <2>3 DEF on_handshake_completed
<1>12. CASE StartPinging
  <2>1. strand # <<>> /\ Head(strand) = "on_handshake_completed" /\ job.pc = "completed"
    BY <1>12 DEF InJob, StartPinging
  <2>2. ((Moved({}, {}) /\ queue' = queue) \/ Moved({"start_write"}, {})) /\ job' = Idle
    BY <1>12, <1>t, <2>1, MovedFinish, MovedFinishOne, Names DEF StartPinging, finish, Moved, Moves
  <2>k. ((Tally(0, 0, 0) /\ queue' = queue) \/ Tally(0, 1, 0)) /\ job' = Idle
    BY <1>n, <2>2, Tallies
  <2>a. SessionTypes'
    BY <1>12, <2>1, <2>2 DEF SessionTypes, Moved, StartPinging, reading, shaking, ending, Idle
  <2>b. Fresh' /\ InJob' /\ Writing'
    BY <1>12, <2>1, <2>2 DEF SessionTypes, Fresh, InJob, Writing, SameHead, StartPinging, reading, ending, Idle
  <2>c. Reading'
    BY <1>12, <1>n, <1>r, <2>1, <2>k DEF Reading, Tally, StartPinging, reading, Idle
  <2>d. Ending'
    BY <1>12, <1>n, <2>1, <2>k DEF Ending, Tally, StartPinging, ending
  <2>e. Wakeup'
    BY <1>12, <1>n, <2>1, <2>k DEF Wakeup, Tally, StartPinging, ending
  <2> QED BY <2>a, <2>b, <2>c, <2>d, <2>e
<1>13. CASE MalformedMessage
  <2>1. Moved({"stop"}, {}) /\ SameHead /\ reader' = Idle
    BY <1>13, <1>t, MovedPost, Names DEF MalformedMessage, give_up
  <2>k. Tally(0, 0, 1) /\ reader' = Idle
    BY <1>n, <2>1, Tallies
  <2>a. SessionTypes'
    BY <1>13, <2>1, MessagesType DEF SessionTypes, Moved, MalformedMessage, writing, shaking, ending, Idle
  <2>b. Fresh' /\ InJob' /\ Writing'
    BY <1>13, <2>1 DEF SessionTypes, Fresh, InJob, Writing, SameHead, MalformedMessage, writing, ending, Idle
  <2>c. Reading'
    <3>1. reads' = reads /\ tls' = tls /\ reader.pc # "idle" /\ reader'.pc = "idle"
      BY <1>13, <2>1 DEF MalformedMessage, Idle
    <3> QED BY <1>n, <1>r, <2>k, <3>1 DEF Reading, Tally
  <2>d. Ending'
    BY <1>13, <1>n, <2>k DEF Ending, Tally, MalformedMessage, ending
  <2>e. Wakeup'
    BY <1>13, <1>n, <2>k DEF Wakeup, Tally, MalformedMessage, writing, ending
  <2> QED BY <2>a, <2>b, <2>c, <2>d, <2>e
<1>14. CASE AcceptMessage
  <2>1. reader.pc = "validate" /\ UNCHANGED <<job, tls, requests, writing, reads, ending>>
    BY <1>14 DEF AcceptMessage
  <2>2. (Moved({}, {}) \/ Moved({"stop"}, {})) /\ SameHead
    <3>1. CASE post(<<"stop">>)
      BY <1>t, <3>1, MovedPost, Names
    <3>2. CASE post(completed_jobs)
      <4>1. CASE completed_jobs = <<>>
        <5>1. strand' = strand
          BY <1>t, <3>2, <4>1 DEF SessionTypes, post
        <5> QED BY <1>t, <5>1, MovedNone
      <4>2. CASE completed_jobs = <<"on_handshake_completed">>
        <5>1. Moved({"on_handshake_completed"}, {}) /\ SameHead
          BY <1>t, <3>2, <4>2, MovedPost, Names
        <5> QED BY <5>1 DEF Moved, Moves
      <4> QED BY <4>1, <4>2 DEF completed_jobs
    <3>3. CASE post(completed_jobs \o <<"stop">>)
      <4>1. CASE completed_jobs = <<>>
        <5>1. post(<<"stop">>)
          BY <3>3, <4>1 DEF post
        <5> QED BY <1>t, <5>1, MovedPost, Names
      <4>2. CASE completed_jobs = <<"on_handshake_completed">>
        <5>1. post(<<"on_handshake_completed">> \o <<"stop">>)
          BY <3>3, <4>2
        <5>2. Moved({"on_handshake_completed", "stop"}, {}) /\ SameHead
          BY <1>t, <5>1, MovedPostBoth, Names
        <5> QED BY <5>2 DEF Moved, Moves
      <4> QED BY <4>1, <4>2 DEF completed_jobs
    <3> QED BY <1>14, <3>1, <3>2, <3>3 DEF AcceptMessage
  <2>3. handshake' \subseteq kCompleted
    <3>1. CASE exchange_status(reader.seen, Flag("in", reader.message.type))
      BY <1>t, <3>1, HandshakeType DEF SessionTypes
    <3>2. CASE UNCHANGED shaking
      BY <3>2 DEF SessionTypes, shaking
    <3> QED BY <1>14, <3>1, <3>2 DEF AcceptMessage
  <2>4. reader' = Idle \/ reader' = [reader EXCEPT !.pc = "process", !.seen = {}, !.parsed = @ + 1]
    BY <1>14 DEF AcceptMessage, give_up
  <2>5. reader' \in [pc : {"idle", "validate", "process", "verack", "notify", "next"}, message : Items,
                     seen : SUBSET kCompleted, parsed : Nat]
    <3>1. CASE reader' = Idle
      BY <3>1, MessagesType DEF Idle
    <3>2. CASE reader' = [reader EXCEPT !.pc = "process", !.seen = {}, !.parsed = @ + 1]
      <4>1. reader' = [pc |-> "process", message |-> reader.message, seen |-> {}, parsed |-> reader.parsed + 1]
        BY Zenon, <3>2 DEF SessionTypes
      <4> QED BY <4>1 DEF SessionTypes
    <3> QED BY <2>4, <3>1, <3>2
  <2>k. Tally(0, 0, 0) \/ Tally(0, 0, 1)
    BY <1>n, <2>2, Tallies
  <2>a. SessionTypes'
    BY <2>1, <2>2, <2>3, <2>5 DEF SessionTypes, Moved, writing, ending
  <2>b. Fresh' /\ InJob' /\ Writing'
    BY <2>1, <2>2, <2>3, <2>5 DEF SessionTypes, Fresh, InJob, Writing, SameHead, writing, ending
  <2>c. Reading'
    BY <1>n, <1>r, <2>1, <2>k, <2>3, <2>5 DEF Reading, Tally
  <2>d. Ending'
    BY <1>n, <2>1, <2>k, <2>3, <2>5 DEF Ending, Tally, ending
  <2>e. Wakeup'
    BY <1>n, <2>1, <2>k, <2>3, <2>5 DEF Wakeup, Tally, writing, ending
  <2> QED BY <2>a, <2>b, <2>c, <2>d, <2>e
<1>15. CASE ProcessMessage
  <2>1. reader.pc = "process" /\ UNCHANGED <<job, tls, requests, barrel, is_writing, writes, reads, shaking, ending>>
    BY <1>15 DEF ProcessMessage
  <2>2. /\ ((Moved({"stop"}, {}) \/ Moved({}, {})) /\ queue' = queue) \/ Moved({"start_write"}, {})
        /\ SameHead
    <3>1. CASE post(<<"stop">>) /\ UNCHANGED queue
      BY <1>t, <3>1, MovedPost, Names
    <3>2. CASE push_message(answer(reader.message))
      BY <1>t, <3>2, MovedPush
    <3> QED BY <1>15, <3>1, <3>2 DEF ProcessMessage
  <2>3. reader' \in [pc : {"idle", "validate", "process", "verack", "notify", "next"}, message : Items,
                     seen : SUBSET kCompleted, parsed : Nat]
    <3>1. reader' = Idle \/ reader' = NextMessage
          \/ \E pc \in {"verack", "notify"} : reader' = [reader EXCEPT !.pc = pc]
      BY <1>15 DEF ProcessMessage, give_up
    <3>2. CASE reader' = Idle
      BY <3>2, MessagesType DEF Idle
    <3>3. CASE reader' = NextMessage
      BY Zenon, <3>3, MessagesType DEF SessionTypes, NextMessage
    <3>4. ASSUME NEW pc \in {"verack", "notify"}, reader' = [reader EXCEPT !.pc = pc]
          PROVE  reader' \in [pc : {"idle", "validate", "process", "verack", "notify", "next"}, message : Items,
                              seen : SUBSET kCompleted, parsed : Nat]
      BY Zenon, <3>4 DEF SessionTypes
    <3> QED BY <3>1, <3>2, <3>3, <3>4
  <2>k. ((Tally(0, 0, 1) \/ Tally(0, 0, 0)) /\ queue' = queue) \/ Tally(0, 1, 0)
    BY <1>n, <2>2, Tallies
  <2>a. SessionTypes'
    <3>1. strand' \in Seq(JobNames)
      BY <2>2 DEF Moved
    <3> QED BY <2>1, <2>3, <3>1 DEF SessionTypes, shaking, ending
  <2>b. Fresh' /\ InJob' /\ Writing'
    BY <2>1, <2>2, <2>3 DEF SessionTypes, Fresh, InJob, Writing, SameHead, ending
  <2>c. Reading'
    BY <1>n, <1>r, <2>1, <2>k, <2>3 DEF Reading, Tally
  <2>d. Ending'
    BY <1>n, <2>1, <2>k, <2>3 DEF Ending, Tally, ending
  <2>e. Wakeup'
    BY <1>n, <2>1, <2>k, <2>3 DEF Wakeup, Tally, ending
  <2> QED BY <2>a, <2>b, <2>c, <2>d, <2>e
<1>16. CASE AcknowledgeVersion
  <2>1. ((Moved({}, {}) /\ queue' = queue) \/ Moved({"start_write"}, {})) /\ SameHead
    BY <1>16, <1>t, MovedPush DEF AcknowledgeVersion
  <2>k. (Tally(0, 0, 0) /\ queue' = queue) \/ Tally(0, 1, 0)
    BY <1>n, <2>1, Tallies
  <2>a. SessionTypes'
    BY Zenon, <1>16, <2>1 DEF SessionTypes, Moved, AcknowledgeVersion, shaking, ending
  <2>b. Fresh' /\ InJob' /\ Writing'
    BY <1>16, <2>1 DEF SessionTypes, Fresh, InJob, Writing, SameHead, AcknowledgeVersion, ending
  <2>c. Reading'
    BY <1>16, <1>n, <1>r, <2>k DEF Reading, Tally, AcknowledgeVersion
  <2>d. Ending'
    BY <1>16, <1>n, <2>k DEF Ending, Tally, AcknowledgeVersion, ending
  <2>e. Wakeup'
    BY <1>16, <1>n, <2>k DEF Wakeup, Tally, AcknowledgeVersion, ending
  <2> QED BY <2>a, <2>b, <2>c, <2>d, <2>e
<1>17. CASE NotifyHub
  <2>1. ((Moved({}, {}) /\ queue' = queue) \/ Moved({"start_write"}, {})) /\ SameHead
    BY <1>17, <1>t, MovedPush DEF NotifyHub
  <2>2. reader.pc = "notify" /\ reader' = NextMessage /\ requests' \in Nat
        /\ UNCHANGED <<job, tls, barrel, is_writing, writes, reads, shaking, ending>>
    BY <1>17 DEF SessionTypes, NotifyHub
  <2>k. (Tally(0, 0, 0) /\ queue' = queue) \/ Tally(0, 1, 0)
    BY <1>n, <2>1, Tallies
  <2>a. SessionTypes'
    BY Zenon, <2>1, <2>2, MessagesType DEF SessionTypes, Moved, NextMessage, shaking, ending
  <2>b. Fresh' /\ InJob' /\ Writing'
    BY <2>1, <2>2 DEF SessionTypes, Fresh, InJob, Writing, SameHead, NextMessage, ending
  <2>c. Reading'
    BY <1>n, <1>r, <2>k, <2>2 DEF Reading, Tally, NextMessage
  <2>d. Ending'
    BY <1>n, <2>k, <2>2 DEF Ending, Tally, NextMessage, ending
  <2>e. Wakeup'
    BY <1>n, <2>k, <2>2 DEF Wakeup, Tally, NextMessage, ending
  <2> QED BY <2>a, <2>b, <2>c, <2>d, <2>e
<1>18. CASE EndRead
  <2>1. Moved({"start_read"}, {}) /\ SameHead
    BY <1>18, <1>t, MovedPost, Names DEF EndRead
  <2>k. Tally(1, 0, 0)
    BY <1>n, <2>1, Tallies
  <2>a. SessionTypes'
    BY <1>18, <2>1, MessagesType DEF SessionTypes, Moved, EndRead, writing, shaking, ending, Idle
  <2>b. Fresh' /\ InJob' /\ Writing'
    BY <1>18, <2>1 DEF SessionTypes, Fresh, InJob, Writing, SameHead, EndRead, writing, ending, Idle
  <2>c. Reading'
    BY <1>18, <1>n, <1>r, <2>k DEF Reading, Tally, EndRead, Idle
  <2>d. Ending'
    BY <1>18, <1>n, <2>k DEF Ending, Tally, EndRead, ending
  <2>e. Wakeup'
    BY <1>18, <1>n, <2>k DEF Wakeup, Tally, EndRead, writing, ending
  <2> QED BY <2>a, <2>b, <2>c, <2>d, <2>e
<1>19. CASE handle_ssl_handshake
  <2>1. (Moved({"stop"}, {}) \/ Moved({}, {})) /\ SameHead
    BY <1>19, <1>t, MovedPost, MovedNone, Names DEF handle_ssl_handshake
  <2>k. Tally(0, 0, 1) \/ Tally(0, 0, 0)
    BY <1>n, <2>1, Tallies
  <2>a. SessionTypes'
    BY <1>19, <2>1 DEF SessionTypes, Moved, handle_ssl_handshake, writing, shaking, ending
  <2>b. Fresh' /\ InJob' /\ Writing'
    BY <1>19, <2>1 DEF SessionTypes, Fresh, InJob, Writing, SameHead, handle_ssl_handshake, writing, ending
  <2>c. Reading'
    <3>1. (reads' = reads \/ reads' = reads + 1) /\ reader' = reader /\ tls = "pending" /\ tls' # "pending"
      BY <1>19 DEF handle_ssl_handshake
    <3> QED BY <1>n, <1>r, <2>k, <3>1 DEF Reading, Tally
  <2>d. Ending'
    BY <1>19, <1>n, <2>k DEF Ending, Tally, handle_ssl_handshake, ending
  <2>e. Wakeup'
    BY <1>19, <1>n, <2>k DEF Wakeup, Tally, handle_ssl_handshake, writing, ending
  <2> QED BY <2>a, <2>b, <2>c, <2>d, <2>e
<1>20. CASE PresentAfterTls
  <2>1. ((Moved({}, {}) /\ queue' = queue) \/ Moved({"start_write"}, {})) /\ SameHead
    BY <1>20, <1>t, MovedPush DEF PresentAfterTls
  <2>k. (Tally(0, 0, 0) /\ queue' = queue) \/ Tally(0, 1, 0)
    BY <1>n, <2>1, Tallies
  <2>a. SessionTypes'
    BY <1>20, <2>1 DEF SessionTypes, Moved, PresentAfterTls, reading, shaking, ending
  <2>b. Fresh' /\ InJob' /\ Writing'
    BY <1>20, <2>1 DEF SessionTypes, Fresh, InJob, Writing, SameHead, PresentAfterTls, reading, ending
  <2>c. Reading'
    BY <1>20, <1>n, <1>r, <2>k DEF Reading, Tally, PresentAfterTls, reading
  <2>d. Ending'
    BY <1>20, <1>n, <2>k DEF Ending, Tally, PresentAfterTls, ending
  <2>e. Wakeup'
    BY <1>20, <1>n, <2>k DEF Wakeup, Tally, PresentAfterTls, ending
  <2> QED BY <2>a, <2>b, <2>c, <2>d, <2>e
<1>21. CASE HandleWrite
  <2>1. /\ (Moved({}, {}) /\ ~is_running) \/ Moved({"stop"}, {}) \/ Moved({"start_write"}, {})
        /\ SameHead
    BY <1>21, <1>t, MovedPost, MovedNone, Names DEF HandleWrite, written
  <2>k. (Tally(0, 0, 0) /\ ~is_running) \/ Tally(0, 0, 1) \/ Tally(0, 1, 0)
    BY <1>n, <2>1, Tallies
  <2>a. SessionTypes'
    BY <1>21, <2>1 DEF SessionTypes, Moved, HandleWrite, reading, shaking, ending
  <2>b. Fresh' /\ InJob' /\ Writing'
    BY <1>21, <2>1 DEF SessionTypes, Fresh, InJob, Writing, SameHead, HandleWrite, reading, ending
  <2>c. Reading'
    BY <1>21, <1>n, <1>r, <2>k DEF Reading, Tally, HandleWrite, reading
  <2>d. Ending'
    BY <1>21, <1>n, <2>k DEF Ending, Tally, HandleWrite, ending
  <2>e. Wakeup'
    BY <1>21, <1>n, <2>k DEF Wakeup, Tally, HandleWrite, ending
  <2> QED BY <2>a, <2>b, <2>c, <2>d, <2>e
<1>22. CASE ReadNothing
  <2>1. (Moved({"stop"}, {}) \/ Moved({}, {})) /\ SameHead
    BY <1>22, <1>t, MovedPost, MovedNone, Names DEF ReadNothing
  <2>k. Tally(0, 0, 1) \/ Tally(0, 0, 0)
    BY <1>n, <2>1, Tallies
  <2>a. SessionTypes'
    BY <1>22, <2>1 DEF SessionTypes, Moved, ReadNothing, writing, shaking, ending
  <2>b. Fresh' /\ InJob' /\ Writing'
    BY <1>22, <2>1 DEF SessionTypes, Fresh, InJob, Writing, SameHead, ReadNothing, writing, ending
  <2>c. Reading'
    BY <1>22, <1>n, <1>r, <2>k DEF Reading, Tally, ReadNothing
  <2>d. Ending'
    BY <1>22, <1>n, <2>k DEF Ending, Tally, ReadNothing, ending
  <2>e. Wakeup'
    BY <1>22, <1>n, <2>k DEF Wakeup, Tally, ReadNothing, writing, ending
  <2> QED BY <2>a, <2>b, <2>c, <2>d, <2>e
<1>23. CASE HubAnswer
  <2>1. ((Moved({}, {}) /\ queue' = queue) \/ Moved({"start_write"}, {})) /\ SameHead
    BY <1>23, <1>t, MovedPush DEF HubAnswer
  <2>k. (Tally(0, 0, 0) /\ queue' = queue) \/ Tally(0, 1, 0)
    BY <1>n, <2>1, Tallies
  <2>a. SessionTypes'
    BY <1>23, <2>1 DEF SessionTypes, Moved, HubAnswer, reading, shaking, ending
  <2>b. Fresh' /\ InJob' /\ Writing'
    BY <1>23, <2>1 DEF SessionTypes, Fresh, InJob, Writing, SameHead, HubAnswer, reading, ending
  <2>c. Reading'
    BY <1>23, <1>n, <1>r, <2>k DEF Reading, Tally, HubAnswer, reading
  <2>d. Ending'
    BY <1>23, <1>n, <2>k DEF Ending, Tally, HubAnswer, ending
  <2>e. Wakeup'
    BY <1>23, <1>n, <2>k DEF Wakeup, Tally, HubAnswer, ending
  <2> QED BY <2>a, <2>b, <2>c, <2>d, <2>e
<1>24. CASE PingTimerExpired
  <2>1. ((Moved({}, {}) /\ queue' = queue) \/ Moved({"start_write"}, {})) /\ SameHead
    BY <1>24, <1>t, MovedPush DEF PingTimerExpired
  <2>k. (Tally(0, 0, 0) /\ queue' = queue) \/ Tally(0, 1, 0)
    BY <1>n, <2>1, Tallies
  <2>a. SessionTypes'
    BY <1>24, <2>1 DEF SessionTypes, Moved, PingTimerExpired, may_ping, reading, shaking, ending
  <2>b. Fresh' /\ InJob' /\ Writing'
    BY <1>24, <2>1 DEF SessionTypes, Fresh, InJob, Writing, SameHead, PingTimerExpired, may_ping, reading,
                       ending
  <2>c. Reading'
    BY <1>24, <1>n, <1>r, <2>k DEF Reading, Tally, PingTimerExpired, may_ping, reading
  <2>d. Ending'
    BY <1>24, <1>n, <2>k DEF Ending, Tally, PingTimerExpired, may_ping, ending
  <2>e. Wakeup'
    BY <1>24, <1>n, <2>k DEF Wakeup, Tally, PingTimerExpired, may_ping, ending
  <2> QED BY <2>a, <2>b, <2>c, <2>d, <2>e
<1>25. CASE RecordNonce \/ UNCHANGED vars
  <2>1. UNCHANGED <<strand, job, tls, requests, queue, barrel, is_writing, writes, reads, reader, handshake, status,
                    is_open, disconnects>>
    BY <1>25 DEF RecordNonce, vars, writing, reading, shaking, ending
  <2>2. \A x : posted(x)' = posted(x)
    BY <2>1, Kept
  <2> QED BY <2>1, <2>2 DEF SessionTypes, Fresh, InJob, Writing, Reading, Ending, Wakeup
<1>26. ASSUME NEW m \in Messages, ReadMessage(m) PROVE IInv'
  <2>1. Moved({}, {}) /\ SameHead
    BY <1>26, <1>t, MovedNone DEF ReadMessage
  <2>2. reader' \in [pc : {"validate"}, message : Items, seen : SUBSET kCompleted, parsed : Nat]
    BY Zenon, <1>26, MessagesType DEF SessionTypes, ReadMessage
  <2>a. SessionTypes'
    BY <1>26, <2>1, <2>2 DEF SessionTypes, Moved, ReadMessage, writing, shaking, ending
  <2>b. Fresh' /\ InJob' /\ Writing'
    BY <1>26, <2>1, <2>2 DEF SessionTypes, Fresh, InJob, Writing, SameHead, ReadMessage, writing, ending
  <2>c. Reading'
    BY <1>26, <1>n, <1>r, <2>1, <2>2 DEF Reading, Moved, Moves, ReadMessage
  <2>d. Ending'
    BY <1>26, <1>n, <2>1, <2>2 DEF Ending, Moved, Moves, ReadMessage, ending
  <2>e. Wakeup'
    BY <1>26, <1>n, <2>1, <2>2 DEF Wakeup, Moved, Moves, ReadMessage, writing, ending
  <2> QED BY <2>a, <2>b, <2>c, <2>d, <2>e
<1> QED
  <2> USE <1>1, <1>2, <1>3, <1>4, <1>5, <1>6, <1>7, <1>8, <1>9, <1>10, <1>11, <1>12, <1>13, <1>14, <1>15, <1>16, <1>17,
          <1>18, <1>19, <1>20, <1>21, <1>22, <1>23, <1>24, <1>25, <1>26
  <2> HIDE DEF IInv
  <2> QED BY DEF Next, StrandStep, ReaderStep

\* The inductive invariant of a session, from its construction to the report of its end (node.cpp:60-136).
THEOREM SessionInvariant == Spec => []IInv
  BY InitIInv, NextIInv, PTL DEF Spec

\* node.cpp:203 and 257: reads and writes do not overlap, with handlers on the strand and beside it.
THEOREM OperationsDoNotOverlap == Spec => []OneOperationEach
<1>1. IInv => OneOperationEach
  <2> SUFFICES ASSUME IInv PROVE OneOperationEach
    OBVIOUS
  <2>1. SessionTypes /\ posted("start_read") \in Nat /\ posted("start_ssl_handshake") \in Nat
    BY PostedType DEF IInv
  <2> QED BY <2>1 DEF IInv, SessionTypes, Writing, Reading, OneOperationEach
<1> QED BY <1>1, SessionInvariant, PTL

\* node.cpp:239 and 257: no queued message is left without a job or an operation that will look at it.
THEOREM NothingLeftBehind == Spec => []WakeupPending
<1>1. IInv => WakeupPending
  <2> SUFFICES ASSUME IInv, posted("start_write") + posted("stop") > 0
               PROVE  \E i \in DOMAIN strand : strand[i] \in {"start_write", "stop"}
    BY DEF IInv, Wakeup, WakeupPending
  <2>1. posted("start_write") \in Nat /\ posted("stop") \in Nat /\ strand \in Seq(JobNames)
    BY PostedType DEF IInv, SessionTypes
  <2>2. CASE posted("start_write") > 0
    <3>1. \E i \in DOMAIN strand : strand[i] = "start_write"
      BY <2>1, <2>2, PostedCount, CountPositive
    <3> QED BY <3>1
  <2>3. CASE posted("stop") > 0
    <3>1. \E i \in DOMAIN strand : strand[i] = "stop"
      BY <2>1, <2>3, PostedCount, CountPositive
    <3> QED BY <3>1
  <2> QED BY <2>1, <2>2, <2>3
<1> QED BY <1>1, SessionInvariant, PTL

\* node.cpp:100-136: the end of a session is reported at most once, when its socket is closed, however
\* often and by whomever it is stopped.
THEOREM EndIsReportedOnce == Spec => []EndsOnce
<1>1. IInv => EndsOnce
  BY DEF IInv, Ending, EndsOnce
<1> QED BY <1>1, SessionInvariant, PTL

\* A session that was only constructed is new in the contract.
LEMMA ContractInit == Init => Contract!Init
  BY DEF Init, Contract!Init, phase

\* The steps that matter to the contract.
LEMMA ContractKinds ==
    IInv /\ [Next]_vars =>
        \/ UNCHANGED <<status, is_open, disconnects, requests>>
        \/ Start \/ HubStop \/ StrandStop \/ on_stop_completed \/ NotifyHub \/ HubAnswer
<1> SUFFICES ASSUME [Next]_vars, ~Start, ~HubStop, ~StrandStop, ~on_stop_completed, ~NotifyHub, ~HubAnswer
             PROVE  UNCHANGED <<status, is_open, disconnects, requests>>
  OBVIOUS
<1>1. CASE StrandStep
  BY Zenon, <1>1 DEF StrandStep, start_ssl_handshake, start_read, WriteNothing, WriteRest, TakeMessage, WriteMessage,
              on_handshake_completed, StartPinging, ending
<1>2. CASE ReaderStep \/ \E m \in Messages : ReadMessage(m)
  BY Zenon, <1>2 DEF ReaderStep, MalformedMessage, AcceptMessage, ProcessMessage, AcknowledgeVersion, EndRead,
              ReadMessage, ending
<1>3. CASE handle_ssl_handshake \/ PresentAfterTls \/ HandleWrite \/ ReadNothing \/ PingTimerExpired \/ RecordNonce
           \/ UNCHANGED vars
  BY <1>3 DEF handle_ssl_handshake, PresentAfterTls, HandleWrite, ReadNothing, PingTimerExpired, RecordNonce,
              vars, ending
<1> QED BY <1>1, <1>2, <1>3 DEF Next

\* node.cpp:100-136: a session implements the safety part of SessionContract: it is started once, it hands
\* requests to the hub only while it runs, and its end is reported once and with the socket closed.
THEOREM SessionImplementsContract == Spec => Contract!Spec
<1>1. IInv /\ [Next]_vars => [Contract!Next]_(Contract!vars)
  <2> SUFFICES ASSUME IInv, [Next]_vars PROVE Contract!Next \/ UNCHANGED Contract!vars
    OBVIOUS
  <2> USE DEF Contract!vars, phase, is_running
  <2>1. CASE UNCHANGED <<status, is_open, disconnects, requests>>
    BY <2>1
  <2>2. CASE Start
    BY <2>2 DEF Start, Contract!Next, Contract!Start
  <2>3. CASE HubStop
    BY <2>3 DEF HubStop, stopping, Contract!Next, Contract!Stop
  <2>4. CASE StrandStop
    BY <2>4 DEF StrandStop, stopping, Contract!Next, Contract!Stop
  <2>5. CASE on_stop_completed
    <3>1. strand # <<>> /\ Head(strand) = "on_stop_completed"
      BY <2>5 DEF on_stop_completed, runs
    <3>2. posted("on_stop_completed") > 0
      BY <3>1, HeadPosted DEF IInv
    <3>3. status = "kStopping" /\ disconnects = 0
      BY <3>2 DEF IInv, Ending
    <3> QED BY <2>5, <3>3 DEF on_stop_completed, Contract!Next, Contract!End
  <2>6. CASE NotifyHub
    <3>1. UNCHANGED <<status, is_open, disconnects>>
          /\ (requests' = requests \/ (is_running /\ requests' = requests + 1))
      BY <2>6 DEF NotifyHub, told, ending
    <3> QED BY <3>1 DEF Contract!Next, Contract!Request
  <2>7. CASE HubAnswer
    <3>1. UNCHANGED <<status, is_open, disconnects>> /\ requests > 0 /\ requests' = requests - 1
      BY <2>7 DEF HubAnswer, ending
    <3> QED BY <3>1 DEF Contract!Next, Contract!Process
  <2> QED BY <2>1, <2>2, <2>3, <2>4, <2>5, <2>6, <2>7, ContractKinds
<1> QED BY <1>1, ContractInit, SessionInvariant, PTL DEF Spec, Contract!Spec
=============================================================================
