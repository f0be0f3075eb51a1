------------------------------ MODULE Database ------------------------------
(***************************************************************************)
(* infra/database: the progress of the stages of synchronisation in a      *)
(* transaction a stage owns or is lent, the cursors and the pool of their  *)
(* handles.  libmdbx is external: the committed data survive a crash, a    *)
(* transaction sees its own writes, and a cursor whose transaction ended   *)
(* is unbound.                                                             *)
(***************************************************************************)
EXTENDS Integers, FiniteSets, SequencesExt

CONSTANTS Stages,      \* kAllStages, in the order they run
          MaxBlock,    \* bound on the progress
          Cursors,     \* Cursor objects of a thread
          MaxHandles   \* bound on the handles created

\* The stages have different names (stages.hpp 25-42).
ASSUME DatabaseAssumption ==
    /\ Stages \in Seq(Range(Stages)) /\ IsInjective(Stages)
    /\ MaxHandles \in Nat

VARIABLES committed,   \* [stage -> block] of kSyncStageProgress
          txn,         \* [kind, data, next]: next: the position of the stage to run
          cursor,      \* [cursor -> handle], 0: none
          handles_pool_,
          bound        \* [handle -> "new" (not created), "closed", "unbound" or its transaction]

databaseVars == <<committed, txn, cursor, handles_pool_, bound>>
stageVars == <<committed, txn>>
cursorVars == <<cursor, handles_pool_, bound>>

-----------------------------------------------------------------------------
(* Transactions and stages.                                                *)

NoTxn == [kind |-> "none", data |-> [s \in Range(Stages) |-> 0], next |-> 1]

\* The stages run in a transaction of their own, or in one of the caller.
Begin(kind) ==
    /\ txn.kind = "none"
    /\ txn' = [kind |-> kind, data |-> committed, next |-> 1]
    /\ committed' = committed

\* read_stage_progress and write_stage_progress in the transaction.
update_progress(data, stage) == [data EXCEPT ![stage] = @ + 1]

\* Mutant of commits: an external transaction is committed too.
commits_always == TRUE

\* Whether RWTxn::commit reaches the database.
commits == txn.kind = "managed"

\* The stage moves one block forward and commits, which renews the transaction.
Forward ==
    /\ txn.kind # "none" /\ txn.next <= Len(Stages)
    /\ LET stage == Stages[txn.next]
           data == update_progress(txn.data, stage)
       IN  /\ data[stage] <= MaxBlock
           /\ txn' = [txn EXCEPT !.data = data, !.next = @ + 1]
           /\ committed' = IF commits THEN data ELSE committed

\* throw_if_stopping, an error of the stage, or a crash: the transaction is aborted.
Abort ==
    /\ txn.kind # "none"
    /\ txn' = NoTxn
    /\ committed' = committed

\* The caller commits its own transaction after the last stage.
CallerCommits ==
    /\ txn.kind # "none" /\ txn.next > Len(Stages)
    /\ committed' = txn.data
    /\ txn' = NoTxn

-----------------------------------------------------------------------------
(* Cursors and their pooled handles.                                       *)

Txns == {"rw", "ro"}

\* mdbx_cursor_create.
Create(h) == h \in DOMAIN bound /\ bound[h] = "new"

\* The handle a cursor ends with: another one when its own is bound to
\* another live transaction.
bind(h, t, as) ==
    IF bound[h] \in {"unbound", "new", t}
        THEN as = h /\ bound' = [bound EXCEPT ![h] = t]
        ELSE Create(as) /\ bound' = [bound EXCEPT ![h] = "closed", ![as] = t]

\* The constructor takes the last handle put in the pool, or creates one.
OpenCursor(c, t) ==
    /\ cursor[c] = 0
    /\ \E h, as \in DOMAIN bound :
           /\ IF handles_pool_ = <<>> THEN Create(h) ELSE h = Last(handles_pool_)
           /\ handles_pool_' = IF handles_pool_ = <<>> THEN <<>> ELSE Front(handles_pool_)
           /\ bind(h, t, as)
           /\ cursor' = [cursor EXCEPT ![c] = as]

Rebind(c, t) ==
    /\ cursor[c] # 0
    /\ \E as \in DOMAIN bound : bind(cursor[c], t, as) /\ cursor' = [cursor EXCEPT ![c] = as]
    /\ UNCHANGED handles_pool_

\* Move assignment swaps the handles.
moved(c, d) == [cursor EXCEPT ![c] = cursor[d], ![d] = cursor[c]]

MoveCursor(c, d) ==
    /\ c # d
    /\ cursor' = moved(c, d)
    /\ UNCHANGED <<handles_pool_, bound>>

CloseCursor(c) ==
    /\ cursor[c] # 0
    /\ bound' = [bound EXCEPT ![cursor[c]] = "closed"]
    /\ cursor' = [cursor EXCEPT ![c] = 0]
    /\ UNCHANGED handles_pool_

DestroyCursor(c) ==
    /\ cursor[c] # 0
    /\ handles_pool_' = Append(handles_pool_, cursor[c])
    /\ cursor' = [cursor EXCEPT ![c] = 0]
    /\ UNCHANGED bound

\* A transaction ends, or is renewed: its cursors are unbound.
EndTxn(t) ==
    /\ \E h \in DOMAIN bound : bound[h] = t
    /\ bound' = [h \in DOMAIN bound |-> IF bound[h] = t THEN "unbound" ELSE bound[h]]
    /\ UNCHANGED <<cursor, handles_pool_>>

-----------------------------------------------------------------------------
NoCursors == cursor = [c \in Cursors |-> 0] /\ handles_pool_ = <<>> /\ bound = [h \in 1..MaxHandles |-> "new"]
NoStages == committed = NoTxn.data /\ txn = NoTxn
NoDatabase == NoStages /\ NoCursors

StagesNext ==
    /\ \/ \E kind \in {"managed", "external"} : Begin(kind)
       \/ Forward
       \/ Abort
       \/ CallerCommits
    /\ UNCHANGED cursorVars

CursorsNext ==
    /\ \/ \E c \in Cursors, t \in Txns : OpenCursor(c, t)
       \/ \E c \in Cursors, t \in Txns : Rebind(c, t)
       \/ \E c, d \in Cursors : MoveCursor(c, d)
       \/ \E c \in Cursors : CloseCursor(c)
       \/ \E c \in Cursors : DestroyCursor(c)
       \/ \E t \in Txns : EndTxn(t)
    /\ UNCHANGED stageVars

DatabaseSpec == NoDatabase /\ [][StagesNext \/ CursorsNext]_databaseVars

-----------------------------------------------------------------------------
(* Properties.                                                             *)

\* In a transaction the caller lends, the stages' progress reaches the
\* database for all of them or for none, whatever is aborted or crashes in
\* between; in their own, a stage is never ahead of one that runs before it
\* (mdbx.hpp 79-117, stages.cpp 28-92).
StagesAtomic ==
    /\ [](\A i, j \in DOMAIN Stages : i < j => committed[Stages[i]] >= committed[Stages[j]])
    /\ [][txn.kind = "external" =>
              \/ committed' = committed
              \/ \A s \in Range(Stages) : committed'[s] = committed[s] + 1]_stageVars

\* A handle is in one place only, in one cursor or once in the pool, and is
\* never used after it was closed, however cursors are moved, rebound to
\* another transaction, closed or destroyed (mdbx.cpp 221-260, object_pool.hpp).
HandlesUnshared ==
    LET Owned == {c \in Cursors : cursor[c] # 0}
    IN  /\ \A c, d \in Owned : cursor[c] = cursor[d] => c = d
        /\ IsInjective(handles_pool_)
        /\ Range(handles_pool_) \cap {cursor[c] : c \in Owned} = {}
        /\ \A h \in Range(handles_pool_) \cup {cursor[c] : c \in Owned} : bound[h] # "closed"
        /\ \A h \in DOMAIN bound : bound[h] \in {"unbound"} \cup Txns =>
               h \in Range(handles_pool_) \cup {cursor[c] : c \in Owned}

\* What the transactions and the cursors over them promise.
DatabaseSafe == StagesAtomic /\ []HandlesUnshared
=============================================================================
