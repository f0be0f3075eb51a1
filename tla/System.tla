------------------------------- MODULE System -------------------------------
(***************************************************************************)
(* The program around the network: its startup and restarts, the timers    *)
(* and workers, the containers and locked pages, the database.  They share *)
(* no variable, so that each behaviour exercises one of them; the others   *)
(* are idle.                                                               *)
(***************************************************************************)
EXTENDS Startup, Concurrency, Containers, Database, TableWalks

systemVars == <<startupVars, concurrencyVars, containersVars, databaseVars, walk>>

Quiet ==
    /\ timer = [state |-> "kNotStarted", autoreset |-> FALSE, cancels |-> 0] /\ work = NoWork
    /\ worker = [state |-> "kNotStarted", kicked |-> FALSE, thread |-> 0, client |-> "idle"] /\ run = NoRun

VARIABLE part   \* the component this behaviour exercises

Parts == {"startup", "timer", "worker", "containers", "stages", "cursors", "walks"}

InitSystem ==
    /\ part \in Parts
    /\ IF part = "startup" THEN InitStartup ELSE NoStartup
    /\ IF part = "timer" THEN InitConcurrency ELSE Quiet
    /\ IF part = "containers" THEN InitContainers ELSE NoContainers
    /\ NoDatabase
    /\ IF part = "walks" THEN InitWalk ELSE walk = NoWalk

Of(name) == part = name /\ UNCHANGED part

AroundStartup == Of("startup") /\ UNCHANGED <<concurrencyVars, containersVars, databaseVars, walk>>
AroundConcurrency == UNCHANGED <<part, startupVars, containersVars, databaseVars, walk>>
AroundContainers == Of("containers") /\ UNCHANGED <<startupVars, concurrencyVars, databaseVars, walk>>
AroundDatabase == UNCHANGED <<part, startupVars, concurrencyVars, containersVars, walk>>

Proceed == StartupProceeds /\ AroundStartup
Interfere == (handle \/ Kill) /\ AroundStartup

NextSystem ==
    \/ Proceed
    \/ Interfere
    \/ part = "timer" /\ TimerNext /\ AroundConcurrency
    \/ part = "worker" /\ WorkerNext /\ AroundConcurrency
    \/ ContainersNext /\ AroundContainers
    \/ PagesNext /\ AroundContainers
    \/ part = "stages" /\ StagesNext /\ AroundDatabase
    \/ part = "cursors" /\ CursorsNext /\ AroundDatabase

\* The operator launches the node again, and it goes on; see also
\* FairConcurrency.
SpecSystem ==
    /\ InitSystem /\ [][NextSystem]_<<part, systemVars>>
    /\ WF_startupVars(Proceed)
    /\ FairConcurrency
=============================================================================
