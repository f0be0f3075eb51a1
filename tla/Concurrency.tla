---------------------------- MODULE Concurrency ----------------------------
(***************************************************************************)
(* The two components of infra/concurrency with a life of their own, both  *)
(* built on Stoppable: a Timer, whose work() is a coroutine on an executor *)
(* of several threads, and a Worker, whose work() is a thread.  A client   *)
(* starts, kicks and stops them at any time.                               *)
(***************************************************************************)
EXTENDS Integers, FiniteSets

CONSTANT Lives   \* bound: coroutines, or threads, alive at a time

VARIABLES timer,   \* [state, autoreset, cancels]: cancels: a stop has yet to cancel the wait
          work,    \* [life -> [at, interval]]: the coroutines of Timer::work
          worker,  \* [state, kicked, thread, client]: thread: the one thread_ refers to, 0 for none
          run      \* [life -> [at, expected]]: the threads of Worker::start

concurrencyVars == <<timer, work, worker, run>>

NoWork == [life \in Lives |-> [at |-> "none", interval |-> 0]]
NoRun == [life \in Lives |-> [at |-> "none", expected |-> TRUE]]

InitConcurrency ==
    /\ timer \in [state : {"kNotStarted"}, autoreset : BOOLEAN, cancels : {0}]
    /\ work = NoWork
    /\ worker = [state |-> "kNotStarted", kicked |-> FALSE, thread |-> 0, client |-> "idle"]
    /\ run = NoRun

-----------------------------------------------------------------------------
(* Stoppable.                                                              *)

can_start(state) == state = "kNotStarted"

\* What stop makes of the state; it returns whether the state was kStarted.
stop_state(state) == IF state = "kStarted" THEN "kStopping" ELSE state

is_running(component) == component.state = "kStarted"

-----------------------------------------------------------------------------
(* Timer.                                                                  *)

Idle(lives) == {life \in Lives : lives[life].at = "none"}

\* An interval of 0 is refused after the state was changed.
TimerStart(interval) ==
    /\ can_start(timer.state)
    /\ timer' = [timer EXCEPT !.state = "kStarted"]
    /\ IF interval = 0
           THEN work' = work
           ELSE \E life \in Idle(work) : work' = [work EXCEPT ![life] = [at |-> "arm", interval |-> interval]]

TimerStop ==
    /\ is_running(timer) /\ timer.cancels = 0
    /\ timer' = [timer EXCEPT !.state = stop_state(@), !.cancels = 1]
    /\ work' = work

\* steady_timer::cancel: the pending wait throws operation_aborted.
cancelled == [life \in Lives |-> IF work[life].at = "wait" THEN [work[life] EXCEPT !.at = "end"] ELSE work[life]]

\* The rest of stop; reset() is the same cancel alone.
TimerCancel ==
    /\ timer.cancels = 1
    /\ timer' = [timer EXCEPT !.cancels = 0]
    /\ work' = cancelled

TimerReset ==
    /\ \E life \in Lives : work[life].at = "wait"
    /\ work' = cancelled
    /\ timer' = timer

Resume(life, where) == work' = [work EXCEPT ![life].at = where] /\ timer' = timer

Arm(life) == work[life].at = "arm" /\ Resume(life, "wait")
Expire(life) == work[life].at = "wait" /\ Resume(life, "due")

\* The callback may change the interval, or throw.
CallBack(life) ==
    /\ work[life].at = "due"
    /\ \/ Resume(life, "end")
       \/ \E interval \in 0..1 :
              work' = [work EXCEPT ![life] = [at |-> "again", interval |-> interval]] /\ timer' = timer

Again(life) ==
    /\ work[life].at = "again"
    /\ Resume(life, IF is_running(timer) /\ timer.autoreset /\ work[life].interval # 0 THEN "arm" ELSE "end")

\* Mutant of WorkEnds: a path out of work() without set_stopped.
WorkEnds_silent(life) ==
    /\ work[life].at = "end"
    /\ work' = [work EXCEPT ![life] = NoWork[life]]
    /\ timer' = timer

\* set_stopped.
WorkEnds(life) ==
    /\ work[life].at = "end"
    /\ work' = [work EXCEPT ![life] = NoWork[life]]
    /\ timer' = [timer EXCEPT !.state = "kNotStarted"]

TimerWorks(life) == Arm(life) \/ Expire(life) \/ CallBack(life) \/ Again(life) \/ WorkEnds(life)

-----------------------------------------------------------------------------
(* Worker.  work() is the loop every derived class has: while is_running,  *)
(* wait_for_kick and do the job.                                           *)

\* A new thread takes the place of one that may still be ending.
WorkerStart ==
    /\ worker.client = "idle" /\ can_start(worker.state)
    /\ \E life \in Idle(run) :
           /\ run' = [run EXCEPT ![life] = [at |-> "loop", expected |-> TRUE]]
           /\ worker' = [worker EXCEPT !.state = "kStarted", !.kicked = FALSE, !.thread = life]

Kick == worker' = [worker EXCEPT !.kicked = TRUE] /\ run' = run

\* A stop that changed the state also kicks; the client joins any thread.
WorkerStop ==
    /\ worker.client = "idle"
    /\ worker.thread # 0
    /\ worker' = [worker EXCEPT !.state = stop_state(@), !.kicked = IF is_running(worker) THEN TRUE ELSE @, !.client = "joining"]
    /\ run' = run

Join ==
    /\ worker.client = "joining" /\ run[worker.thread].at = "none"
    /\ worker' = [worker EXCEPT !.client = "idle", !.thread = 0]
    /\ run' = run

Move(life, where) == run' = [run EXCEPT ![life].at = where] /\ worker' = worker

Loop(life) == run[life].at = "loop" /\ Move(life, IF is_running(worker) THEN "cas" ELSE "end")

\* compare_exchange_strong(expected, false): a failure loads the value.
TryKick(life) ==
    /\ run[life].at = "cas"
    /\ IF worker.kicked = run[life].expected
           THEN /\ worker' = [worker EXCEPT !.kicked = FALSE]
                /\ run' = [run EXCEPT ![life].at = "job"]
           ELSE /\ worker' = worker
                /\ run' = [run EXCEPT ![life] = [at |-> "sleep", expected |-> worker.kicked]]

\* Mutant of expected_again: the value loaded by the failure is kept.
expected_kept(life) == run[life].expected

expected_again(life) == TRUE

\* Notified or timed out.
Wake(life) ==
    /\ run[life].at = "sleep"
    /\ IF is_running(worker)
           THEN run' = [run EXCEPT ![life] = [at |-> "cas", expected |-> expected_again(life)]]
           ELSE run' = [run EXCEPT ![life] = [at |-> "loop", expected |-> TRUE]]
    /\ worker' = worker

\* The job returns, or throws out of work().
Job(life) ==
    /\ run[life].at = "job"
    /\ \/ run' = [run EXCEPT ![life] = [at |-> "loop", expected |-> TRUE]]
       \/ run' = [run EXCEPT ![life].at = "end"]
    /\ worker' = worker

SetStopped(life) ==
    /\ run[life].at = "end"
    /\ worker' = [worker EXCEPT !.state = "kNotStarted"]
    /\ run' = [run EXCEPT ![life].at = "clear"]

\* The kick is cleared after the state: a client may have started another thread by now.
ClearKick(life) ==
    /\ run[life].at = "clear"
    /\ worker' = [worker EXCEPT !.kicked = FALSE]
    /\ run' = [run EXCEPT ![life] = NoRun[life]]

ThreadRuns(life) ==
    Loop(life) \/ TryKick(life) \/ Wake(life) \/ Job(life) \/ SetStopped(life) \/ ClearKick(life)

-----------------------------------------------------------------------------
TimerNext ==
    /\ \/ \E interval \in 0..1 : TimerStart(interval)
       \/ TimerStop
       \/ TimerCancel
       \/ TimerReset
       \/ \E life \in Lives : Arm(life)
       \/ \E life \in Lives : Expire(life)
       \/ \E life \in Lives : CallBack(life)
       \/ \E life \in Lives : Again(life)
       \/ \E life \in Lives : WorkEnds(life)
    /\ UNCHANGED <<worker, run>>

WorkerNext ==
    /\ \/ WorkerStart
       \/ Kick
       \/ WorkerStop
       \/ Join
       \/ \E life \in Lives : Loop(life)
       \/ \E life \in Lives : TryKick(life)
       \/ \E life \in Lives : Wake(life)
       \/ \E life \in Lives : Job(life)
       \/ \E life \in Lives : SetStopped(life)
       \/ \E life \in Lives : ClearKick(life)
    /\ UNCHANGED <<timer, work>>

ConcurrencySpec == InitConcurrency /\ [][TimerNext \/ WorkerNext]_concurrencyVars

\* Expired waits complete, ready coroutines and threads are run, and a
\* client inside stop goes on.
FairConcurrency ==
    /\ WF_concurrencyVars(TimerCancel /\ UNCHANGED <<worker, run>>)
    /\ WF_concurrencyVars(Join /\ UNCHANGED <<timer, work>>)
    /\ \A life \in Lives : /\ WF_concurrencyVars(TimerWorks(life) /\ UNCHANGED <<worker, run>>)
                           /\ WF_concurrencyVars(ThreadRuns(life) /\ UNCHANGED <<timer, work>>)

-----------------------------------------------------------------------------
(* Properties.                                                             *)

Alive(lives) == Lives \ Idle(lives)

\* A timer never has two coroutines, and none outlives its state: however
\* start, stop and the end of work() interleave, a restarted timer does not
\* fire twice per interval (timer.cpp 40-97).
OneCoroutine ==
    /\ Cardinality(Alive(work)) <= 1
    /\ Alive(work) # {} => timer.state # "kNotStarted"

\* A worker does its job only on a kick, and takes the kick with it: no
\* interleaving of timeouts, kicks and restarts gives a round of work that
\* nobody asked for (worker.cpp 90-103).
JobTakesKick ==
    \A life \in Lives : run[life].at # "job" /\ run'[life].at = "job" => worker.kicked /\ ~worker'.kicked

\* The components with a life of their own do what they are asked to once.
RunsAsAsked == []OneCoroutine /\ [][JobTakesKick]_concurrencyVars

\* A stopped timer with a coroutine ends, a client that stops a worker gets
\* its thread joined, and a kick is answered while the worker runs, unless an
\* earlier thread is still ending: that one clears the kick of the next.
WaitsEnd ==
    /\ (timer.state = "kStopping" /\ Alive(work) # {}) ~> timer.state = "kNotStarted"
    /\ worker.client = "joining" ~> worker.client = "idle"
    /\ (worker.kicked /\ is_running(worker) /\ Cardinality(Alive(run)) = 1)
           ~> (~is_running(worker) \/ \E life \in Lives : run[life].at = "job")
=============================================================================
