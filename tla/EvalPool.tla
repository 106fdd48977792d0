------------------------------ MODULE EvalPool ------------------------------
(***************************************************************************)
(* The pool that evaluates the traces of a directory                       *)
(* (_run_tasks_on_recovering_pool in cli/run_workload_space_pareto_eval.py, *)
(* used by the Pareto, geometry and end-to-end commands).                  *)
(*                                                                         *)
(* The parent keeps a bounded number of tasks in flight in an executor,    *)
(* waits with a timeout and files each result under the index of its task. *)
(* A pool of processes may turn broken, which the parent sees, or wedged:  *)
(* it delivers nothing any more and does not say so.  After too long a     *)
(* silence, or on a broken pool, the parent kills the executor and submits *)
(* what has no row yet to a new one, a bounded number of times.            *)
(*                                                                         *)
(* With one worker the executor is a thread, which neither breaks nor      *)
(* wedges, and the wait has no timeout.                                    *)
(***************************************************************************)
EXTENDS Integers, FiniteSets

CONSTANTS
  NumTasks,           \* tasks 0 .. NumTasks - 1
  WorkerCounts,       \* values of eval_workers
  InFlightPerWorker,  \* 4 in the code
  StallPolls,         \* timed-out waits that make up the stall limit
  MaxRestarts         \* PNMAX_EVAL_POOL_RESTARTS

ASSUME TasksAssumption == NumTasks \in Nat
ASSUME WorkersAssumption == WorkerCounts \subseteq Nat \ {0} /\ InFlightPerWorker \in Nat \ {0}
ASSUME RecoveryAssumption == StallPolls \in Nat \ {0} /\ MaxRestarts \in Nat

VARIABLES
  workers,   \* eval_workers, never changed
  rows,      \* rows_by_task_index: for each task done, the executor it ran on
  restarts,  \* executors replaced; the number of the executor in use
  pc,        \* where the parent is
  todo,      \* pending_indices from next_pending_pos on
  flight,    \* in_flight_futures
  done,      \* futures that hold a result
  batch,     \* futures the last wait returned and the loop has not popped
  quiet,     \* timed-out waits since last_completion
  health     \* of the executor

vars == << workers, rows, restarts, pc, todo, flight, done, batch, quiet, health >>

Tasks == 0 .. NumTasks - 1

TypeOK ==
  /\ workers \in WorkerCounts
  /\ \E S \in SUBSET Tasks : rows \in [S -> Nat]
  /\ restarts \in 0 .. MaxRestarts + 1
  /\ pc \in {"start", "wait", "check", "collect", "replace", "returned", "raised"}
  /\ todo \subseteq Tasks /\ flight \subseteq Tasks
  /\ done \subseteq flight /\ batch \subseteq flight
  /\ quiet \in 0 .. StallPolls
  /\ health \in {"up", "wedged", "broken"}

Init ==
  /\ workers \in WorkerCounts
  /\ rows = [i \in {} |-> 0]
  /\ restarts = 0
  /\ pc = "start"
  /\ todo = {} /\ flight = {} /\ done = {} /\ batch = {}
  /\ quiet = 0
  /\ health = "up"

-----------------------------------------------------------------------------
\* Only a pool of processes can be killed and replaced.
Recovers == workers > 1

Limit == workers * InFlightPerWorker

\* The n smallest members of S: tasks are submitted by increasing index.
Lowest(n, S) == {t \in S : Cardinality({u \in S : u < t}) < n}

\* Variant: the last indices first.
SubmittedFromEnd(waiting, running) ==
  {t \in waiting :
     Cardinality({u \in waiting : u > t}) < Limit - Cardinality(running)}

\* What the parent submits when `running` is in flight and `waiting` is not.
Submitted(waiting, running) == Lowest(Limit - Cardinality(running), waiting)

NoExecutor ==
  /\ todo' = {} /\ flight' = {} /\ done' = {} /\ batch' = {}
  /\ quiet' = 0
  /\ health' = "up"

-----------------------------------------------------------------------------
(* The executor (concurrent.futures).                                      *)

\* It takes the tasks in the order of their submission.
Running == Lowest(workers, flight \ done)

WorkerFinish(i) ==
  /\ health = "up"
  /\ i \in Running
  /\ done' = done \cup {i}
  /\ UNCHANGED << workers, rows, restarts, pc, todo, flight, batch, quiet, health >>

\* A worker process dies.  Noticed, the executor fails every future without a
\* result; at the wrong moment, it goes silent.
WorkerDies ==
  /\ Recovers
  /\ health = "up"
  /\ Running # {}
  /\ health' \in {"broken", "wedged"}
  /\ UNCHANGED << workers, rows, restarts, pc, todo, flight, done, batch, quiet >>

\* The futures a wait returns.
Completed == IF health = "broken" THEN flight ELSE done

-----------------------------------------------------------------------------
(* The parent.                                                             *)

Return ==
  /\ pc = "start"
  /\ DOMAIN rows = Tasks
  /\ pc' = "returned"
  /\ UNCHANGED << workers, rows, restarts, todo, flight, done, batch, quiet, health >>

\* Variant: a new executor gets every task again.
StartAllOver ==
  /\ pc = "start"
  /\ DOMAIN rows # Tasks
  /\ flight' = Submitted(Tasks, {})
  /\ todo' = Tasks \ flight'
  /\ pc' = "wait"
  /\ UNCHANGED << workers, rows, restarts, done, batch, quiet, health >>

StartExecutor ==
  /\ pc = "start"
  /\ DOMAIN rows # Tasks
  /\ LET pending == Tasks \ DOMAIN rows
     IN  /\ flight' = Submitted(pending, {})
         /\ todo' = pending \ Submitted(pending, {})
  /\ pc' = "wait"
  /\ UNCHANGED << workers, rows, restarts, done, batch, quiet, health >>

WaitSome ==
  /\ pc = "wait"
  /\ Completed # {}
  /\ batch' = Completed
  /\ quiet' = 0
  /\ pc' = "collect"
  /\ UNCHANGED << workers, rows, restarts, todo, flight, done, health >>

\* A result may still arrive between the timeout and the stall check.
WaitTimesOut ==
  /\ pc = "wait"
  /\ Recovers
  /\ flight # {} /\ Completed = {}
  /\ quiet' = quiet + 1
  /\ pc' = "check"
  /\ UNCHANGED << workers, rows, restarts, todo, flight, done, batch, health >>

CheckStall ==
  /\ pc = "check"
  /\ pc' = IF quiet >= StallPolls THEN "replace" ELSE "wait"
  /\ UNCHANGED << workers, rows, restarts, todo, flight, done, batch, quiet, health >>

Filed(i) == [j \in DOMAIN rows \cup {i} |-> IF j = i THEN restarts ELSE rows[j]]

\* A result is filed and the pool refilled; submitting to a broken pool raises.
TakeResult(i) ==
  /\ pc = "collect"
  /\ i \in batch /\ i \in done
  /\ rows' = Filed(i)
  /\ done' = done \ {i}
  /\ batch' = batch \ {i}
  /\ IF health = "broken" /\ Submitted(todo, flight \ {i}) # {}
     THEN /\ pc' = "replace"
          /\ flight' = flight \ {i}
          /\ todo' = todo
     ELSE /\ pc' = IF batch \ {i} = {} THEN "wait" ELSE "collect"
          /\ flight' = (flight \ {i}) \cup Submitted(todo, flight \ {i})
          /\ todo' = todo \ Submitted(todo, flight \ {i})
  /\ UNCHANGED << workers, restarts, quiet, health >>

\* The future of a task the pool has lost raises BrokenProcessPool.
TakeBroken(i) ==
  /\ pc = "collect"
  /\ i \in batch \ done
  /\ flight' = flight \ {i}
  /\ batch' = batch \ {i}
  /\ pc' = "replace"
  /\ UNCHANGED << workers, rows, restarts, todo, done, quiet, health >>

\* Nothing in flight: the executor is shut down.
CloseExecutor ==
  /\ pc = "wait"
  /\ flight = {}
  /\ pc' = "start"
  /\ NoExecutor
  /\ UNCHANGED << workers, rows, restarts >>

\* Variant: the rows of the killed executor are dropped with it.
ReplaceDroppingRows ==
  /\ pc = "replace"
  /\ restarts' = restarts + 1
  /\ pc' = IF restarts + 1 > MaxRestarts THEN "raised" ELSE "start"
  /\ rows' = [i \in {} |-> 0]
  /\ NoExecutor
  /\ UNCHANGED workers

\* Variant: the replacements are not counted.
ReplaceUncounted ==
  /\ pc = "replace"
  /\ pc' = "start"
  /\ NoExecutor
  /\ UNCHANGED << workers, rows, restarts >>

\* The executor is killed, with whatever arrived and was not taken.
Replace ==
  /\ pc = "replace"
  /\ restarts' = restarts + 1
  /\ pc' = IF restarts + 1 > MaxRestarts THEN "raised" ELSE "start"
  /\ NoExecutor
  /\ UNCHANGED << workers, rows >>

\* An interrupt, or a task's exception: the pool is killed, the error goes on.
Escape ==
  /\ pc \in {"wait", "check", "collect"}
  /\ pc' = "raised"
  /\ NoExecutor
  /\ UNCHANGED << workers, rows, restarts >>

Parent ==
  \/ Return \/ StartExecutor
  \/ WaitSome \/ WaitTimesOut \/ CheckStall
  \/ (\E i \in batch : TakeResult(i) \/ TakeBroken(i))
  \/ CloseExecutor \/ Replace

Worker == \E i \in flight : WorkerFinish(i)

Next == Parent \/ Worker \/ WorkerDies \/ Escape

Spec == Init /\ [][Next]_vars

\* The parent keeps running and time passes; a thread finishes its task.  No
\* worker process has to finish anything.
FairSpec == Spec /\ WF_vars(Parent) /\ WF_vars(~Recovers /\ Worker)

-----------------------------------------------------------------------------
InLoop == pc \in {"wait", "check", "collect"}

\* No task is lost and none is evaluated again: in whatever way executors were
\* replaced, a task has a row, or is in flight, or is waiting, and only one of
\* these; the caller indexes the rows by every task (_run_evaluations).
EachTaskOnce ==
  /\ InLoop => DOMAIN rows \cup flight \cup todo = Tasks
  /\ DOMAIN rows \cap (flight \cup todo) = {}
  /\ flight \cap todo = {}
  /\ pc = "returned" => DOMAIN rows = Tasks

\* An executor gets its tasks by increasing index ("submission order is
\* preserved"), also when results arrive out of order.
SubmissionOrder ==
  \A i \in flight \cup {k \in DOMAIN rows : rows[k] = restarts}, j \in todo : i < j

\* The pool is kept fed and not overwhelmed: while tasks wait, exactly the
\* limit is in flight.
PoolFed ==
  /\ Cardinality(flight) <= Limit
  /\ InLoop /\ todo # {} => Cardinality(flight) = Limit

\* "Completed results are never re-executed nor overwritten."
RowsKept ==
  [][\A i \in DOMAIN rows : i \in DOMAIN rows' /\ rows'[i] = rows[i]]_vars

\* The run ends, with its rows or with an error, even if no worker process
\* ever delivers a result: it does not hang.
Ends == <>(pc \in {"returned", "raised"})
=============================================================================
