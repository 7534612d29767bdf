----------------------------- MODULE AsyncTask -----------------------------
(***************************************************************************)
(* Coroutine tasks (internal/async/task.h), the awaitable that runs work   *)
(* in a detached thread (internal/async/async_container.h) and the one     *)
(* that hands it to an executor (internal/async/thread_pool_executor.h).   *)
(*                                                                         *)
(* Every task t has an owner, the thread that called the coroutine and     *)
(* holds the task object, and at most one worker, the detached thread or   *)
(* executor job that does the work and then resumes the coroutine.  Both   *)
(* can execute the coroutine's body, so both have a program counter in it. *)
(* A coroutine body is: one co_await of an awaitable, then co_return.      *)
(* What the work computes is left to AsyncContainer.                       *)
(*                                                                         *)
(* The result_ and exception_ of a promise or a shared state are one       *)
(* field: None, an outcome, or Thrown.                                     *)
(***************************************************************************)
EXTENDS Naturals, Sequences

CONSTANTS
  Tasks,
  Pending,      \* TRUE: owners may co_await a task whose worker is not done
  MaxGuards,    \* bound on nested executor_context_guards
  Thrown,       \* an exception was stored
  None

VARIABLES
  frame,    \* per task: the coroutine frame, its promise, and who else will resume it
  state,    \* per task: async_state / executor_state, shared with the worker
  pc,       \* per task: the position of its owner and of its worker
  cont,     \* per task and thread: the local variable of final_awaiter
  outcome,  \* per task: what get() or co_await gave its owner
  context,  \* async_executor_context: TRUE when it holds the executor
  guards,   \* what the live executor_context_guards saved, innermost last
  pool,     \* the executor: running or not, and the jobs it accepted
  misuse    \* a coroutine was resumed that is not suspended, or touched after its end

taskVars == <<frame, state, pc, cont, outcome, context, guards, pool, misuse>>

ASSUME TaskAssumption == None \notin Tasks

Roles == {"owner", "worker"}
Outer == "outer"    \* the coroutine of the owner, as a continuation

At(t, r) == pc[t][r]
Go(t, r, l) == pc' = [pc EXCEPT ![t][r] = l]

NoFrame == [at |-> "none", by |-> "none", result |-> None, completed |-> FALSE,
            continuation |-> None]
NoState == [result |-> None, ready |-> FALSE]

TaskInit ==
  /\ frame = [t \in Tasks |-> NoFrame]
  /\ state = [t \in Tasks |-> NoState]
  /\ pc = [t \in Tasks |-> [r \in Roles |-> "idle"]]
  /\ cont = [t \in Tasks |-> [r \in Roles |-> None]]
  /\ outcome = [t \in Tasks |-> None]
  /\ context = FALSE
  /\ guards = <<>>
  /\ pool = [running |-> TRUE, jobs |-> <<>>]
  /\ misuse = FALSE

\* Undefined behaviour ends what the model says of the program.
Misused ==
  /\ misuse' = TRUE
  /\ UNCHANGED <<frame, state, pc, cont, outcome, context, guards, pool>>

-----------------------------------------------------------------------------
(* The global executor *)

\* set_executor(executor) and clear_executor(), outside any guard
SetExecutor(e) ==
  /\ guards = <<>> /\ context # e
  /\ context' = e
  /\ UNCHANGED <<frame, state, pc, cont, outcome, guards, pool, misuse>>

\* executor_context_guard(executor)
GuardEnter(e) ==
  /\ Len(guards) < MaxGuards
  /\ guards' = Append(guards, context)
  /\ context' = e
  /\ UNCHANGED <<frame, state, pc, cont, outcome, pool, misuse>>

\* ~executor_context_guard()
GuardExit ==
  /\ guards # <<>>
  /\ context' = guards[Len(guards)]
  /\ guards' = SubSeq(guards, 1, Len(guards) - 1)
  /\ UNCHANGED <<frame, state, pc, cont, outcome, pool, misuse>>

\* The executor starts the next job it accepted.
PoolRuns ==
  /\ pool.jobs # <<>>
  /\ Go(Head(pool.jobs), "worker", "work")
  /\ pool' = [pool EXCEPT !.jobs = Tail(@)]
  /\ UNCHANGED <<frame, state, cont, outcome, context, guards, misuse>>

\* It is shut down: what it accepted it still runs, new jobs it refuses.
PoolStops ==
  /\ pool.running
  /\ pool' = [pool EXCEPT !.running = FALSE]
  /\ UNCHANGED <<frame, state, pc, cont, outcome, context, guards, misuse>>

-----------------------------------------------------------------------------
(* Calling a coroutine: initial_suspend is suspend_never, so it runs at once *)

Suspended(by) == [NoFrame EXCEPT !.at = "suspended", !.by = by]
Finished(x) == [NoFrame EXCEPT !.at = "final", !.result = x, !.completed = TRUE]

\* make_ready_task and make_exceptional_task: the body runs to its end.
CallReady(t, x) ==
  /\ At(t, "owner") = "idle"
  /\ frame' = [frame EXCEPT ![t] = Finished(x)]
  /\ Go(t, "owner", "holding")
  /\ UNCHANGED <<state, cont, outcome, context, guards, pool, misuse>>

\* A coroutine that suspends where only its owner resumes it.
CallManual(t) ==
  /\ At(t, "owner") = "idle"
  /\ frame' = [frame EXCEPT ![t] = Suspended("owner")]
  /\ Go(t, "owner", "holding")
  /\ UNCHANGED <<state, cont, outcome, context, guards, pool, misuse>>

\* async_awaitable::await_suspend: the coroutine is suspended, the thread
\* started and detached.
CallAsync(t) ==
  /\ At(t, "owner") = "idle"
  /\ frame' = [frame EXCEPT ![t] = Suspended("worker")]
  /\ pc' = [pc EXCEPT ![t] = [owner |-> "holding", worker |-> "work"]]
  /\ UNCHANGED <<state, cont, outcome, context, guards, pool, misuse>>

\* executor_awaitable::await_suspend with the executor of the context:
\* is_running() is asked first, execute() comes later.
CallExecutor(t) ==
  /\ At(t, "owner") = "idle"
  /\ frame' = [frame EXCEPT ![t] = Suspended("worker")]
  /\ pc' = [pc EXCEPT ![t] = IF context /\ pool.running
                             THEN [owner |-> "submit", worker |-> "idle"]
                             ELSE [owner |-> "holding", worker |-> "work"]]
  /\ UNCHANGED <<state, cont, outcome, context, guards, pool, misuse>>

\* Mutant: the result of execute() is not looked at.
SubmitUnchecked(t) ==
  /\ At(t, "owner") = "submit"
  /\ Go(t, "owner", "holding")
  /\ pool' = [pool EXCEPT !.jobs = IF pool.running THEN Append(@, t) ELSE @]
  /\ UNCHANGED <<frame, state, cont, outcome, context, guards, misuse>>

\* execute(job): refused when the executor was stopped in between, and then
\* the work goes to a thread after all (run_in_thread).
Submit(t) ==
  /\ At(t, "owner") = "submit"
  /\ pc' = [pc EXCEPT ![t] = [owner |-> "holding",
                              worker |-> IF pool.running THEN "idle" ELSE "work"]]
  /\ pool' = [pool EXCEPT !.jobs = IF pool.running THEN Append(@, t) ELSE @]
  /\ UNCHANGED <<frame, state, cont, outcome, context, guards, misuse>>

-----------------------------------------------------------------------------
(* The worker *)

\* work_() returned x or threw.
Worked(t, x) ==
  /\ At(t, "worker") = "work"
  /\ state' = [state EXCEPT ![t].result = x]
  /\ Go(t, "worker", "publish")
  /\ UNCHANGED <<frame, cont, outcome, context, guards, pool, misuse>>

\* ready_.store(true, release)
Publish(t) ==
  /\ At(t, "worker") = "publish"
  /\ state' = [state EXCEPT ![t].ready = TRUE]
  /\ Go(t, "worker", "wake")
  /\ UNCHANGED <<frame, cont, outcome, context, guards, pool, misuse>>

-----------------------------------------------------------------------------
(* The body of the coroutine, executed by thread r *)

\* coroutine_handle::resume()
Enter(t, r) ==
  IF frame[t].at = "suspended"
  THEN /\ frame' = [frame EXCEPT ![t].at = "running"]
       /\ Go(t, r, "await_resume")
       /\ UNCHANGED <<state, cont, outcome, context, guards, pool, misuse>>
  ELSE Misused

\* handle.resume() at the end of the worker thread or job
Wake(t) ==
  /\ At(t, "worker") = "wake"
  /\ Enter(t, "worker")

\* await_resume() spins until ready_; its result or exception becomes that of
\* the promise (return_value, unhandled_exception).
AwaitResume(t, r, x) ==
  /\ At(t, r) = "await_resume"
  /\ IF frame[t].at = "destroyed" THEN Misused
     ELSE /\ IF frame[t].by = "worker" THEN state[t].ready /\ x = state[t].result ELSE TRUE
          /\ frame' = [frame EXCEPT ![t].result = x]
          /\ Go(t, r, "final")
          /\ UNCHANGED <<state, cont, outcome, context, guards, pool, misuse>>

\* Mutant: completed_ is set first, the continuation read afterwards.
FinalAwaitLate(t, r) ==
  /\ At(t, r) = "final"
  /\ frame' = [frame EXCEPT ![t].at = "final", ![t].completed = TRUE]
  /\ Go(t, r, "complete")
  /\ UNCHANGED <<state, cont, outcome, context, guards, pool, misuse>>

\* final_awaiter::await_suspend: the coroutine is suspended for good, the
\* continuation is read ...
FinalAwait(t, r) ==
  /\ At(t, r) = "final"
  /\ IF frame[t].at = "destroyed" THEN Misused
     ELSE /\ frame' = [frame EXCEPT ![t].at = "final"]
          /\ cont' = [cont EXCEPT ![t][r] = frame[t].continuation]
          /\ Go(t, r, "complete")
          /\ UNCHANGED <<state, outcome, context, guards, pool, misuse>>

\* ... completed_ is set, and control goes to the continuation, or back to
\* whoever resumed the coroutine.
Complete(t, r) ==
  /\ At(t, r) = "complete"
  /\ IF frame[t].at = "destroyed" THEN Misused
     ELSE /\ frame' = [frame EXCEPT ![t].completed = TRUE]
          /\ Go(t, r, IF r = "worker" THEN "end"
                      ELSE IF cont[t][r] = Outer THEN "ready" ELSE "holding")
          /\ UNCHANGED <<state, cont, outcome, context, guards, pool, misuse>>

-----------------------------------------------------------------------------
(* The owner, which holds the task object *)

\* done() returned true.
Done(t) ==
  /\ At(t, "owner") = "holding" /\ frame[t].completed
  /\ Go(t, "owner", "ready")
  /\ UNCHANGED <<frame, state, cont, outcome, context, guards, pool, misuse>>

\* resume(): nothing happens when the coroutine is at its end.
Resume(t) ==
  /\ At(t, "owner") = "holding" /\ frame[t].by = "owner" /\ frame[t].at # "final"
  /\ Enter(t, "owner")

\* co_await of the task: await_ready asks the frame whether it is done, ...
AwaitReady(t) ==
  /\ At(t, "owner") = "holding"
  /\ Pending \/ frame[t].by # "worker"
  /\ Go(t, "owner", IF frame[t].at = "final" THEN "ready" ELSE "await_suspend")
  /\ UNCHANGED <<frame, state, cont, outcome, context, guards, pool, misuse>>

\* ... and await_suspend stores the continuation and transfers to the task.
AwaitSuspend(t) ==
  /\ At(t, "owner") = "await_suspend"
  /\ IF frame[t].at = "suspended"
     THEN /\ frame' = [frame EXCEPT ![t].at = "running", ![t].continuation = Outer]
          /\ Go(t, "owner", "await_resume")
          /\ UNCHANGED <<state, cont, outcome, context, guards, pool, misuse>>
     ELSE Misused

\* get(), and await_resume of the task: result() rethrows or returns.
Take(t) ==
  /\ At(t, "owner") = "ready"
  /\ outcome' = [outcome EXCEPT ![t] = frame[t].result]
  /\ Go(t, "owner", "taken")
  /\ UNCHANGED <<frame, state, cont, context, guards, pool, misuse>>

\* ~task(), or a move assignment over it: handle_.destroy().
Destroy(t) ==
  /\ At(t, "owner") = "taken"
  /\ frame' = [frame EXCEPT ![t].at = "destroyed"]
  /\ Go(t, "owner", "gone")
  /\ UNCHANGED <<state, cont, outcome, context, guards, pool, misuse>>

\* The worker and the body of t, without the work itself.
Run(t) ==
  \/ Publish(t) \/ Wake(t)
  \/ \E r \in Roles, x \in {state[t].result, Thrown, None} : AwaitResume(t, r, x)
  \/ \E r \in Roles : FinalAwait(t, r) \/ Complete(t, r)

Own(t) ==
  \/ Submit(t) \/ Done(t) \/ Resume(t) \/ AwaitReady(t) \/ AwaitSuspend(t)
  \/ Take(t) \/ Destroy(t)

Environment ==
  \/ \E e \in BOOLEAN : SetExecutor(e) \/ GuardEnter(e)
  \/ GuardExit \/ PoolRuns \/ PoolStops
=============================================================================
