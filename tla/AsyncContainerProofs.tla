------------------------ MODULE AsyncContainerProofs ------------------------
(***************************************************************************)
(* No coroutine of an async_container is resumed twice or touched after    *)
(* its end, for any number of tasks; what a save that succeeded left in    *)
(* the file stays until somebody opens it to write, and what a clean read  *)
(* brings is that; the progress callbacks are the multiples of the chunk   *)
(* size; and the chunks of a generator join to one encoding.               *)
(***************************************************************************)
EXTENDS AsyncContainer, WellFoundedInduction, SequenceTheorems, TLAPS

FileOps == Writing \union Reading

\* The records that the variables hold, field by field.
IsPos(p) == DOMAIN p = {"owner", "worker"}
IsFrame(f) == DOMAIN f = {"at", "by", "result", "completed", "continuation"}
IsJob(j) == DOMAIN j = {"op", "step", "data", "pos", "total", "progress", "clean"}
Shapes ==
  /\ pc = [t \in Tasks |-> pc[t]] /\ frame = [t \in Tasks |-> frame[t]]
  /\ job = [t \in Tasks |-> job[t]] /\ outcome = [t \in Tasks |-> outcome[t]]
  /\ DOMAIN pool = {"running", "jobs"}
  /\ \A t \in Tasks : IsPos(pc[t]) /\ IsFrame(frame[t]) /\ IsJob(job[t])

\* A coroutine that a worker will resume: the owner waits until it is completed.
WorkerResumes(p, f) ==
  /\ f.by = "worker"
  /\ \/ /\ p.owner = "holding" /\ p.worker \in {"idle", "work", "publish", "wake"}
        /\ f.at = "suspended" /\ f.completed = FALSE
     \/ p.owner = "submit" /\ p.worker = "idle" /\ f.at = "suspended" /\ f.completed = FALSE
     \/ /\ p.owner = "holding" /\ p.worker \in {"await_resume", "final"}
        /\ f.at = "running" /\ f.completed = FALSE
     \/ p.owner = "holding" /\ p.worker = "complete" /\ f.at = "final" /\ f.completed = FALSE
     \/ p.owner \in {"holding", "ready", "taken"} /\ p.worker = "end" /\ f.at = "final"

\* A coroutine that nobody but its owner resumes.
OwnerResumes(p, f) ==
  /\ f.by # "worker" /\ p.worker = "idle"
  /\ \/ p.owner = "holding" /\ ((f.at = "suspended" /\ f.completed = FALSE) \/ f.at = "final")
     \/ p.owner = "await_suspend" /\ f.at = "suspended"
     \/ p.owner \in {"await_resume", "final"} /\ f.at = "running"
     \/ p.owner \in {"complete", "ready", "taken"} /\ f.at = "final"
     \/ p.owner \in {"pulling", "gone"}

GoodTask(p, f, op, x) ==
  /\ \/ p.owner = "idle" /\ p.worker = "idle"
     \/ p.owner = "inside" /\ p.worker = "work" /\ op \in Synchronous
     \/ p.owner = "gone" /\ p.worker = "end"
     \/ WorkerResumes(p, f)
     \/ OwnerResumes(p, f)
  /\ p.owner \notin {"taken", "gone"} => x = None
  /\ op \in FileOps => \/ p.owner \in {"inside", "holding"} /\ p.worker = "work"
                       \/ p.owner = "gone" /\ p.worker = "end"

\* A job that an executor accepted is one task's, which waits for it.
Waits(p, f) == p.owner = "holding" /\ p.worker = "idle" /\ f.by = "worker"
Queued(t) == Waits(pc[t], frame[t])
JobsInv ==
  /\ pool.jobs \in Seq(Tasks)
  /\ \A i, j \in DOMAIN pool.jobs : pool.jobs[i] = pool.jobs[j] => i = j
  /\ \A i \in DOMAIN pool.jobs : Queued(pool.jobs[i])

TaskInv ==
  /\ Shapes
  /\ \A t \in Tasks : GoodTask(pc[t], frame[t], job[t].op, outcome[t])
  /\ JobsInv
  /\ misuse = FALSE

-----------------------------------------------------------------------------
(* One task moves *)

Only(t) ==
  /\ pc' = [pc EXCEPT ![t] = pc'[t]] /\ frame' = [frame EXCEPT ![t] = frame'[t]]
  /\ outcome' = [outcome EXCEPT ![t] = outcome'[t]]
  /\ IsPos(pc'[t]) /\ IsFrame(frame'[t]) /\ misuse' = misuse

SameOps(t) ==
  /\ job' = [u \in Tasks |-> job'[u]]
  /\ \A u \in Tasks : IsJob(job'[u])
  /\ \A u \in Tasks \ {t} : job'[u].op = job[u].op

LEMMA OthersStay ==
  ASSUME Shapes, NEW t \in Tasks, Only(t)
  PROVE  /\ pc' = [u \in Tasks |-> pc'[u]] /\ frame' = [u \in Tasks |-> frame'[u]]
         /\ outcome' = [u \in Tasks |-> outcome'[u]]
         /\ \A u \in Tasks \ {t} : pc'[u] = pc[u] /\ frame'[u] = frame[u] /\ outcome'[u] = outcome[u]
  <1>1. pc' = [u \in Tasks |-> pc'[u]] /\ \A u \in Tasks \ {t} : pc'[u] = pc[u]
    BY DEF Only, Shapes
  <1>2. frame' = [u \in Tasks |-> frame'[u]] /\ \A u \in Tasks \ {t} : frame'[u] = frame[u]
    BY DEF Only, Shapes
  <1>3. outcome' = [u \in Tasks |-> outcome'[u]] /\ \A u \in Tasks \ {t} : outcome'[u] = outcome[u]
    BY DEF Only, Shapes
  <1> QED
    BY <1>1, <1>2, <1>3

\* A task that no executor holds may move without the others.
LEMMA TaskMove ==
  ASSUME TaskInv, NEW t \in Tasks, Only(t), SameOps(t), ~Queued(t), pool' = pool,
         GoodTask(pc'[t], frame'[t], job'[t].op, outcome'[t])
  PROVE  TaskInv'
  <1>1. Shapes'
    BY OthersStay DEF TaskInv, Only, SameOps, Shapes
  <1>2. \A u \in Tasks \ {t} : pc'[u] = pc[u] /\ frame'[u] = frame[u] /\ outcome'[u] = outcome[u]
    BY OthersStay DEF TaskInv
  <1>3. ASSUME NEW u \in Tasks PROVE GoodTask(pc'[u], frame'[u], job'[u].op, outcome'[u])
    <2>1. CASE u = t
      BY <2>1
    <2>2. CASE u # t
      <3>1. pc'[u] = pc[u] /\ frame'[u] = frame[u] /\ outcome'[u] = outcome[u] /\ job'[u].op = job[u].op
        BY <1>2, <2>2 DEF SameOps
      <3>2. GoodTask(pc[u], frame[u], job[u].op, outcome[u])
        BY DEF TaskInv
      <3> QED
        BY <3>1, <3>2
    <2> QED
      BY <2>1, <2>2
  <1>4. JobsInv'
    <2>1. ASSUME NEW i \in DOMAIN pool.jobs PROVE Queued(pool.jobs[i])'
      <3>1. pool.jobs[i] \in Tasks /\ Queued(pool.jobs[i])
        BY DEF TaskInv, JobsInv
      <3>2. pool.jobs[i] # t
        BY <3>1
      <3> QED
        BY <1>2, <3>1, <3>2 DEF Queued, Waits
    <2> QED
      BY <2>1 DEF TaskInv, JobsInv
  <1> QED
    BY <1>1, <1>3, <1>4 DEF TaskInv, Only

\* Nothing of the containers and files moves.
LEMMA SameJobs ==
  ASSUME TaskInv, NEW t \in Tasks, UNCHANGED asyncVars
  PROVE  SameOps(t) /\ job'[t].op = job[t].op
  BY DEF asyncVars, TaskInv, Shapes, SameOps

LEMMA GoTo ==
  ASSUME Shapes, NEW t \in Tasks, NEW r \in Roles, NEW l, Go(t, r, l)
  PROVE  /\ pc' = [pc EXCEPT ![t] = pc'[t]] /\ IsPos(pc'[t])
         /\ r = "owner" => pc'[t].owner = l /\ pc'[t].worker = pc[t].worker
         /\ r = "worker" => pc'[t].worker = l /\ pc'[t].owner = pc[t].owner
  <1>1. pc'[t] = [pc[t] EXCEPT ![r] = l] /\ pc' = [pc EXCEPT ![t] = pc'[t]]
    BY DEF Go, Shapes
  <1>2. DOMAIN pc[t] = {"owner", "worker"}
    BY DEF Shapes, IsPos
  <1> QED
    BY <1>1, <1>2 DEF IsPos, Roles

\* The ways the frame of a coroutine changes.
LEMMA FrameAt ==
  ASSUME NEW f, IsFrame(f), NEW a
  PROVE  LET g == [f EXCEPT !.at = a]
         IN  IsFrame(g) /\ g.at = a /\ g.by = f.by /\ g.completed = f.completed /\ g.result = f.result
  BY DEF IsFrame

LEMMA FrameResult ==
  ASSUME NEW f, IsFrame(f), NEW x
  PROVE  LET g == [f EXCEPT !.result = x]
         IN  IsFrame(g) /\ g.at = f.at /\ g.by = f.by /\ g.completed = f.completed
  BY DEF IsFrame

LEMMA FrameCompleted ==
  ASSUME NEW f, IsFrame(f)
  PROVE  LET g == [f EXCEPT !.completed = TRUE]
         IN  IsFrame(g) /\ g.at = f.at /\ g.by = f.by /\ g.completed = TRUE
  BY DEF IsFrame

LEMMA FrameRunning ==
  ASSUME NEW f, IsFrame(f), NEW x
  PROVE  LET g == [f EXCEPT !.at = "running", !.continuation = x]
         IN  IsFrame(g) /\ g.at = "running" /\ g.by = f.by /\ g.completed = f.completed
  BY DEF IsFrame

LEMMA Unmoved ==
  ASSUME Shapes, NEW t \in Tasks
  PROVE  /\ pc' = pc => pc' = [pc EXCEPT ![t] = pc'[t]] /\ IsPos(pc'[t])
         /\ frame' = frame => frame' = [frame EXCEPT ![t] = frame'[t]] /\ IsFrame(frame'[t])
         /\ outcome' = outcome => outcome' = [outcome EXCEPT ![t] = outcome'[t]]
  BY DEF Shapes

-----------------------------------------------------------------------------
(* The worker and the body of the coroutine *)

\* ready_.store(true)
LEMMA PublishKeeps ==
  ASSUME TaskInv, NEW t \in Tasks, Publish(t), UNCHANGED asyncVars
  PROVE  TaskInv'
  <1> USE DEF TaskInv
  <1>0. /\ Shapes /\ IsPos(pc[t]) /\ IsFrame(frame[t])
        /\ GoodTask(pc[t], frame[t], job[t].op, outcome[t])
    BY DEF Shapes
  <1>1. SameOps(t) /\ job'[t].op = job[t].op
    BY SameJobs
  <1>2. /\ pc' = [pc EXCEPT ![t] = pc'[t]] /\ IsPos(pc'[t])
        /\ pc'[t].worker = "wake" /\ pc'[t].owner = pc[t].owner /\ pc[t].worker = "publish"
    BY <1>0, GoTo DEF Publish, At, Roles
  <1>3. Only(t) /\ pool' = pool /\ frame' = frame /\ outcome' = outcome
    BY <1>0, <1>2, Unmoved DEF Publish, Only
  <1>4. GoodTask(pc'[t], frame'[t], job'[t].op, outcome'[t]) /\ ~Queued(t)
    BY <1>0, <1>1, <1>2, <1>3 DEF GoodTask, WorkerResumes, OwnerResumes, Queued, Waits
  <1> QED
    BY <1>1, <1>3, <1>4, TaskMove

\* handle.resume(): the coroutine is suspended.
LEMMA WakeKeeps ==
  ASSUME TaskInv, NEW t \in Tasks, Wake(t), UNCHANGED asyncVars
  PROVE  TaskInv'
  <1> USE DEF TaskInv
  <1>0. /\ Shapes /\ IsPos(pc[t]) /\ IsFrame(frame[t])
        /\ GoodTask(pc[t], frame[t], job[t].op, outcome[t])
    BY DEF Shapes
  <1>1. SameOps(t) /\ job'[t].op = job[t].op
    BY SameJobs
  <1>2. pc[t].worker = "wake" /\ frame[t].at = "suspended" /\ frame[t].by = "worker"
    BY <1>0 DEF Wake, At, GoodTask, WorkerResumes, OwnerResumes
  <1>3. /\ pc' = [pc EXCEPT ![t] = pc'[t]] /\ IsPos(pc'[t])
        /\ pc'[t].worker = "await_resume" /\ pc'[t].owner = pc[t].owner
    BY <1>0, <1>2, GoTo DEF Wake, Enter, Roles
  <1>4. frame' = [frame EXCEPT ![t] = frame'[t]] /\ frame'[t] = [frame[t] EXCEPT !.at = "running"]
    BY <1>2 DEF Wake, Enter, Shapes
  <1>5. /\ IsFrame(frame'[t]) /\ frame'[t].at = "running" /\ frame'[t].by = frame[t].by
        /\ frame'[t].completed = frame[t].completed
    BY <1>0, <1>4, FrameAt
  <1>6. Only(t) /\ pool' = pool /\ outcome' = outcome
    BY <1>0, <1>2, <1>3, <1>4, <1>5, Unmoved DEF Wake, Enter, Only
  <1>7. GoodTask(pc'[t], frame'[t], job'[t].op, outcome'[t]) /\ ~Queued(t)
    BY <1>0, <1>1, <1>2, <1>3, <1>5, <1>6 DEF GoodTask, WorkerResumes, OwnerResumes, Queued, Waits
  <1> QED
    BY <1>1, <1>6, <1>7, TaskMove

\* The result of the awaitable becomes that of the promise.
LEMMA AwaitResumeKeeps ==
  ASSUME TaskInv, NEW t \in Tasks, NEW r \in Roles, NEW x, AwaitResume(t, r, x), UNCHANGED asyncVars
  PROVE  TaskInv'
  <1> USE DEF TaskInv
  <1>0. /\ Shapes /\ IsPos(pc[t]) /\ IsFrame(frame[t])
        /\ GoodTask(pc[t], frame[t], job[t].op, outcome[t])
    BY DEF Shapes
  <1>1. SameOps(t) /\ job'[t].op = job[t].op
    BY SameJobs
  <1>2. pc[t][r] = "await_resume" /\ frame[t].at = "running"
    BY <1>0 DEF AwaitResume, At, GoodTask, WorkerResumes, OwnerResumes, Roles
  <1>3. /\ pc' = [pc EXCEPT ![t] = pc'[t]] /\ IsPos(pc'[t])
        /\ r = "owner" => pc'[t].owner = "final" /\ pc'[t].worker = pc[t].worker
        /\ r = "worker" => pc'[t].worker = "final" /\ pc'[t].owner = pc[t].owner
    BY <1>0, <1>2, GoTo DEF AwaitResume
  <1>4. frame' = [frame EXCEPT ![t] = frame'[t]] /\ frame'[t] = [frame[t] EXCEPT !.result = x]
    BY <1>2 DEF AwaitResume, Shapes
  <1>5. /\ IsFrame(frame'[t]) /\ frame'[t].at = frame[t].at /\ frame'[t].by = frame[t].by
        /\ frame'[t].completed = frame[t].completed
    BY <1>0, <1>4, FrameResult
  <1>6. Only(t) /\ pool' = pool /\ outcome' = outcome
    BY <1>0, <1>2, <1>3, <1>4, <1>5, Unmoved DEF AwaitResume, Only
  <1>7. GoodTask(pc'[t], frame'[t], job'[t].op, outcome'[t]) /\ ~Queued(t)
    BY <1>0, <1>1, <1>2, <1>3, <1>5, <1>6 DEF GoodTask, WorkerResumes, OwnerResumes, Queued, Waits, Roles
  <1> QED
    BY <1>1, <1>6, <1>7, TaskMove

\* final_awaiter: the coroutine is suspended for good.
LEMMA FinalAwaitKeeps ==
  ASSUME TaskInv, NEW t \in Tasks, NEW r \in Roles, FinalAwait(t, r), UNCHANGED asyncVars
  PROVE  TaskInv'
  <1> USE DEF TaskInv
  <1>0. /\ Shapes /\ IsPos(pc[t]) /\ IsFrame(frame[t])
        /\ GoodTask(pc[t], frame[t], job[t].op, outcome[t])
    BY DEF Shapes
  <1>1. SameOps(t) /\ job'[t].op = job[t].op
    BY SameJobs
  <1>2. pc[t][r] = "final" /\ frame[t].at = "running"
    BY <1>0 DEF FinalAwait, At, GoodTask, WorkerResumes, OwnerResumes, Roles
  <1>3. /\ pc' = [pc EXCEPT ![t] = pc'[t]] /\ IsPos(pc'[t])
        /\ r = "owner" => pc'[t].owner = "complete" /\ pc'[t].worker = pc[t].worker
        /\ r = "worker" => pc'[t].worker = "complete" /\ pc'[t].owner = pc[t].owner
    BY <1>0, <1>2, GoTo DEF FinalAwait
  <1>4. frame' = [frame EXCEPT ![t] = frame'[t]] /\ frame'[t] = [frame[t] EXCEPT !.at = "final"]
    BY <1>2 DEF FinalAwait, Shapes
  <1>5. /\ IsFrame(frame'[t]) /\ frame'[t].at = "final" /\ frame'[t].by = frame[t].by
        /\ frame'[t].completed = frame[t].completed
    BY <1>0, <1>4, FrameAt
  <1>6. Only(t) /\ pool' = pool /\ outcome' = outcome
    BY <1>0, <1>2, <1>3, <1>4, <1>5, Unmoved DEF FinalAwait, Only
  <1>7. GoodTask(pc'[t], frame'[t], job'[t].op, outcome'[t]) /\ ~Queued(t)
    BY <1>0, <1>1, <1>2, <1>3, <1>5, <1>6 DEF GoodTask, WorkerResumes, OwnerResumes, Queued, Waits, Roles
  <1> QED
    BY <1>1, <1>6, <1>7, TaskMove

\* completed_ is the last thing the worker writes to the frame.
LEMMA CompleteKeeps ==
  ASSUME TaskInv, NEW t \in Tasks, NEW r \in Roles, Complete(t, r), UNCHANGED asyncVars
  PROVE  TaskInv'
  <1> USE DEF TaskInv
  <1>0. /\ Shapes /\ IsPos(pc[t]) /\ IsFrame(frame[t])
        /\ GoodTask(pc[t], frame[t], job[t].op, outcome[t])
    BY DEF Shapes
  <1>1. SameOps(t) /\ job'[t].op = job[t].op
    BY SameJobs
  <1>2. pc[t][r] = "complete" /\ frame[t].at = "final"
    BY <1>0 DEF Complete, At, GoodTask, WorkerResumes, OwnerResumes, Roles
  <1> DEFINE l == IF r = "worker" THEN "end" ELSE IF cont[t][r] = Outer THEN "ready" ELSE "holding"
  <1>3. /\ pc' = [pc EXCEPT ![t] = pc'[t]] /\ IsPos(pc'[t])
        /\ r = "owner" => pc'[t].owner = l /\ pc'[t].worker = pc[t].worker
        /\ r = "worker" => pc'[t].worker = l /\ pc'[t].owner = pc[t].owner
    BY <1>0, <1>2, GoTo DEF Complete
  <1>4. frame' = [frame EXCEPT ![t] = frame'[t]] /\ frame'[t] = [frame[t] EXCEPT !.completed = TRUE]
    BY <1>2 DEF Complete, Shapes
  <1>5. /\ IsFrame(frame'[t]) /\ frame'[t].at = "final" /\ frame'[t].by = frame[t].by
        /\ frame'[t].completed = TRUE
    BY <1>0, <1>2, <1>4, FrameCompleted
  <1>6. Only(t) /\ pool' = pool /\ outcome' = outcome
    BY <1>0, <1>2, <1>3, <1>4, <1>5, Unmoved DEF Complete, Only
  <1>7. GoodTask(pc'[t], frame'[t], job'[t].op, outcome'[t]) /\ ~Queued(t)
    BY <1>0, <1>1, <1>2, <1>3, <1>5, <1>6 DEF GoodTask, WorkerResumes, OwnerResumes, Queued, Waits, Roles
  <1> QED
    BY <1>1, <1>6, <1>7, TaskMove

-----------------------------------------------------------------------------
(* The owner *)

\* done() is true only when nobody will touch the frame any more.
LEMMA DoneKeeps ==
  ASSUME TaskInv, NEW t \in Tasks, Done(t), UNCHANGED asyncVars
  PROVE  TaskInv'
  <1> USE DEF TaskInv
  <1>0. /\ Shapes /\ IsPos(pc[t]) /\ IsFrame(frame[t])
        /\ GoodTask(pc[t], frame[t], job[t].op, outcome[t])
    BY DEF Shapes
  <1>1. SameOps(t) /\ job'[t].op = job[t].op
    BY SameJobs
  <1>2. /\ pc' = [pc EXCEPT ![t] = pc'[t]] /\ IsPos(pc'[t]) /\ pc[t].owner = "holding"
        /\ pc'[t].owner = "ready" /\ pc'[t].worker = pc[t].worker
    BY <1>0, GoTo DEF Done, At, Roles
  <1>3. Only(t) /\ pool' = pool /\ frame' = frame /\ outcome' = outcome
    BY <1>0, <1>2, Unmoved DEF Done, Only
  <1>4. ~(frame[t].completed = FALSE)
    BY DEF Done
  <1>5. /\ (WorkerResumes(pc[t], frame[t]) /\ pc[t].worker = "end") \/ OwnerResumes(pc[t], frame[t])
        /\ frame[t].at = "final"
    BY <1>0, <1>2, <1>4 DEF GoodTask, WorkerResumes, OwnerResumes
  <1>6. GoodTask(pc'[t], frame'[t], job'[t].op, outcome'[t]) /\ ~Queued(t)
    BY <1>0, <1>1, <1>2, <1>3, <1>5 DEF GoodTask, WorkerResumes, OwnerResumes, Queued, Waits
  <1> QED
    BY <1>1, <1>3, <1>6, TaskMove

\* An owner awaits only what no worker will resume.
LEMMA AwaitReadyKeeps ==
  ASSUME TaskInv, NEW t \in Tasks, AwaitReady(t), UNCHANGED asyncVars, Pending = FALSE
  PROVE  TaskInv'
  <1> USE DEF TaskInv
  <1>0. /\ Shapes /\ IsPos(pc[t]) /\ IsFrame(frame[t])
        /\ GoodTask(pc[t], frame[t], job[t].op, outcome[t])
    BY DEF Shapes
  <1>1. SameOps(t) /\ job'[t].op = job[t].op
    BY SameJobs
  <1>2. /\ pc' = [pc EXCEPT ![t] = pc'[t]] /\ IsPos(pc'[t]) /\ pc[t].owner = "holding"
        /\ pc'[t].owner = (IF frame[t].at = "final" THEN "ready" ELSE "await_suspend") /\ pc'[t].worker = pc[t].worker
    BY <1>0, GoTo DEF AwaitReady, At, Roles
  <1>3. Only(t) /\ pool' = pool /\ frame' = frame /\ outcome' = outcome
    BY <1>0, <1>2, Unmoved DEF AwaitReady, Only
  <1>4. GoodTask(pc'[t], frame'[t], job'[t].op, outcome'[t]) /\ ~Queued(t)
    BY <1>0, <1>1, <1>2, <1>3 DEF AwaitReady, GoodTask, WorkerResumes, OwnerResumes, Queued, Waits
  <1> QED
    BY <1>1, <1>3, <1>4, TaskMove

\* resume() of a coroutine that only its owner resumes
LEMMA ResumeKeeps ==
  ASSUME TaskInv, NEW t \in Tasks, Resume(t), UNCHANGED asyncVars
  PROVE  TaskInv'
  <1> USE DEF TaskInv
  <1>0. /\ Shapes /\ IsPos(pc[t]) /\ IsFrame(frame[t])
        /\ GoodTask(pc[t], frame[t], job[t].op, outcome[t])
    BY DEF Shapes
  <1>1. SameOps(t) /\ job'[t].op = job[t].op
    BY SameJobs
  <1>2. pc[t].owner = "holding" /\ frame[t].at = "suspended" /\ frame[t].by = "owner" /\ pc[t].worker = "idle"
    BY <1>0 DEF Resume, At, GoodTask, WorkerResumes, OwnerResumes
  <1>3. /\ pc' = [pc EXCEPT ![t] = pc'[t]] /\ IsPos(pc'[t])
        /\ pc'[t].owner = "await_resume" /\ pc'[t].worker = pc[t].worker
    BY <1>0, <1>2, GoTo DEF Resume, Enter, Roles
  <1>4. frame' = [frame EXCEPT ![t] = frame'[t]] /\ frame'[t] = [frame[t] EXCEPT !.at = "running"]
    BY <1>2 DEF Resume, Enter, Shapes
  <1>5. /\ IsFrame(frame'[t]) /\ frame'[t].at = "running" /\ frame'[t].by = frame[t].by
        /\ frame'[t].completed = frame[t].completed
    BY <1>0, <1>4, FrameAt
  <1>6. Only(t) /\ pool' = pool /\ outcome' = outcome
    BY <1>0, <1>2, <1>3, <1>4, <1>5, Unmoved DEF Resume, Enter, Only
  <1>7. GoodTask(pc'[t], frame'[t], job'[t].op, outcome'[t]) /\ ~Queued(t)
    BY <1>0, <1>1, <1>2, <1>3, <1>5, <1>6 DEF GoodTask, WorkerResumes, OwnerResumes, Queued, Waits
  <1> QED
    BY <1>1, <1>6, <1>7, TaskMove

\* The task that is awaited is suspended still.
LEMMA AwaitSuspendKeeps ==
  ASSUME TaskInv, NEW t \in Tasks, AwaitSuspend(t), UNCHANGED asyncVars
  PROVE  TaskInv'
  <1> USE DEF TaskInv
  <1>0. /\ Shapes /\ IsPos(pc[t]) /\ IsFrame(frame[t])
        /\ GoodTask(pc[t], frame[t], job[t].op, outcome[t])
    BY DEF Shapes
  <1>1. SameOps(t) /\ job'[t].op = job[t].op
    BY SameJobs
  <1>2. pc[t].owner = "await_suspend" /\ frame[t].at = "suspended" /\ frame[t].by # "worker" /\ pc[t].worker = "idle"
    BY <1>0 DEF AwaitSuspend, At, GoodTask, WorkerResumes, OwnerResumes
  <1>3. /\ pc' = [pc EXCEPT ![t] = pc'[t]] /\ IsPos(pc'[t])
        /\ pc'[t].owner = "await_resume" /\ pc'[t].worker = pc[t].worker
    BY <1>0, <1>2, GoTo DEF AwaitSuspend, Roles
  <1>4. /\ frame' = [frame EXCEPT ![t] = frame'[t]]
        /\ frame'[t] = [frame[t] EXCEPT !.at = "running", !.continuation = Outer]
    BY <1>2 DEF AwaitSuspend, Shapes
  <1>5. IsFrame(frame'[t]) /\ frame'[t].at = "running" /\ frame'[t].by = frame[t].by
    BY <1>0, <1>4 DEF IsFrame
  <1>6. Only(t) /\ pool' = pool /\ outcome' = outcome
    BY <1>0, <1>2, <1>3, <1>4, <1>5, Unmoved DEF AwaitSuspend, Only
  <1>7. GoodTask(pc'[t], frame'[t], job'[t].op, outcome'[t]) /\ ~Queued(t)
    BY <1>0, <1>1, <1>2, <1>3, <1>5, <1>6 DEF GoodTask, WorkerResumes, OwnerResumes, Queued, Waits
  <1> QED
    BY <1>1, <1>6, <1>7, TaskMove

\* get() and await_resume of the task
LEMMA TakeKeeps ==
  ASSUME TaskInv, NEW t \in Tasks, Take(t), UNCHANGED asyncVars
  PROVE  TaskInv'
  <1> USE DEF TaskInv
  <1>0. /\ Shapes /\ IsPos(pc[t]) /\ IsFrame(frame[t])
        /\ GoodTask(pc[t], frame[t], job[t].op, outcome[t])
    BY DEF Shapes
  <1>1. SameOps(t) /\ job'[t].op = job[t].op
    BY SameJobs
  <1>2. /\ pc' = [pc EXCEPT ![t] = pc'[t]] /\ IsPos(pc'[t]) /\ pc[t].owner = "ready"
        /\ pc'[t].owner = "taken" /\ pc'[t].worker = pc[t].worker
    BY <1>0, GoTo DEF Take, At, Roles
  <1>3. outcome' = [outcome EXCEPT ![t] = outcome'[t]]
    BY DEF Take, Shapes
  <1>4. Only(t) /\ pool' = pool /\ frame' = frame
    BY <1>0, <1>2, <1>3, Unmoved DEF Take, Only
  <1>5. GoodTask(pc'[t], frame'[t], job'[t].op, outcome'[t]) /\ ~Queued(t)
    BY <1>0, <1>1, <1>2, <1>4 DEF GoodTask, WorkerResumes, OwnerResumes, Queued, Waits
  <1> QED
    BY <1>1, <1>4, <1>5, TaskMove

\* handle_.destroy(): no worker is left in the coroutine.
LEMMA DestroyKeeps ==
  ASSUME TaskInv, NEW t \in Tasks, Destroy(t), UNCHANGED asyncVars
  PROVE  TaskInv'
  <1> USE DEF TaskInv
  <1>0. /\ Shapes /\ IsPos(pc[t]) /\ IsFrame(frame[t])
        /\ GoodTask(pc[t], frame[t], job[t].op, outcome[t])
    BY DEF Shapes
  <1>1. SameOps(t) /\ job'[t].op = job[t].op
    BY SameJobs
  <1>2. /\ pc' = [pc EXCEPT ![t] = pc'[t]] /\ IsPos(pc'[t]) /\ pc[t].owner = "taken"
        /\ pc'[t].owner = "gone" /\ pc'[t].worker = pc[t].worker
    BY <1>0, GoTo DEF Destroy, At, Roles
  <1>3. frame' = [frame EXCEPT ![t] = frame'[t]] /\ frame'[t] = [frame[t] EXCEPT !.at = "destroyed"]
    BY DEF Destroy, Shapes
  <1>4. IsFrame(frame'[t]) /\ frame'[t].by = frame[t].by
    BY <1>0, <1>3, FrameAt
  <1>5. Only(t) /\ pool' = pool /\ outcome' = outcome
    BY <1>0, <1>2, <1>3, <1>4, Unmoved DEF Destroy, Only
  <1>6. GoodTask(pc'[t], frame'[t], job'[t].op, outcome'[t]) /\ ~Queued(t)
    BY <1>0, <1>1, <1>2, <1>4, <1>5 DEF GoodTask, WorkerResumes, OwnerResumes, Queued, Waits
  <1> QED
    BY <1>1, <1>5, <1>6, TaskMove

\* execute(): the executor takes the job, or a thread is started after all.
LEMMA SubmitKeeps ==
  ASSUME TaskInv, NEW t \in Tasks, Submit(t), UNCHANGED asyncVars
  PROVE  TaskInv'
  <1> USE DEF TaskInv
  <1>0. /\ Shapes /\ IsPos(pc[t]) /\ IsFrame(frame[t])
        /\ GoodTask(pc[t], frame[t], job[t].op, outcome[t])
    BY DEF Shapes
  <1>1. SameOps(t) /\ job'[t].op = job[t].op
    BY SameJobs
  <1> DEFINE w == IF pool.running THEN "idle" ELSE "work"
             jobs == IF pool.running THEN Append(pool.jobs, t) ELSE pool.jobs
  <1>2. /\ pc' = [pc EXCEPT ![t] = pc'[t]] /\ IsPos(pc'[t]) /\ pc[t].owner = "submit"
        /\ pc'[t].owner = "holding" /\ pc'[t].worker = w
    BY <1>0 DEF Submit, At, IsPos, Shapes
  <1>3. Only(t) /\ frame' = frame /\ outcome' = outcome
    BY <1>0, <1>2, Unmoved DEF Submit, Only
  <1>4. pool'.jobs = jobs /\ DOMAIN pool' = {"running", "jobs"}
    BY DEF Submit, Shapes
  <1>5. GoodTask(pc'[t], frame'[t], job'[t].op, outcome'[t]) /\ frame[t].by = "worker"
    BY <1>0, <1>1, <1>2, <1>3 DEF GoodTask, WorkerResumes, OwnerResumes, FileOps, Writing, Reading
  <1>6. Shapes'
    BY <1>1, <1>3, <1>4, OthersStay DEF SameOps, Only, Shapes
  <1>7. \A u \in Tasks \ {t} : pc'[u] = pc[u] /\ frame'[u] = frame[u] /\ outcome'[u] = outcome[u]
    BY <1>3, OthersStay
  <1>8. ASSUME NEW u \in Tasks PROVE GoodTask(pc'[u], frame'[u], job'[u].op, outcome'[u])
    BY <1>1, <1>5, <1>7 DEF SameOps
  <1>9. JobsInv'
    <2>1. /\ pool.jobs \in Seq(Tasks) /\ \A k \in DOMAIN pool.jobs : Queued(pool.jobs[k])
          /\ \A k, j \in DOMAIN pool.jobs : pool.jobs[k] = pool.jobs[j] => k = j
      BY DEF JobsInv
    <2>2. \A k \in DOMAIN pool.jobs : pool.jobs[k] \in Tasks /\ pool.jobs[k] # t
      BY <1>2, <2>1 DEF Queued, Waits
    <2>3. ASSUME NEW k \in DOMAIN pool.jobs PROVE Waits(pc'[pool.jobs[k]], frame'[pool.jobs[k]])
      BY <1>7, <2>1, <2>2 DEF Queued
    <2>4. CASE pool.running
      <3>1. pool'.jobs = Append(pool.jobs, t) /\ pc'[t].worker = "idle"
        BY <1>2, <1>4, <2>4
      <3>2. Waits(pc'[t], frame'[t])
        BY <1>2, <1>3, <1>5, <3>1 DEF Waits
      <3> DEFINE q == Append(pool.jobs, t)
      <3>3. /\ q \in Seq(Tasks) /\ DOMAIN q = DOMAIN pool.jobs \union {Len(pool.jobs) + 1}
            /\ \A k \in DOMAIN pool.jobs : q[k] = pool.jobs[k]
            /\ q[Len(pool.jobs) + 1] = t /\ Len(pool.jobs) + 1 \notin DOMAIN pool.jobs
        BY <2>1
      <3> HIDE DEF q
      <3>4. ASSUME NEW k \in DOMAIN q PROVE Waits(pc'[q[k]], frame'[q[k]])
        BY <2>3, <3>2, <3>3
      <3>5. \A k, j \in DOMAIN q : q[k] = q[j] => k = j
        BY <2>1, <2>2, <3>3
      <3> QED
        BY <3>1, <3>3, <3>4, <3>5 DEF JobsInv, Queued, q
    <2>5. CASE ~pool.running
      <3>1. pool'.jobs = pool.jobs
        BY <1>4, <2>5
      <3> QED
        BY <2>1, <2>3, <3>1 DEF JobsInv, Queued
    <2> QED
      BY <2>4, <2>5
  <1> QED
    BY <1>3, <1>6, <1>8, <1>9 DEF Only

-----------------------------------------------------------------------------
(* The executor *)

\* The context, its guards and the end of the executor concern no task.
LEMMA ContextKeeps ==
  ASSUME TaskInv, UNCHANGED asyncVars, UNCHANGED <<frame, pc, outcome, misuse>>,
         pool' = pool \/ pool' = [pool EXCEPT !.running = FALSE]
  PROVE  TaskInv'
  <1>1. pool'.jobs = pool.jobs /\ DOMAIN pool' = {"running", "jobs"}
    BY DEF TaskInv, Shapes
  <1>2. job' = job
    BY DEF asyncVars
  <1>3. Shapes'
    BY <1>1, <1>2 DEF TaskInv, Shapes
  <1>4. JobsInv'
    BY <1>1 DEF TaskInv, JobsInv, Queued
  <1> QED
    BY <1>2, <1>3, <1>4 DEF TaskInv

\* The executor starts a job of its queue, which no other entry stands for.
LEMMA PoolRunsKeeps ==
  ASSUME TaskInv, PoolRuns, UNCHANGED asyncVars
  PROVE  TaskInv'
  <1> USE DEF TaskInv
  <1> DEFINE t == Head(pool.jobs)
  <1>0. /\ pool.jobs \in Seq(Tasks) /\ pool.jobs # <<>>
        /\ \A k \in DOMAIN pool.jobs : Queued(pool.jobs[k])
        /\ \A k, j \in DOMAIN pool.jobs : pool.jobs[k] = pool.jobs[j] => k = j
    BY DEF JobsInv, PoolRuns
  <1>1. t \in Tasks /\ t = pool.jobs[1] /\ 1 \in DOMAIN pool.jobs
    BY <1>0
  <1>2. Queued(t)
    BY <1>0, <1>1
  <1>3. Go(t, "worker", "work") /\ pool'.jobs = Tail(pool.jobs) /\ DOMAIN pool' = {"running", "jobs"}
    BY DEF PoolRuns, Shapes
  <1> HIDE DEF t
  <1>4. Shapes /\ IsFrame(frame[t]) /\ GoodTask(pc[t], frame[t], job[t].op, outcome[t])
    BY <1>1 DEF Shapes
  <1>5. /\ pc' = [pc EXCEPT ![t] = pc'[t]] /\ IsPos(pc'[t])
        /\ pc'[t].worker = "work" /\ pc'[t].owner = pc[t].owner
    BY <1>1, <1>3, <1>4, GoTo DEF Roles
  <1>6. Only(t) /\ frame' = frame /\ outcome' = outcome
    BY <1>1, <1>4, <1>5, Unmoved DEF PoolRuns, Only
  <1>7. SameOps(t) /\ job'[t].op = job[t].op
    BY <1>1, SameJobs
  <1>8. GoodTask(pc'[t], frame'[t], job'[t].op, outcome'[t])
    BY <1>2, <1>4, <1>5, <1>6, <1>7 DEF GoodTask, WorkerResumes, OwnerResumes, Queued, Waits
  <1>9. Shapes'
    BY <1>1, <1>3, <1>4, <1>6, <1>7, OthersStay DEF SameOps, Only, Shapes
  <1>10. \A u \in Tasks \ {t} : pc'[u] = pc[u] /\ frame'[u] = frame[u] /\ outcome'[u] = outcome[u]
    BY <1>1, <1>4, <1>6, OthersStay
  <1>11. ASSUME NEW u \in Tasks PROVE GoodTask(pc'[u], frame'[u], job'[u].op, outcome'[u])
    BY <1>7, <1>8, <1>10 DEF SameOps
  <1>12. JobsInv'
    <2> DEFINE q == Tail(pool.jobs)
    <2>1. q \in Seq(Tasks) /\ \A k \in DOMAIN q : k + 1 \in DOMAIN pool.jobs /\ q[k] = pool.jobs[k + 1] /\ k \in Nat /\ k # 0
      BY <1>0
    <2> HIDE DEF q
    <2>2. \A k \in DOMAIN q : q[k] # t /\ q[k] \in Tasks
      BY <1>0, <1>1, <2>1
    <2>3. \A k \in DOMAIN q : Queued(q[k])
      BY <1>0, <2>1
    <2>4. ASSUME NEW k \in DOMAIN q PROVE Waits(pc'[q[k]], frame'[q[k]])
      BY <1>10, <2>2, <2>3 DEF Queued
    <2>5. \A k, j \in DOMAIN q : q[k] = q[j] => k = j
      BY <1>0, <2>1
    <2> QED
      BY <1>3, <2>1, <2>4, <2>5 DEF JobsInv, Queued, q
  <1> QED
    BY <1>6, <1>9, <1>11, <1>12 DEF Only

-----------------------------------------------------------------------------
(* Calls *)

LEMMA JobFields ==
  ASSUME NEW op, NEW data
  PROVE  /\ IsJob(Job(op, data)) /\ Job(op, data).op = op /\ Job(op, data).step = "start"
         /\ Job(op, data).data = data /\ Job(op, data).total = Len(data) /\ Job(op, data).pos = 0
         /\ Job(op, data).progress = <<>> /\ Job(op, data).clean = FALSE
  BY DEF Job, NoJob, IsJob

LEMMA NewFrames ==
  /\ IsFrame(NoFrame) /\ NoFrame.at = "none"
  /\ \A by : /\ IsFrame(Suspended(by)) /\ Suspended(by).at = "suspended" /\ Suspended(by).by = by
             /\ Suspended(by).completed = FALSE
  /\ \A x : IsFrame(Finished(x)) /\ Finished(x).at = "final" /\ Finished(x).by = "none"
  BY DEF IsFrame, NoFrame, Suspended, Finished

LEMMA JobAt ==
  ASSUME Shapes, NEW t \in Tasks, NEW j, IsJob(j), job' = [job EXCEPT ![t] = j]
  PROVE  SameOps(t) /\ job'[t] = j
  <1>1. job'[t] = j /\ job' = [u \in Tasks |-> job'[u]] /\ \A u \in Tasks \ {t} : job'[u] = job[u]
    BY DEF Shapes
  <1> QED
    BY <1>1 DEF SameOps, Shapes

\* A call makes a new task in one of its first positions.
LEMMA CallKeeps ==
  ASSUME TaskInv, NEW t \in Tasks, pc[t].owner = "idle", NEW op, NEW data,
         job' = [job EXCEPT ![t] = Job(op, data)], NEW p, NEW f,
         pc' = [pc EXCEPT ![t] = p], frame' = [frame EXCEPT ![t] = f], IsPos(p), IsFrame(f),
         UNCHANGED <<outcome, pool, misuse>>,
         \/ p.owner = "inside" /\ p.worker = "work" /\ op \in Synchronous
         \/ p.owner = "holding" /\ p.worker = "work" /\ WorkerResumes(p, f)
         \/ op \notin FileOps /\ p.owner \notin {"taken", "gone"} /\ (WorkerResumes(p, f) \/ OwnerResumes(p, f))
  PROVE  TaskInv'
  <1>1. Shapes /\ GoodTask(pc[t], frame[t], job[t].op, outcome[t])
    BY DEF TaskInv
  <1> DEFINE j == Job(op, data)
  <1>j. IsJob(j) /\ j.op = op /\ job' = [job EXCEPT ![t] = j]
    BY JobFields
  <1> HIDE DEF j
  <1>2. SameOps(t) /\ job'[t].op = op
    <2>1. SameOps(t) /\ job'[t] = j
      BY <1>1, <1>j, JobAt
    <2> QED
      BY <1>j, <2>1
  <1>3. pc'[t] = p /\ frame'[t] = f
    BY <1>1 DEF Shapes
  <1>4. Only(t)
    BY <1>1, <1>3, Unmoved DEF Only
  <1>5. outcome'[t] = None /\ ~Queued(t)
    BY <1>1 DEF GoodTask, Queued, Waits
  <1>6. GoodTask(p, f, op, None)
    BY DEF GoodTask, WorkerResumes
  <1> QED
    BY <1>2, <1>3, <1>4, <1>5, <1>6, TaskMove

LEMMA StartKeeps ==
  ASSUME TaskInv, NEW t \in Tasks, Start(t)
  PROVE  TaskInv'
  <1>0. Shapes
    BY DEF TaskInv
  <1> DEFINE hw == [owner |-> "holding", worker |-> "work"]
             si == [owner |-> "submit", worker |-> "idle"]
             iw == [owner |-> "inside", worker |-> "work"]
             hi == [pc[t] EXCEPT !["owner"] = "holding"]
             pi == [pc[t] EXCEPT !["owner"] = "pulling"]
  <1>1. /\ IsPos(hw) /\ hw.owner = "holding" /\ hw.worker = "work"
        /\ IsPos(si) /\ si.owner = "submit" /\ si.worker = "idle"
        /\ IsPos(iw) /\ iw.owner = "inside" /\ iw.worker = "work"
    BY DEF IsPos
  <1>2. ASSUME pc[t].owner = "idle"
        PROVE  /\ IsPos(hi) /\ hi.owner = "holding" /\ hi.worker = "idle"
               /\ IsPos(pi) /\ pi.owner = "pulling" /\ pi.worker = "idle"
    <2>1. pc[t].worker = "idle" /\ DOMAIN pc[t] = {"owner", "worker"}
      BY <1>2 DEF TaskInv, Shapes, IsPos, GoodTask, WorkerResumes, OwnerResumes
    <2> QED
      BY <2>1 DEF IsPos
  <1>3. WorkerResumes(hw, Suspended("worker")) /\ WorkerResumes(si, Suspended("worker"))
    BY <1>1, NewFrames DEF WorkerResumes
  <1>4. \A l : Go(t, "owner", l) => pc' = [pc EXCEPT ![t] = [pc[t] EXCEPT !["owner"] = l]]
    BY DEF Go
  <1> HIDE DEF hw, si, iw, hi, pi
  <1>5. ASSUME NEW op, NEW v, Call(t, op, v) PROVE TaskInv'
    <2>1. /\ pc[t].owner = "idle" /\ pc' = [pc EXCEPT ![t] = hw]
          /\ frame' = [frame EXCEPT ![t] = Suspended("worker")] /\ UNCHANGED <<outcome, pool, misuse>>
      BY <1>5 DEF Call, CallAsync, At, hw
    <2>2. PICK data : job' = [job EXCEPT ![t] = Job(op, data)]
      BY <1>5 DEF Call
    <2> QED
      BY <1>1, <1>3, <2>1, <2>2, CallKeeps, NewFrames
  <1>6. ASSUME NEW op \in Synchronous, CallPacket(t, op) PROVE TaskInv'
    <2>1. /\ pc[t].owner = "idle" /\ pc' = [pc EXCEPT ![t] = iw]
          /\ frame' = [frame EXCEPT ![t] = frame[t]] /\ IsFrame(frame[t])
          /\ UNCHANGED <<outcome, pool, misuse>> /\ job' = [job EXCEPT ![t] = Job(op, <<>>)]
      BY <1>0, <1>6 DEF CallPacket, At, iw, Shapes
    <2> QED
      BY <1>1, <2>1, CallKeeps
  <1>7. CASE CallWork(t)
    <2>1. /\ pc[t].owner = "idle" /\ pc' = [pc EXCEPT ![t] = IF context /\ pool.running THEN si ELSE hw]
          /\ frame' = [frame EXCEPT ![t] = Suspended("worker")] /\ UNCHANGED <<outcome, pool, misuse>>
          /\ job' = [job EXCEPT ![t] = Job("compute", <<>>)]
      BY <1>7 DEF CallWork, CallExecutor, At, hw, si
    <2>2. "compute" \notin FileOps
      BY DEF FileOps, Writing, Reading
    <2>3. CASE context /\ pool.running
      BY <1>1, <1>3, <2>1, <2>2, <2>3, CallKeeps, NewFrames
    <2>4. CASE ~(context /\ pool.running)
      BY <1>1, <1>3, <2>1, <2>2, <2>4, CallKeeps, NewFrames
    <2> QED
      BY <2>3, <2>4
  <1>8. ASSUME NEW op, op \notin FileOps, NEW x, CallReady(t, x) \/ CallManual(t),
               job' = [job EXCEPT ![t] = Job(op, <<>>)]
        PROVE  TaskInv'
    <2>1. /\ pc[t].owner = "idle" /\ pc' = [pc EXCEPT ![t] = hi] /\ UNCHANGED <<outcome, pool, misuse>>
          /\ \/ frame' = [frame EXCEPT ![t] = Suspended("owner")]
             \/ frame' = [frame EXCEPT ![t] = Finished(x)]
      BY <1>4, <1>8 DEF CallReady, CallManual, At, hi
    <2>2. OwnerResumes(hi, Suspended("owner")) /\ OwnerResumes(hi, Finished(x))
      BY <1>2, <2>1, NewFrames DEF OwnerResumes
    <2> QED
      BY <1>2, <1>8, <2>1, <2>2, CallKeeps, NewFrames
  <1>9. CASE CallChunked(t)
    <2>1. /\ pc[t].owner = "idle" /\ pc' = [pc EXCEPT ![t] = pi] /\ UNCHANGED <<outcome, pool, misuse>>
          /\ frame' = [frame EXCEPT ![t] = Suspended("consumer")]
          /\ job' = [job EXCEPT ![t] = Job("chunked", <<>>)]
      BY <1>4, <1>9 DEF CallChunked, At, pi
    <2>2. OwnerResumes(pi, Suspended("consumer")) /\ "chunked" \notin FileOps
      BY <1>2, <2>1, NewFrames DEF OwnerResumes, FileOps, Writing, Reading
    <2> QED
      BY <1>2, <2>1, <2>2, CallKeeps, NewFrames
  <1>10. "part" \notin FileOps /\ "other" \notin FileOps
    BY DEF FileOps, Writing, Reading
  <1>11. CASE StreamingPart(t) \/ StreamingPartPlain(t)
    BY <1>8, <1>10, <1>11 DEF StreamingPart, StreamingPartPlain
  <1>12. CASE CallOther(t)
    BY <1>8, <1>10, <1>12 DEF CallOther
  <1> QED
    BY <1>5, <1>6, <1>7, <1>9, <1>11, <1>12 DEF Start

-----------------------------------------------------------------------------
(* The work and its end *)

SameOp(t) == SameOps(t) /\ job'[t].op = job[t].op

\* Work that goes on, in its local variables.
LEMMA LocalKeeps ==
  ASSUME TaskInv, NEW t \in Tasks, SameOp(t), UNCHANGED taskVars
  PROVE  TaskInv'
  <1>1. UNCHANGED <<pc, frame, outcome, pool, misuse>>
    BY DEF taskVars
  <1>2. Shapes'
    BY <1>1 DEF TaskInv, Shapes, SameOp, SameOps
  <1>3. \A u \in Tasks : job'[u].op = job[u].op
    BY DEF SameOp, SameOps
  <1>4. JobsInv'
    BY <1>1 DEF TaskInv, JobsInv, Queued
  <1> QED
    BY <1>1, <1>2, <1>3, <1>4 DEF TaskInv

\* Work that is over.
LEMMA ReturnKeeps ==
  ASSUME TaskInv, NEW t \in Tasks, SameOp(t), NEW x, Return(t, x), pc[t].worker = "work"
  PROVE  TaskInv'
  <1>0. /\ Shapes /\ IsPos(pc[t]) /\ IsFrame(frame[t]) /\ misuse = FALSE
        /\ GoodTask(pc[t], frame[t], job[t].op, outcome[t])
    BY DEF TaskInv, Shapes
  <1>1. SameOps(t) /\ job'[t].op = job[t].op /\ ~Queued(t)
    BY DEF SameOp, Queued, Waits
  <1>2. CASE job[t].op \in FileOps
    <2>1. /\ outcome' = [outcome EXCEPT ![t] = x]
          /\ pc' = [pc EXCEPT ![t] = [owner |-> "gone", worker |-> "end"]]
          /\ frame' = [frame EXCEPT ![t].completed = TRUE, ![t].at = "destroyed"]
          /\ pool' = pool /\ misuse' = misuse
      BY <1>2 DEF Return, FileOps
    <2>2. /\ pc' = [pc EXCEPT ![t] = pc'[t]] /\ IsPos(pc'[t]) /\ pc'[t].owner = "gone" /\ pc'[t].worker = "end"
      BY <1>0, <2>1 DEF Shapes, IsPos
    <2>3. frame' = [frame EXCEPT ![t] = frame'[t]] /\ IsFrame(frame'[t])
      BY <1>0, <2>1 DEF Shapes, IsFrame
    <2>4. outcome' = [outcome EXCEPT ![t] = outcome'[t]]
      BY <1>0, <2>1 DEF Shapes
    <2>5. GoodTask(pc'[t], frame'[t], job'[t].op, outcome'[t])
      BY <2>2 DEF GoodTask
    <2> QED
      BY <1>1, <2>1, <2>2, <2>3, <2>4, <2>5, TaskMove DEF Only
  <1>3. CASE job[t].op \notin FileOps
    <2>1. Worked(t, x)
      BY <1>3 DEF Return, FileOps
    <2>2. /\ pc' = [pc EXCEPT ![t] = pc'[t]] /\ IsPos(pc'[t])
          /\ pc'[t].worker = "publish" /\ pc'[t].owner = pc[t].owner
      BY <1>0, <2>1, GoTo DEF Worked, Roles
    <2>3. Only(t) /\ pool' = pool /\ frame' = frame /\ outcome' = outcome
      BY <1>0, <2>1, <2>2, Unmoved DEF Worked, Only
    <2>4. job[t].op \notin Synchronous
      BY <1>3 DEF FileOps, Writing, Reading, Synchronous
    <2>5. GoodTask(pc'[t], frame'[t], job'[t].op, outcome'[t])
      BY <1>0, <1>1, <1>3, <2>2, <2>3, <2>4 DEF GoodTask, WorkerResumes, OwnerResumes
    <2> QED
      BY <1>1, <2>3, <2>5, TaskMove
  <1> QED
    BY <1>2, <1>3

\* The jobs of a step: that of t becomes j, the others at most lose clean.
JobsStep(t, j) ==
  \/ job' = [job EXCEPT ![t] = j]
  \/ job' = [u \in Tasks |-> IF u = t THEN j ELSE [job[u] EXCEPT !.clean = FALSE]]

LEMMA JobsStepOps ==
  ASSUME Shapes, NEW t \in Tasks, NEW j, IsJob(j), j.op = job[t].op, JobsStep(t, j)
  PROVE  SameOp(t) /\ job'[t] = j
  <1>1. CASE job' = [job EXCEPT ![t] = j]
    BY <1>1, JobAt DEF SameOp
  <1>2. CASE job' = [u \in Tasks |-> IF u = t THEN j ELSE [job[u] EXCEPT !.clean = FALSE]]
    <2>1. job'[t] = j /\ job' = [u \in Tasks |-> job'[u]]
      BY <1>2
    <2>2. ASSUME NEW u \in Tasks \ {t} PROVE IsJob(job'[u]) /\ job'[u].op = job[u].op
      BY <1>2 DEF Shapes, IsJob
    <2> QED
      BY <2>1, <2>2 DEF SameOp, SameOps
  <1> QED
    BY <1>1, <1>2 DEF JobsStep

Closed(j) == [j EXCEPT !.step = "closed"]
Opened(j) == [j EXCEPT !.step = "write", !.pos = 0]
Encoded(j, d, n, s) == [j EXCEPT !.data = d, !.total = n, !.step = s]
Measured(j, n, c) == [j EXCEPT !.step = "read", !.total = n, !.clean = c]
Further(j, n) == [j EXCEPT !.pos = n, !.progress = Append(@, n)]
Filled(j, n, d) == [Further(j, n) EXCEPT !.data = @ \o d]

\* The ways the local variables of a piece of work change.
LEMMA ClosedJob ==
  ASSUME NEW j, IsJob(j)
  PROVE  LET g == Closed(j)
         IN  /\ IsJob(g) /\ g.op = j.op /\ g.step = "closed" /\ g.data = j.data /\ g.pos = j.pos
             /\ g.total = j.total /\ g.progress = j.progress /\ g.clean = j.clean
  BY DEF IsJob, Closed

LEMMA OpenedJob ==
  ASSUME NEW j, IsJob(j)
  PROVE  LET g == Opened(j)
         IN  /\ IsJob(g) /\ g.op = j.op /\ g.step = "write" /\ g.data = j.data /\ g.pos = 0
             /\ g.total = j.total /\ g.progress = j.progress /\ g.clean = j.clean
  BY DEF IsJob, Opened

LEMMA EncodedJob ==
  ASSUME NEW j, IsJob(j), NEW d, NEW n, NEW s
  PROVE  LET g == Encoded(j, d, n, s)
         IN  /\ IsJob(g) /\ g.op = j.op /\ g.step = s /\ g.data = d /\ g.pos = j.pos
             /\ g.total = n /\ g.progress = j.progress /\ g.clean = j.clean
  BY DEF IsJob, Encoded

LEMMA MeasuredJob ==
  ASSUME NEW j, IsJob(j), NEW n, NEW c
  PROVE  LET g == Measured(j, n, c)
         IN  /\ IsJob(g) /\ g.op = j.op /\ g.step = "read" /\ g.data = j.data /\ g.pos = j.pos
             /\ g.total = n /\ g.progress = j.progress /\ g.clean = c
  BY DEF IsJob, Measured

LEMMA FurtherJob ==
  ASSUME NEW j, IsJob(j), NEW n
  PROVE  LET g == Further(j, n)
         IN  /\ IsJob(g) /\ g.op = j.op /\ g.step = j.step /\ g.data = j.data /\ g.pos = n
             /\ g.total = j.total /\ g.progress = Append(j.progress, n) /\ g.clean = j.clean
  BY DEF IsJob, Further

LEMMA FilledJob ==
  ASSUME NEW j, IsJob(j), NEW n, NEW d
  PROVE  LET g == Filled(j, n, d)
         IN  /\ IsJob(g) /\ g.op = j.op /\ g.step = j.step /\ g.data = j.data \o d /\ g.pos = n
             /\ g.total = j.total /\ g.progress = Append(j.progress, n) /\ g.clean = j.clean
  BY FurtherJob DEF IsJob, Filled

\* The same in the words of the actions.
LEMMA JobUpdates ==
  ASSUME Shapes, NEW t \in Tasks
  PROVE  /\ [job EXCEPT ![t].step = "closed"] = [job EXCEPT ![t] = Closed(job[t])]
         /\ Advanced(t) = Further(job[t], job[t].pos + Piece(t))
  <1>1. [job EXCEPT ![t].step = "closed"] = [job EXCEPT ![t] = Closed(job[t])]
    BY DEF Shapes, Closed
  <1>2. Advanced(t) = Further(job[t], job[t].pos + Piece(t))
    BY DEF Advanced, Further
  <1> QED
    BY <1>1, <1>2

\* What the steps of the work do to the jobs and to the coroutine.
LEMMA GoingOn ==
  ASSUME Shapes, NEW t \in Tasks,
         \/ Serialize(t) \/ OpenToWrite(t) \/ WriteChunk(t) \/ OpenToRead(t) \/ ReadChunk(t)
         \/ Begin(t) \/ BeginFails(t) \/ Yield(t)
  PROVE  SameOp(t) /\ UNCHANGED taskVars
  <1>0. IsJob(job[t]) /\ job = [u \in Tasks |-> job[u]]
    BY DEF Shapes
  <1>1. CASE Serialize(t)
    <2> DEFINE j == Encoded(job[t], Bytes(held), Size[held], "open")
    <2>1. job' = [job EXCEPT ![t].data = Bytes(held), ![t].total = Size[held], ![t].step = "open"]
      BY <1>1 DEF Serialize
    <2>2. job' = [job EXCEPT ![t] = j]
      BY <1>0, <2>1 DEF Encoded
    <2>3. IsJob(j) /\ j.op = job[t].op
      BY <1>0, EncodedJob
    <2> HIDE DEF j
    <2> QED
      BY <1>1, <2>2, <2>3, JobsStepOps DEF JobsStep, Serialize
  <1>2. CASE OpenToWrite(t)
    <2>1. JobsStep(t, Opened(job[t]))
      BY <1>2 DEF OpenToWrite, JobsStep, Opened
    <2> QED
      BY <1>0, <1>2, <2>1, OpenedJob, JobsStepOps DEF OpenToWrite
  <1>3. CASE WriteChunk(t)
    <2>1. JobsStep(t, Further(job[t], job[t].pos + Piece(t)))
      BY <1>3, JobUpdates DEF WriteChunk, JobsStep
    <2> QED
      BY <1>0, <1>3, <2>1, FurtherJob, JobsStepOps DEF WriteChunk
  <1>4. CASE OpenToRead(t)
    <2> DEFINE j == Measured(job[t], Len(file), saved # None)
    <2>1. job' = [job EXCEPT ![t].step = "read", ![t].total = Len(file), ![t].clean = saved # None]
      BY <1>4 DEF OpenToRead
    <2>2. job' = [job EXCEPT ![t] = j]
      BY <1>0, <2>1 DEF Measured
    <2>3. IsJob(j) /\ j.op = job[t].op
      BY <1>0, MeasuredJob
    <2> HIDE DEF j
    <2> QED
      BY <1>4, <2>2, <2>3, JobsStepOps DEF JobsStep, OpenToRead
  <1>5. CASE ReadChunk(t)
    <2>1. PICK d : JobsStep(t, Filled(job[t], job[t].pos + Piece(t), d))
      BY <1>5, JobUpdates DEF ReadChunk, JobsStep, Filled
    <2> QED
      BY <1>0, <1>5, <2>1, FilledJob, JobsStepOps DEF ReadChunk
  <1>6. CASE Begin(t)
    <2> DEFINE j == Encoded(job[t], Bytes(held), Size[held], "yield")
    <2>1. job' = [job EXCEPT ![t].data = Bytes(held), ![t].total = Size[held], ![t].step = "yield"]
      BY <1>6 DEF Begin
    <2>2. job' = [job EXCEPT ![t] = j]
      BY <1>0, <2>1 DEF Encoded
    <2>3. IsJob(j) /\ j.op = job[t].op
      BY <1>0, EncodedJob
    <2> HIDE DEF j
    <2> QED
      BY <1>6, <2>2, <2>3, JobsStepOps DEF JobsStep, Begin
  <1>7. CASE Yield(t)
    <2>1. PICK n, d : job' = [job EXCEPT ![t].pos = @ + n, ![t].progress = Append(@, d)]
      BY <1>7 DEF Yield
    <2> DEFINE j == [job[t] EXCEPT !.pos = @ + n, !.progress = Append(@, d)]
    <2>2. IsJob(j) /\ j.op = job[t].op /\ job' = [job EXCEPT ![t] = j]
      BY <1>0, <2>1 DEF IsJob
    <2> HIDE DEF j
    <2> QED
      BY <1>7, <2>2, JobsStepOps DEF Yield, JobsStep
  <1>8. CASE BeginFails(t)
    <2> DEFINE j == [job[t] EXCEPT !.step = "failed"]
    <2>1. IsJob(j) /\ j.op = job[t].op /\ job' = [job EXCEPT ![t] = j]
      BY <1>0, <1>8 DEF BeginFails, IsJob
    <2> HIDE DEF j
    <2> QED
      BY <1>8, <2>1, JobsStepOps DEF BeginFails, JobsStep
  <1> QED
    BY <1>1, <1>2, <1>3, <1>4, <1>5, <1>6, <1>7, <1>8

Closing(t, x) ==
  \/ OpenToWriteFails(t) \/ WriteBreaks(t, x) \/ WriteEnds(t) \/ CloseLosesTail(t)
  \/ OpenToReadFails(t) \/ ReadBreaks(t, x) \/ LoadEnds(t) \/ ReadEnds(t)
  \/ SerializeWork(t) \/ SerializeFails(t) \/ DeserializeWork(t) \/ DeserializePlain(t) \/ Compute(t, x)

LEMMA ClosingReturns ==
  ASSUME Shapes, NEW t \in Tasks, NEW x, Closing(t, x)
  PROVE  /\ SameOp(t) /\ job'[t] = Closed(job[t]) /\ pc[t].worker = "work" /\ \E y : Return(t, y)
         /\ ~CloseLosesTail(t) => job' = [job EXCEPT ![t] = Closed(job[t])]
  <1>0. IsJob(job[t])
    BY DEF Shapes
  <1> DEFINE j == Closed(job[t])
  <1>1. CASE CloseLosesTail(t)
    <2>1. JobsStep(t, j)
      BY <1>1 DEF CloseLosesTail, JobsStep, Closed
    <2> QED
      BY <1>0, <1>1, <2>1, ClosedJob, JobsStepOps DEF CloseLosesTail, Working, At
  <1>2. CASE ~CloseLosesTail(t)
    <2>1. job' = [job EXCEPT ![t] = j]
      BY <1>2, JobUpdates DEF Closing, OpenToWriteFails, WriteBreaks, WriteEnds, OpenToReadFails,
         ReadBreaks, LoadEnds, ReadEnds, SerializeWork, SerializeFails, DeserializeWork, DeserializePlain, Compute
    <2>2. pc[t].worker = "work"
      BY <1>2 DEF Closing, OpenToWriteFails, WriteBreaks, WriteEnds, OpenToReadFails, Working, At,
         ReadBreaks, LoadEnds, ReadEnds, SerializeWork, SerializeFails, DeserializeWork, DeserializePlain, Compute
    <2>3. \E y : Return(t, y)
      BY <1>2 DEF Closing, OpenToWriteFails, WriteBreaks, WriteEnds, OpenToReadFails,
         ReadBreaks, LoadEnds, ReadEnds, SerializeWork, SerializeFails, DeserializeWork, DeserializePlain, Compute
    <2>4. JobsStep(t, j)
      BY <2>1 DEF JobsStep
    <2> QED
      BY <1>0, <2>1, <2>2, <2>3, <2>4, ClosedJob, JobsStepOps
  <1> QED
    BY <1>1, <1>2

\* The end of a generator, and a name that is used again.
LEMMA EndOfStreamKeeps ==
  ASSUME TaskInv, NEW t \in Tasks, EndOfStream(t)
  PROVE  TaskInv'
  <1> USE DEF TaskInv
  <1>0. /\ Shapes /\ IsPos(pc[t]) /\ IsFrame(frame[t])
        /\ GoodTask(pc[t], frame[t], job[t].op, outcome[t])
    BY DEF Shapes
  <1>1. SameOps(t) /\ job'[t].op = job[t].op
    BY SameJobs DEF EndOfStream
  <1>2. /\ pc' = [pc EXCEPT ![t] = pc'[t]] /\ IsPos(pc'[t]) /\ pc[t].owner = "pulling"
        /\ pc'[t].owner = "gone" /\ pc'[t].worker = pc[t].worker
    BY <1>0, GoTo DEF EndOfStream, At, Roles
  <1>3. frame' = [frame EXCEPT ![t] = frame'[t]] /\ IsFrame(frame'[t]) /\ frame'[t].by = frame[t].by
    BY <1>0 DEF EndOfStream, Shapes, IsFrame
  <1>4. Only(t) /\ pool' = pool /\ outcome' = outcome
    BY <1>0, <1>2, <1>3, Unmoved DEF EndOfStream, Only
  <1>5. GoodTask(pc'[t], frame'[t], job'[t].op, outcome'[t]) /\ ~Queued(t)
    BY <1>0, <1>1, <1>2, <1>3, <1>4 DEF GoodTask, WorkerResumes, OwnerResumes, Queued, Waits
  <1> QED
    BY <1>1, <1>4, <1>5, TaskMove

LEMMA Nothing ==
  LET p == [r \in Roles |-> "idle"]
  IN  /\ IsPos(p) /\ p.owner = "idle" /\ p.worker = "idle" /\ IsFrame(NoFrame) /\ IsJob(NoJob)
      /\ NoJob.op = "none" /\ GoodTask(p, NoFrame, NoJob.op, None)
  BY DEF IsPos, Roles, IsFrame, NoFrame, IsJob, NoJob, GoodTask, FileOps, Writing, Reading

LEMMA ForgetKeeps ==
  ASSUME TaskInv, NEW t \in Tasks, Forget(t)
  PROVE  TaskInv'
  <1> DEFINE p == [r \in Roles |-> "idle"]
  <1>0. Shapes /\ pc[t].owner = "gone"
    BY DEF TaskInv, Forget, At
  <1>1. /\ pc' = [pc EXCEPT ![t] = p] /\ frame' = [frame EXCEPT ![t] = NoFrame]
        /\ outcome' = [outcome EXCEPT ![t] = None] /\ job' = [job EXCEPT ![t] = NoJob]
        /\ pool' = pool /\ misuse' = misuse
    BY DEF Forget
  <1>2. /\ IsPos(p) /\ IsFrame(NoFrame) /\ IsJob(NoJob) /\ GoodTask(p, NoFrame, NoJob.op, None)
    BY Nothing
  <1> HIDE DEF p
  <1>3. pc'[t] = p /\ frame'[t] = NoFrame /\ outcome'[t] = None
    BY <1>0, <1>1 DEF Shapes
  <1>4. SameOps(t) /\ job'[t] = NoJob
    BY <1>0, <1>1, <1>2, JobAt
  <1>5. Only(t)
    BY <1>1, <1>2, <1>3 DEF Only
  <1>6. ~Queued(t)
    BY <1>0 DEF Queued, Waits
  <1> QED
    BY <1>1, <1>2, <1>3, <1>4, <1>5, <1>6, TaskMove

\* Nobody has called anything: at the start, and after a crash.
LEMMA Fresh ==
  ASSUME frame = [t \in Tasks |-> NoFrame], pc = [t \in Tasks |-> [r \in Roles |-> "idle"]],
         outcome = [t \in Tasks |-> None], job = [t \in Tasks |-> NoJob],
         pool = [running |-> TRUE, jobs |-> <<>>], misuse = FALSE
  PROVE  TaskInv
  <1>1. pool.jobs = <<>> /\ DOMAIN pool = {"running", "jobs"}
    OBVIOUS
  <1>2. JobsInv
    BY <1>1 DEF JobsInv
  <1>3. Shapes
    BY <1>1, Nothing DEF Shapes
  <1> QED
    BY <1>2, <1>3, Nothing DEF TaskInv

LEMMA CrashKeeps ==
  ASSUME TaskInv, Crash
  PROVE  TaskInv'
  <1>1. /\ frame' = [t \in Tasks |-> NoFrame] /\ pc' = [t \in Tasks |-> [r \in Roles |-> "idle"]]
        /\ outcome' = [t \in Tasks |-> None] /\ job' = [t \in Tasks |-> NoJob]
        /\ pool' = [running |-> TRUE, jobs |-> <<>>] /\ misuse' = FALSE
    BY DEF Crash, TaskInv
  <1>2. pool'.jobs = <<>> /\ DOMAIN pool' = {"running", "jobs"}
    BY <1>1
  <1>3. JobsInv'
    BY <1>2 DEF JobsInv
  <1>4. Shapes'
    BY <1>1, <1>2, Nothing DEF Shapes
  <1> QED
    BY <1>1, <1>3, <1>4, Nothing DEF TaskInv

LEMMA TaskInvInit == Init => TaskInv
  BY Fresh DEF Init, TaskInit

LEMMA TaskInvNext ==
  ASSUME TaskInv, Pending = FALSE, [Next]_vars
  PROVE  TaskInv'
  <1>0. Shapes
    BY DEF TaskInv
  <1>1. ASSUME NEW t \in Tasks, Start(t) PROVE TaskInv'
    BY <1>1, StartKeeps
  <1>2. ASSUME NEW t \in Tasks, NEW x, Closing(t, x) PROVE TaskInv'
    BY <1>0, <1>2, ClosingReturns, ReturnKeeps
  <1>3. ASSUME NEW t \in Tasks,
               \/ Serialize(t) \/ OpenToWrite(t) \/ WriteChunk(t) \/ OpenToRead(t) \/ ReadChunk(t)
               \/ Begin(t) \/ BeginFails(t) \/ Yield(t)
        PROVE  TaskInv'
    BY <1>0, <1>3, GoingOn, LocalKeeps
  <1>4. ASSUME NEW t \in Tasks, Work(t) PROVE TaskInv'
    BY <1>2, <1>3, <1>4 DEF Work, Closing
  <1>5. ASSUME NEW t \in Tasks, Consume(t) PROVE TaskInv'
    BY <1>3, <1>5, EndOfStreamKeeps DEF Consume
  <1>6. ASSUME NEW t \in Tasks, Forget(t) PROVE TaskInv'
    BY <1>6, ForgetKeeps
  <1>7. ASSUME NEW t \in Tasks, Run(t), UNCHANGED asyncVars PROVE TaskInv'
    BY <1>7, PublishKeeps, WakeKeeps, AwaitResumeKeeps, FinalAwaitKeeps, CompleteKeeps DEF Run
  <1>8. ASSUME NEW t \in Tasks, Own(t), UNCHANGED asyncVars PROVE TaskInv'
    BY <1>8, SubmitKeeps, DoneKeeps, ResumeKeeps, AwaitReadyKeeps, AwaitSuspendKeeps, TakeKeeps, DestroyKeeps
       DEF Own
  <1>9. CASE Environment /\ UNCHANGED asyncVars
    <2>1. CASE PoolRuns
      BY <1>9, <2>1, PoolRunsKeeps
    <2>2. CASE ~PoolRuns
      <3>1. /\ UNCHANGED <<frame, pc, outcome, misuse>>
            /\ pool' = pool \/ pool' = [pool EXCEPT !.running = FALSE]
        BY <1>9, <2>2 DEF Environment, SetExecutor, GuardEnter, GuardExit, PoolStops
      <3> QED
        BY <1>9, <3>1, ContextKeeps
    <2> QED
      BY <2>1, <2>2
  <1>10. CASE \E v \in Versions : Set(v)
    <2>1. UNCHANGED <<frame, pc, outcome, pool, misuse, job>>
      BY <1>10 DEF Set, taskVars
    <2> QED
      BY <2>1 DEF TaskInv, Shapes, JobsInv, Queued
  <1>11. CASE Crash
    BY <1>11, CrashKeeps
  <1>12. CASE UNCHANGED vars
    BY <1>12 DEF vars, taskVars, asyncVars, TaskInv, Shapes, JobsInv, Queued
  <1> QED
    BY <1>1, <1>4, <1>5, <1>6, <1>7, <1>8, <1>9, <1>10, <1>11, <1>12 DEF Next

\* Where every task, its owner and its worker are, and which tasks the
\* executor's queue holds, is one of the combinations of TaskInv in every
\* reachable state, whatever the number of tasks, when no owner co_awaits a
\* task that a worker will resume.
THEOREM TasksInvariance ==
  ASSUME Pending = FALSE
  PROVE  Spec => []TaskInv
  <1>1. Init => TaskInv
    BY TaskInvInit
  <1>2. TaskInv /\ [Next]_vars => TaskInv'
    BY TaskInvNext
  <1> QED
    BY <1>1, <1>2, PTL DEF Spec

\* No coroutine is resumed that is not suspended, and no frame is touched
\* that its owner has destroyed (task.h, final_awaiter; async_container.h,
\* await_suspend).
THEOREM NeverMisused ==
  ASSUME Pending = FALSE
  PROVE  Spec => []NoMisuse
  <1>1. TaskInv => NoMisuse
    BY DEF TaskInv, NoMisuse
  <1> QED
    BY <1>1, TasksInvariance, PTL

-----------------------------------------------------------------------------
(* Files *)

Cells == Versions \X Nat

\* The local variables of a file operation.
Steps == {"start", "open", "write", "read", "closed"}
Local(j) ==
  /\ j.step \in Steps /\ j.clean \in BOOLEAN
  /\ j.data \in Seq(Cells) /\ j.pos \in Nat /\ j.total \in Nat /\ j.pos <= j.total
  /\ j.step \in {"start", "open"} => j.pos = 0 /\ j.progress = <<>> /\ j.clean = FALSE
  /\ j.op \in Writing => Len(j.data) = j.total /\ j.step # "read"
  /\ j.op \in Reading => j.step \in {"start", "read", "closed"}
  /\ j.op \in Reading /\ j.step = "start" => j.data = <<>>

\* The calls of the progress callback so far, and where they leave pos.
Progressed(j) ==
  /\ j.progress \in Seq(Nat)
  /\ j.pos = Least(Len(j.progress) * ChunkSize, j.total)
  /\ \A i \in DOMAIN j.progress : j.progress[i] = Least(i * ChunkSize, j.total)

\* An answer that only a success gives
Succeeded(x) == x \notin {None, Thrown} /\ x.ok /\ x.val # <<>>

\* A file operation with job j and outcome x on file f.
FileOp(j, x, f) ==
  j.op \in FileOps =>
    /\ Local(j)
    /\ j.op \notin Synchronous => Progressed(j)
    /\ Succeeded(x) => j.pos = j.total
    /\ j.step \in {"read", "write"} => f \in Seq(Cells)

\* The only writer finds in the file what it wrote.
AuthorInv ==
  author \in Writers =>
    Writers = {author} /\ file = SubSeq(job[author].data, 1, job[author].pos)

SavedInv == saved # None => Writers = {} /\ file = saved /\ file \in Seq(Cells)

\* A reader that overlapped no writer has a beginning of the file f, which
\* holds what was saved.
CleanReader(j, f, s) ==
  j.op \in Reading /\ j.clean = TRUE =>
    s # None /\ j.total = Len(f) /\ j.data = SubSeq(f, 1, j.pos)

FileInv ==
  /\ held \in Versions
  /\ file = NoFile \/ file \in Seq(Cells)
  /\ author = None \/ author \in Tasks
  /\ \A t \in Tasks : FileOp(job[t], outcome[t], file) /\ CleanReader(job[t], file, saved)
  /\ AuthorInv /\ SavedInv

-----------------------------------------------------------------------------
(* Steps that write no file *)

IsWriter(j) == j.op \in Writing /\ j.step = "write"

LEMMA WritersAre ==
  /\ Writers = {t \in Tasks : IsWriter(job[t])}
  /\ Writers' = {t \in Tasks : IsWriter(job'[t])}
  BY DEF Writers, IsWriter

\* No job moves.
LEMMA FileStays ==
  ASSUME FileInv, UNCHANGED <<job, file, author, saved>>, held' \in Versions,
         \A t \in Tasks : job[t].op \in FileOps => outcome'[t] = outcome[t]
  PROVE  FileInv'
  <1>1. Writers' = Writers
    BY WritersAre
  <1>2. ASSUME NEW t \in Tasks PROVE FileOp(job'[t], outcome'[t], file') /\ CleanReader(job'[t], file', saved')
    BY DEF FileInv, FileOp
  <1>3. AuthorInv' /\ SavedInv'
    BY <1>1 DEF FileInv, AuthorInv, SavedInv
  <1> QED
    BY <1>2, <1>3 DEF FileInv

\* One job moves, and it writes no file then.
LEMMA FileMove ==
  ASSUME FileInv, NEW t \in Tasks, UNCHANGED <<file, saved>>, held' \in Versions, author' \in {author, None},
         \A u \in Tasks \ {t} : job'[u] = job[u] /\ outcome'[u] = outcome[u],
         ~IsWriter(job'[t]), FileOp(job'[t], outcome'[t], file), CleanReader(job'[t], file, saved)
  PROVE  FileInv'
  <1>1. Writers' = Writers \ {t}
    BY WritersAre
  <1>2. ASSUME NEW u \in Tasks PROVE FileOp(job'[u], outcome'[u], file') /\ CleanReader(job'[u], file', saved')
    <2>1. CASE u = t
      BY <2>1
    <2>2. CASE u # t
      BY <2>2 DEF FileInv
    <2> QED
      BY <2>1, <2>2
  <1>3. AuthorInv'
    <2> SUFFICES ASSUME author' \in Writers'
                 PROVE  Writers' = {author'} /\ file' = SubSeq(job'[author'].data, 1, job'[author'].pos)
      BY DEF AuthorInv
    <2>1. author' = author /\ author \in Writers /\ author # t /\ author \in Tasks
      BY <1>1, TaskAssumption, WritersAre
    <2>2. Writers = {author} /\ file = SubSeq(job[author].data, 1, job[author].pos)
      BY <2>1 DEF FileInv, AuthorInv
    <2>3. job'[author] = job[author]
      BY <2>1
    <2> QED
      BY <1>1, <2>1, <2>2, <2>3
  <1>4. SavedInv'
    BY <1>1 DEF FileInv, SavedInv
  <1> QED
    BY <1>2, <1>3, <1>4 DEF FileInv

\* A call, or any step of an operation without a file.
LEMMA NoFileMove ==
  ASSUME FileInv, NEW t \in Tasks, UNCHANGED <<file, saved>>, held' \in Versions, author' \in {author, None},
         \A u \in Tasks \ {t} : job'[u] = job[u] /\ outcome'[u] = outcome[u],
         job'[t].op \notin FileOps
  PROVE  FileInv'
  BY FileMove DEF FileOp, CleanReader, IsWriter, FileOps

LEMMA EncodingFacts ==
  ASSUME NEW v \in Versions
  PROVE  Bytes(v) \in Seq(Cells) /\ Len(Bytes(v)) = Size[v] /\ Size[v] \in Nat
  <1>1. Size[v] \in Nat
    BY SizeAssumption
  <1>2. Bytes(v) \in [1..Size[v] -> Cells]
    BY <1>1 DEF Bytes, Cells
  <1> QED
    BY <1>1, <1>2

LEMMA NoProgress ==
  ASSUME NEW j, j.progress = <<>>, j.pos = 0, j.total \in Nat
  PROVE  Progressed(j)
  <1>1. 0 * ChunkSize = 0
    BY ChunkAssumption
  <1> QED
    BY <1>1 DEF Progressed, Least

LEMMA StartKeepsFile ==
  ASSUME FileInv, TaskInv, NEW t \in Tasks, Start(t)
  PROVE  FileInv'
  <1>0. \E op : \E data \in Seq(Cells) :
          /\ job' = [job EXCEPT ![t] = Job(op, data)]
          /\ op \in Reading => data = <<>>
    <2>1. <<>> \in Seq(Cells) /\ \A v \in Versions : Bytes(v) \in Seq(Cells)
      BY EncodingFacts
    <2>2. ASSUME NEW op, NEW v \in Versions, Call(t, op, v)
          PROVE  \E data \in Seq(Cells) : /\ job' = [job EXCEPT ![t] = Job(op, data)]
                                          /\ op \in Reading => data = <<>>
      <3>1. CASE op \in {"write", "deserialize"}
        BY <2>1, <2>2, <3>1 DEF Call, Reading
      <3>2. CASE op \notin {"write", "deserialize"}
        BY <2>1, <2>2, <3>2 DEF Call
      <3> QED
        BY <3>1, <3>2
    <2>3. \/ \E op : job' = [job EXCEPT ![t] = Job(op, <<>>)]
          \/ \E op : \E v \in Versions : Call(t, op, v)
      BY DEF Start, CallPacket, CallWork, StreamingPart, StreamingPartPlain, CallOther, CallChunked
    <2> QED
      BY <2>1, <2>2, <2>3
  <1>1. PICK op : \E d \in Seq(Cells) : job' = [job EXCEPT ![t] = Job(op, d)] /\ (op \in Reading => d = <<>>)
    BY <1>0
  <1>x. PICK data \in Seq(Cells) : job' = [job EXCEPT ![t] = Job(op, data)] /\ (op \in Reading => data = <<>>)
    BY <1>1
  <1>2. Shapes /\ pc[t].owner = "idle" /\ UNCHANGED <<held, file, saved, author, outcome>>
    BY DEF TaskInv, Start, Call, CallPacket, CallWork, StreamingPart, StreamingPartPlain, CallOther,
       CallChunked, CallAsync, CallExecutor, CallReady, CallManual, At
  <1>3. outcome[t] = None
    BY <1>2 DEF TaskInv, GoodTask
  <1> DEFINE j == Job(op, data)
  <1>4. /\ j.op = op /\ j.step = "start" /\ j.data = data /\ j.total = Len(data) /\ j.pos = 0
        /\ j.progress = <<>> /\ j.clean = FALSE
    BY Zenon DEF Job, NoJob
  <1>5. job' = [job EXCEPT ![t] = j]
    BY <1>x
  <1> HIDE DEF j
  <1>6. job'[t] = j /\ \A u \in Tasks \ {t} : job'[u] = job[u]
    BY <1>2, <1>5 DEF Shapes
  <1>7. FileOp(j, None, file)
    <2>1. Local(j)
      <3>1. data \in Seq(Cells) /\ Len(data) \in Nat /\ (op \in Reading => data = <<>>)
        BY <1>x
      <3>2. 0 \in Nat /\ 0 <= Len(data)
        BY <3>1
      <3> QED
        BY <1>4, <3>1, <3>2 DEF Local, Steps
    <2>2. Progressed(j)
      BY <1>x, <1>4, NoProgress
    <2> QED
      BY <1>4, <2>1, <2>2 DEF FileOp, Succeeded
  <1>8. ~IsWriter(j) /\ CleanReader(j, file, saved)
    BY <1>4 DEF IsWriter, CleanReader
  <1>9. held' \in Versions
    BY <1>2 DEF FileInv
  <1> QED
    BY <1>2, <1>3, <1>6, <1>7, <1>8, <1>9, FileMove

-----------------------------------------------------------------------------
(* Pieces of a file *)

LEMMA Pieces ==
  ASSUME NEW S, NEW d \in Seq(S), NEW p \in Nat, NEW q \in Nat, p <= q, q <= Len(d)
  PROVE  /\ SubSeq(d, 1, q) \in Seq(S) /\ Len(SubSeq(d, 1, q)) = q
         /\ \A i \in 1..q : SubSeq(d, 1, q)[i] = d[i]
         /\ SubSeq(d, p + 1, q) \in Seq(S) /\ Len(SubSeq(d, p + 1, q)) = q - p
         /\ \A i \in 1..(q - p) : SubSeq(d, p + 1, q)[i] = d[p + i]
  <1>1. \A i \in 1..q : d[i] \in S
    OBVIOUS
  <1>2. /\ SubSeq(d, 1, q) \in Seq(S) /\ Len(SubSeq(d, 1, q)) = q
        /\ \A i \in 1..q : SubSeq(d, 1, q)[i] = d[i]
    <2>1. /\ SubSeq(d, 1, q) \in Seq(S) /\ Len(SubSeq(d, 1, q)) = IF 1 <= q THEN q - 1 + 1 ELSE 0
          /\ \A i \in 1..(q - 1 + 1) : SubSeq(d, 1, q)[i] = d[1 + i - 1]
      BY <1>1, SubSeqProperties
    <2> QED
      BY <2>1
  <1>3. /\ SubSeq(d, p + 1, q) \in Seq(S) /\ Len(SubSeq(d, p + 1, q)) = q - p
        /\ \A i \in 1..(q - p) : SubSeq(d, p + 1, q)[i] = d[p + i]
    <2>1. p + 1 \in Int /\ \A i \in (p + 1)..q : d[i] \in S
      BY <1>1
    <2>2. /\ SubSeq(d, p + 1, q) \in Seq(S)
          /\ Len(SubSeq(d, p + 1, q)) = IF p + 1 <= q THEN q - (p + 1) + 1 ELSE 0
          /\ \A i \in 1..(q - (p + 1) + 1) : SubSeq(d, p + 1, q)[i] = d[(p + 1) + i - 1]
      BY <2>1, SubSeqProperties
    <2> QED
      BY <2>2
  <1> QED
    BY <1>2, <1>3

LEMMA Whole ==
  ASSUME NEW S, NEW d \in Seq(S)
  PROVE  SubSeq(d, 1, Len(d)) = d /\ SubSeq(d, 1, 0) = <<>>
  <1>1. SubSeq(d, 1, Len(d)) = d
    <2> DEFINE n == Len(d)
               e == SubSeq(d, 1, n)
    <2>1. n \in Nat /\ n = Len(d)
      OBVIOUS
    <2>2. e \in Seq(S) /\ Len(e) = n /\ \A i \in 1..n : e[i] = d[i]
      BY <2>1, Pieces
    <2> HIDE DEF e
    <2>3. e = d
      BY <2>1, <2>2, SeqEqual
    <2> QED
      BY <2>3 DEF e
  <1>2. SubSeq(d, 1, 0) = <<>>
    BY SubSeqEmpty
  <1> QED
    BY <1>1, <1>2

\* What was read before and what is read now
LEMMA ReadOn ==
  ASSUME NEW S, NEW d \in Seq(S), NEW p \in Nat, NEW q \in Nat, p <= q, q <= Len(d)
  PROVE  SubSeq(d, 1, p) \o SubSeq(d, p + 1, q) = SubSeq(d, 1, q)
  <1> DEFINE a == SubSeq(d, 1, p)
             b == SubSeq(d, p + 1, q)
             c == SubSeq(d, 1, q)
  <1>1. a \in Seq(S) /\ Len(a) = p /\ \A i \in 1..p : a[i] = d[i]
    BY Pieces
  <1>2. /\ b \in Seq(S) /\ Len(b) = q - p /\ \A i \in 1..(q - p) : b[i] = d[p + i]
        /\ c \in Seq(S) /\ Len(c) = q /\ \A i \in 1..q : c[i] = d[i]
    BY Pieces
  <1> HIDE DEF a, b, c
  <1> DEFINE e == a \o b
  <1>3. /\ e \in Seq(S) /\ Len(e) = Len(a) + Len(b)
        /\ \A i \in 1..(Len(a) + Len(b)) : e[i] = IF i <= Len(a) THEN a[i] ELSE b[i - Len(a)]
    <2>1. a \in Seq(S) /\ b \in Seq(S)
      BY <1>1, <1>2
    <2> QED
      BY <2>1, ConcatProperties, Zenon
  <1> HIDE DEF e
  <1>4. Len(a) + Len(b) = q
    BY <1>1, <1>2
  <1>5. ASSUME NEW i \in 1..q PROVE e[i] = c[i]
    <2>1. e[i] = IF i <= p THEN a[i] ELSE b[i - p]
      BY <1>1, <1>3, <1>4
    <2>2. CASE i <= p
      BY <1>1, <1>2, <2>1, <2>2
    <2>3. CASE i > p
      <3>1. i - p \in 1..(q - p) /\ p + (i - p) = i
        BY <2>3
      <3> QED
        BY <1>2, <2>1, <2>3, <3>1
    <2> QED
      BY <2>2, <2>3
  <1>6. e = c
    BY <1>2, <1>3, <1>4, <1>5, SeqEqual
  <1> QED
    BY <1>6 DEF a, b, c, e

\* A write anywhere leaves a file.
LEMMA WriteAtType ==
  ASSUME NEW f \in Seq(Cells), NEW p \in Nat, NEW c \in Seq(Cells)
  PROVE  WriteAt(f, p, c) \in Seq(Cells)
  <1> DEFINE n == IF Len(f) > p + Len(c) THEN Len(f) ELSE p + Len(c)
  <1>1. n \in Nat /\ Hole \in Cells
    BY SizeAssumption DEF Hole, Cells
  <1>2. ASSUME NEW i \in 1..n
        PROVE  (IF i > p /\ i <= p + Len(c) THEN c[i - p] ELSE IF i <= Len(f) THEN f[i] ELSE Hole) \in Cells
    BY <1>1
  <1>3. WriteAt(f, p, c) \in [1..n -> Cells]
    BY <1>2 DEF WriteAt
  <1> QED
    BY <1>1, <1>3

\* The next piece of d behind the ones before it
LEMMA WriteOn ==
  ASSUME NEW d \in Seq(Cells), NEW p \in Nat, NEW q \in Nat, p <= q, q <= Len(d)
  PROVE  WriteAt(SubSeq(d, 1, p), p, SubSeq(d, p + 1, q)) = SubSeq(d, 1, q)
  <1> DEFINE a == SubSeq(d, 1, p)
             b == SubSeq(d, p + 1, q)
             c == SubSeq(d, 1, q)
             w == WriteAt(a, p, b)
  <1>1. a \in Seq(Cells) /\ Len(a) = p /\ \A i \in 1..p : a[i] = d[i]
    BY Pieces
  <1>2. /\ b \in Seq(Cells) /\ Len(b) = q - p /\ \A i \in 1..(q - p) : b[i] = d[p + i]
        /\ c \in Seq(Cells) /\ Len(c) = q /\ \A i \in 1..q : c[i] = d[i]
    BY Pieces
  <1> HIDE DEF a, b, c
  <1>3. w \in Seq(Cells)
    BY <1>1, <1>2, WriteAtType
  <1>4. w = [i \in 1..q |-> IF i > p /\ i <= q THEN b[i - p] ELSE IF i <= p THEN a[i] ELSE Hole]
    <2>1. p + Len(b) = q /\ ~(Len(a) > q \/ Len(a) # p)
      BY <1>1, <1>2
    <2> QED
      BY <2>1 DEF WriteAt
  <1> HIDE DEF w
  <1>5. Len(w) = q
    BY <1>3, <1>4
  <1>6. ASSUME NEW i \in 1..q PROVE w[i] = c[i]
    <2>1. w[i] = IF i > p THEN b[i - p] ELSE a[i]
      BY <1>4
    <2> QED
      BY <1>1, <1>2, <2>1
  <1>7. w = c
    BY <1>2, <1>3, <1>5, <1>6, SeqEqual
  <1> QED
    BY <1>7 DEF a, b, c, w

\* What is counted: pos after one more chunk
LEMMA NextChunk ==
  ASSUME NEW k \in Nat, NEW n \in Nat, NEW p \in Nat, p = Least(k * ChunkSize, n), p < n
  PROVE  p + Least(ChunkSize, n - p) = Least((k + 1) * ChunkSize, n)
  <1>1. ChunkSize \in Nat
    BY ChunkAssumption
  <1>2. k * ChunkSize \in Nat /\ (k + 1) * ChunkSize = k * ChunkSize + ChunkSize
    BY <1>1
  <1> DEFINE m == k * ChunkSize
  <1>3. m \in Nat /\ (k + 1) * ChunkSize = m + ChunkSize /\ p = Least(m, n)
    BY <1>2
  <1> HIDE DEF m
  <1>4. p = m
    BY <1>3 DEF Least
  <1> QED
    BY <1>1, <1>3, <1>4 DEF Least

-----------------------------------------------------------------------------
(* The end of a file operation *)

LEMMA Outcomes ==
  ASSUME NEW x
  PROVE  /\ Ok(x).ok = TRUE /\ Ok(x).val = x /\ Error(x).ok = FALSE /\ ~Succeeded(Error(x))
         /\ ~Succeeded(Thrown) /\ ~Succeeded(None)
  BY DEF Ok, Error, Succeeded

LEMMA FailedOutcome ==
  ASSUME NEW t, NEW e
  PROVE  ~Succeeded(Failed(t, e))
  BY DEF Failed, Ok, Error, Succeeded

LEMMA ClosedOp ==
  ASSUME NEW j, IsJob(j), NEW x, NEW y, NEW f, NEW s, FileOp(j, y, f), CleanReader(j, f, s),
         j.op \in FileOps /\ Succeeded(x) => j.pos = j.total
  PROVE  FileOp(Closed(j), x, f) /\ CleanReader(Closed(j), f, s) /\ ~IsWriter(Closed(j))
  <1> DEFINE g == Closed(j)
  <1>1. /\ g.op = j.op /\ g.step = "closed" /\ g.data = j.data /\ g.pos = j.pos
        /\ g.total = j.total /\ g.progress = j.progress /\ g.clean = j.clean
    BY ClosedJob
  <1> HIDE DEF g
  <1>2. Local(j) => Local(g)
    BY <1>1 DEF Local, Steps
  <1>3. Progressed(j) => Progressed(g)
    BY <1>1 DEF Progressed
  <1>4. FileOp(g, x, f)
    BY <1>1, <1>2, <1>3 DEF FileOp
  <1>5. CleanReader(g, f, s) /\ ~IsWriter(g)
    BY <1>1 DEF CleanReader, IsWriter
  <1> QED
    BY <1>4, <1>5 DEF g

\* Somebody wrote while this operation was under way.
Soiled(j) == [j EXCEPT !.clean = FALSE]

LEMMA SoiledOp ==
  ASSUME NEW j, IsJob(j), NEW x, NEW f, NEW g, NEW s, FileOp(j, x, f), g \in Seq(Cells)
  PROVE  /\ FileOp(Soiled(j), x, g) /\ CleanReader(Soiled(j), g, s)
         /\ IsWriter(Soiled(j)) <=> IsWriter(j)
  <1> DEFINE h == Soiled(j)
  <1>1. /\ h.op = j.op /\ h.step = j.step /\ h.data = j.data /\ h.pos = j.pos
        /\ h.total = j.total /\ h.progress = j.progress /\ h.clean = FALSE
    BY DEF Soiled, IsJob
  <1> HIDE DEF h
  <1>2. Local(j) => Local(h)
    BY <1>1 DEF Local
  <1>3. Progressed(j) => Progressed(h)
    BY <1>1 DEF Progressed
  <1>4. FileOp(h, x, g)
    BY <1>1, <1>2, <1>3 DEF FileOp
  <1>5. CleanReader(h, g, s) /\ (IsWriter(h) <=> IsWriter(j))
    BY <1>1 DEF CleanReader, IsWriter
  <1> QED
    BY <1>4, <1>5 DEF h

\* What Return does to the outcomes.
LEMMA ReturnOutcome ==
  ASSUME Shapes, NEW t \in Tasks, NEW x, Return(t, x)
  PROVE  /\ \A u \in Tasks \ {t} : outcome'[u] = outcome[u]
         /\ job[t].op \in FileOps => outcome'[t] = x
         /\ job[t].op \notin FileOps => outcome' = outcome
  <1>1. CASE job[t].op \in FileOps
    BY <1>1 DEF Return, FileOps, Shapes
  <1>2. CASE job[t].op \notin FileOps
    BY <1>2 DEF Return, FileOps, Worked
  <1> QED
    BY <1>1, <1>2

LEMMA CloseKeepsFile ==
  ASSUME FileInv, Shapes, NEW t \in Tasks, NEW x, Return(t, x), job' = [job EXCEPT ![t] = Closed(job[t])],
         UNCHANGED <<file, saved, author>>, held' \in Versions,
         job[t].op \in FileOps /\ Succeeded(x) => job[t].pos = job[t].total
  PROVE  FileInv'
  <1>1. /\ job'[t] = Closed(job[t]) /\ IsJob(job[t])
        /\ \A u \in Tasks \ {t} : job'[u] = job[u] /\ outcome'[u] = outcome[u]
    BY ReturnOutcome DEF Shapes
  <1>2. FileOp(job[t], outcome[t], file) /\ CleanReader(job[t], file, saved)
    BY DEF FileInv
  <1>3. CASE job[t].op \in FileOps
    <2>1. outcome'[t] = x
      BY <1>3, ReturnOutcome
    <2>2. /\ FileOp(job'[t], outcome'[t], file) /\ CleanReader(job'[t], file, saved)
          /\ ~IsWriter(job'[t])
      BY <1>1, <1>2, <2>1, ClosedOp
    <2> QED
      BY <1>1, <2>2, FileMove
  <1>4. CASE job[t].op \notin FileOps
    <2>1. job'[t].op \notin FileOps
      BY <1>1, <1>4, ClosedJob
    <2> QED
      BY <1>1, <2>1, NoFileMove
  <1> QED
    BY <1>3, <1>4

LEMMA ParsesFacts ==
  ASSUME NEW b, NEW x \in Parses(b)
  PROVE  (IF x.ok THEN x.val ELSE Blank) \in Versions
  <1>1. (\E v \in Versions : x = Ok(v)) \/ x = Error("deserialization_failed")
    BY DEF Parses
  <1> QED
    BY <1>1, Outcomes, SizeAssumption

LEMMA FailsKeepFile ==
  ASSUME FileInv, Shapes, NEW t \in Tasks,
         \/ SerializeFails(t) \/ OpenToWriteFails(t) \/ OpenToReadFails(t)
         \/ \E x \in {Error("file_write_error"), Thrown} : WriteBreaks(t, x)
         \/ \E x \in {Failed(t, "file_read_error"), Thrown} : ReadBreaks(t, x)
  PROVE  FileInv'
  <1>1. \E x : Return(t, x) /\ ~Succeeded(x)
    BY Outcomes, FailedOutcome DEF SerializeFails, OpenToWriteFails, OpenToReadFails, WriteBreaks, ReadBreaks
  <1>2. /\ job' = [job EXCEPT ![t] = Closed(job[t])]
        /\ UNCHANGED <<file, saved, author, held>>
    BY JobUpdates DEF SerializeFails, OpenToWriteFails, OpenToReadFails, WriteBreaks, ReadBreaks
  <1>3. held' \in Versions
    BY <1>2 DEF FileInv
  <1> QED
    BY <1>1, <1>2, <1>3, CloseKeepsFile

LEMMA EndsKeepFile ==
  ASSUME FileInv, Shapes, NEW t \in Tasks, LoadEnds(t) \/ ReadEnds(t)
  PROVE  FileInv'
  <1>1. \E x : Return(t, x)
    BY DEF LoadEnds, ReadEnds
  <1>2. /\ job' = [job EXCEPT ![t] = Closed(job[t])] /\ job[t].pos = job[t].total
        /\ UNCHANGED <<file, saved, author>>
    BY JobUpdates DEF LoadEnds, ReadEnds
  <1>3. held' \in Versions
    BY ParsesFacts DEF FileInv, LoadEnds, ReadEnds
  <1> QED
    BY <1>1, <1>2, <1>3, CloseKeepsFile

LEMMA OthersKeepFile ==
  ASSUME FileInv, Shapes, NEW t \in Tasks, NEW y,
         SerializeWork(t) \/ DeserializeWork(t) \/ DeserializePlain(t) \/ Compute(t, y)
  PROVE  FileInv'
  <1>1. \E x : Return(t, x)
    BY DEF SerializeWork, DeserializeWork, DeserializePlain, Compute
  <1>2. /\ job' = [job EXCEPT ![t] = Closed(job[t])]
        /\ UNCHANGED <<file, saved, author, held>>
    BY JobUpdates DEF SerializeWork, DeserializeWork, DeserializePlain, Compute
  <1>3. job[t].op \notin FileOps
    BY DEF SerializeWork, DeserializeWork, DeserializePlain, Compute, Working, FileOps, Writing, Reading
  <1>4. held' \in Versions
    BY <1>2 DEF FileInv
  <1> QED
    BY <1>1, <1>2, <1>3, <1>4, CloseKeepsFile

\* While somebody writes nothing is known to be saved, and no reader is clean.
LEMMA WhileWriting ==
  ASSUME FileInv, NEW t \in Tasks, IsWriter(job[t])
  PROVE  /\ saved = None /\ t \in Writers /\ file \in Seq(Cells) /\ Local(job[t]) /\ job[t].op \in FileOps
         /\ \A u \in Tasks : \A f, s : CleanReader(job[u], f, s)
         /\ author \in Writers => author = t /\ Writers = {t}
  <1>1. t \in Writers
    BY WritersAre
  <1>2. saved = None
    BY <1>1 DEF FileInv, SavedInv
  <1>3. job[t].op \in FileOps /\ FileOp(job[t], outcome[t], file) /\ job[t].step = "write"
    BY DEF FileInv, IsWriter, FileOps
  <1>4. \A u \in Tasks : \A f, s : CleanReader(job[u], f, s)
    BY <1>2 DEF FileInv, CleanReader
  <1>5. author \in Writers => author = t /\ Writers = {t}
    BY <1>1 DEF FileInv, AuthorInv
  <1> QED
    BY <1>1, <1>2, <1>3, <1>4, <1>5 DEF FileOp

\* A write that ends well: what its only writer leaves is saved.
LEMMA WriteEndsKeepsFile ==
  ASSUME FileInv, Shapes, NEW t \in Tasks, WriteEnds(t)
  PROVE  FileInv'
  <1>1. /\ IsWriter(job[t]) /\ job[t].pos = job[t].total /\ Return(t, Ok(None))
        /\ job' = [job EXCEPT ![t] = Closed(job[t])]
        /\ saved' = (IF author = t THEN job[t].data ELSE None) /\ UNCHANGED <<held, file, author>>
    BY JobUpdates DEF WriteEnds, Working, IsWriter
  <1>2. /\ saved = None /\ t \in Writers /\ file \in Seq(Cells) /\ Local(job[t]) /\ job[t].op \in FileOps
        /\ \A u \in Tasks : \A f, s : CleanReader(job[u], f, s)
        /\ author \in Writers => author = t /\ Writers = {t}
    BY <1>1, WhileWriting
  <1>3. /\ job'[t] = Closed(job[t]) /\ IsJob(job[t]) /\ outcome'[t] = Ok(None)
        /\ \A u \in Tasks \ {t} : job'[u] = job[u] /\ outcome'[u] = outcome[u]
    BY <1>1, <1>2, ReturnOutcome DEF Shapes
  <1>4. FileOp(job'[t], outcome'[t], file) /\ CleanReader(job'[t], file, saved') /\ ~IsWriter(job'[t])
    <2>1. FileOp(job[t], outcome[t], file) /\ CleanReader(job[t], file, saved')
      BY <1>2 DEF FileInv
    <2> QED
      BY <1>1, <1>3, <2>1, ClosedOp
  <1>5. Writers' = Writers \ {t}
    BY <1>3, <1>4, WritersAre
  <1>6. ASSUME NEW u \in Tasks PROVE FileOp(job'[u], outcome'[u], file') /\ CleanReader(job'[u], file', saved')
    <2>1. CASE u = t
      BY <1>1, <1>4, <2>1
    <2>2. CASE u # t
      BY <1>1, <1>2, <1>3, <2>2 DEF FileInv
    <2> QED
      BY <2>1, <2>2
  <1>7. AuthorInv'
    BY <1>1, <1>2, <1>5 DEF AuthorInv
  <1>8. SavedInv'
    <2>1. CASE author = t
      <3>1. Writers = {t} /\ file = SubSeq(job[t].data, 1, job[t].pos)
        BY <1>2, <2>1 DEF FileInv, AuthorInv
      <3>2. job[t].data \in Seq(Cells) /\ Len(job[t].data) = job[t].total
        BY <1>1, <1>2 DEF Local, IsWriter
      <3>3. file = job[t].data
        BY <1>1, <3>1, <3>2, Whole
      <3> QED
        BY <1>1, <1>2, <1>5, <2>1, <3>1, <3>3 DEF SavedInv
    <2>2. CASE author # t
      BY <1>1, <2>2 DEF SavedInv
    <2> QED
      BY <2>1, <2>2
  <1> QED
    BY <1>1, <1>6, <1>7, <1>8 DEF FileInv

\* Every step on the file but a read: others are no longer clean.
LEMMA WriterMove ==
  ASSUME FileInv, Shapes, NEW t \in Tasks, NEW j,
         job' = [u \in Tasks |-> IF u = t THEN j ELSE [job[u] EXCEPT !.clean = FALSE]],
         \A u \in Tasks \ {t} : outcome'[u] = outcome[u], file' \in Seq(Cells), saved' = None,
         held' = held, author' = None \/ author' \in Tasks,
         j.op \in Writing, FileOp(j, outcome'[t], file'), AuthorInv'
  PROVE  FileInv'
  <1>1. ASSUME NEW u \in Tasks PROVE FileOp(job'[u], outcome'[u], file') /\ CleanReader(job'[u], file', saved')
    <2>1. CASE u = t
      BY <2>1 DEF CleanReader, Writing, Reading
    <2>2. CASE u # t
      <3>1. job'[u] = Soiled(job[u]) /\ IsJob(job[u]) /\ FileOp(job[u], outcome[u], file) /\ outcome'[u] = outcome[u]
        BY <2>2 DEF Soiled, Shapes, FileInv
      <3> QED
        BY <3>1, SoiledOp
    <2> QED
      BY <2>1, <2>2
  <1>2. SavedInv'
    BY DEF SavedInv
  <1> QED
    BY <1>1, <1>2 DEF FileInv

LEMMA WritersMove ==
  ASSUME Shapes, NEW t \in Tasks, NEW j,
         job' = [u \in Tasks |-> IF u = t THEN j ELSE [job[u] EXCEPT !.clean = FALSE]]
  PROVE  Writers' = (Writers \ {t}) \union (IF IsWriter(j) THEN {t} ELSE {})
  <1>1. job'[t] = j
    OBVIOUS
  <1>2. ASSUME NEW u \in Tasks \ {t} PROVE IsWriter(job'[u]) <=> IsWriter(job[u])
    <2>1. IsJob(job[u]) /\ job'[u] = [job[u] EXCEPT !.clean = FALSE]
      BY DEF Shapes
    <2>2. job'[u].op = job[u].op /\ job'[u].step = job[u].step
      BY <2>1 DEF IsJob
    <2> QED
      BY <2>2 DEF IsWriter
  <1> QED
    BY <1>1, <1>2, WritersAre

\* A destructor that loses the tail of the file
LEMMA CloseLosesTailKeepsFile ==
  ASSUME FileInv, Shapes, NEW t \in Tasks, CloseLosesTail(t)
  PROVE  FileInv'
  <1> DEFINE j == Closed(job[t])
             n == Least(Len(file), job[t].total - 1)
  <1>1. /\ IsWriter(job[t]) /\ job[t].pos = job[t].total /\ Return(t, Ok(None))
        /\ job' = [u \in Tasks |-> IF u = t THEN j ELSE [job[u] EXCEPT !.clean = FALSE]]
        /\ file' = SubSeq(file, 1, n) /\ saved' = None /\ UNCHANGED <<held, author>>
    BY DEF CloseLosesTail, Working, IsWriter, Closed
  <1>2. /\ t \in Writers /\ file \in Seq(Cells) /\ Local(job[t]) /\ job[t].op \in FileOps
        /\ author \in Writers => author = t /\ Writers = {t}
    BY <1>1, WhileWriting
  <1>3. outcome'[t] = Ok(None) /\ \A u \in Tasks \ {t} : outcome'[u] = outcome[u]
    BY <1>1, <1>2, ReturnOutcome
  <1>4. file' \in Seq(Cells)
    <2>1. job[t].total \in Nat
      BY <1>2 DEF Local
    <2>2. n \in Int /\ n <= Len(file)
      BY <1>2, <2>1 DEF Least
    <2> HIDE DEF n
    <2>3. \A i \in 1..n : file[i] \in Cells
      BY <1>2, <2>2
    <2> QED
      BY <1>1, <2>2, <2>3, SubSeqProperties
  <1>5. IsJob(job[t]) /\ FileOp(job[t], outcome[t], file) /\ CleanReader(job[t], file, saved)
    BY DEF Shapes, FileInv
  <1>6. FileOp(j, outcome'[t], file) /\ ~IsWriter(j) /\ j.op = job[t].op /\ j.step = "closed"
    BY <1>1, <1>5, ClosedOp, ClosedJob
  <1> HIDE DEF j
  <1>7. FileOp(j, outcome'[t], file') /\ j.op \in Writing
    BY <1>1, <1>6 DEF FileOp, IsWriter
  <1>8. Writers' = Writers \ {t}
    BY <1>1, <1>6, WritersMove
  <1>9. AuthorInv'
    BY <1>1, <1>2, <1>8 DEF AuthorInv
  <1>10. author' = None \/ author' \in Tasks
    BY <1>1 DEF FileInv
  <1> QED
    BY <1>1, <1>3, <1>4, <1>7, <1>9, <1>10, WriterMove

-----------------------------------------------------------------------------
(* Opening, reading and writing *)

\* A task at work has brought its owner nothing yet.
LEMMA AtWork ==
  ASSUME TaskInv, FileInv, NEW t \in Tasks, NEW those, NEW step, Working(t, those, step), those \subseteq FileOps
  PROVE  /\ outcome[t] = None /\ job[t].op \in those /\ job[t].step = step /\ Local(job[t])
         /\ job[t].op \notin Synchronous => Progressed(job[t])
         /\ IsJob(job[t]) /\ CleanReader(job[t], file, saved)
         /\ step \in {"read", "write"} => file \in Seq(Cells)
  <1>1. pc[t].worker = "work" /\ job[t].op \in those /\ job[t].step = step
    BY DEF Working, At
  <1>2. outcome[t] = None
    BY <1>1 DEF TaskInv, GoodTask, WorkerResumes, OwnerResumes
  <1>3. FileOp(job[t], outcome[t], file) /\ CleanReader(job[t], file, saved) /\ IsJob(job[t])
    BY DEF TaskInv, FileInv, Shapes
  <1> QED
    BY <1>1, <1>2, <1>3 DEF FileOp

\* save_async and save_packet serialise the container.
LEMMA SerializeKeepsFile ==
  ASSUME FileInv, TaskInv, NEW t \in Tasks, Serialize(t)
  PROVE  FileInv'
  <1> DEFINE those == {"save", "save_packet"}
             d == Bytes(held)
             n == Size[held]
             j == Encoded(job[t], d, n, "open")
  <1>0. /\ Working(t, those, "start") /\ those \subseteq FileOps
        /\ job' = [job EXCEPT ![t].data = d, ![t].total = n, ![t].step = "open"]
        /\ UNCHANGED <<outcome, held, file, author, saved>>
    BY DEF Serialize, taskVars, FileOps, Writing
  <1>1. /\ outcome[t] = None /\ job[t].op \in those /\ job[t].step = "start" /\ Local(job[t]) /\ IsJob(job[t])
    BY <1>0, AtWork
  <1>2. job'[t] = j /\ \A u \in Tasks \ {t} : job'[u] = job[u]
    BY <1>0 DEF TaskInv, Shapes, Encoded
  <1>3. /\ j.op = job[t].op /\ j.step = "open" /\ j.data = d /\ j.pos = job[t].pos
        /\ j.total = n /\ j.progress = job[t].progress /\ j.clean = job[t].clean
    BY <1>1, EncodedJob
  <1>4. d \in Seq(Cells) /\ Len(d) = n /\ n \in Nat /\ held \in Versions
    BY EncodingFacts DEF FileInv
  <1> HIDE DEF d, n, j
  <1>5. /\ j.pos = 0 /\ j.progress = <<>> /\ j.clean = FALSE
        /\ j.op \in Writing /\ j.op \notin Reading
    BY <1>1, <1>3 DEF Local, Writing, Reading
  <1>6. Local(j)
    <2>1. 0 \in Nat /\ 0 <= n
      BY <1>4
    <2>2. j.step # "read" /\ j.step \in Steps /\ FALSE \in BOOLEAN
      BY <1>3 DEF Steps
    <2> QED
      BY <1>3, <1>4, <1>5, <2>1, <2>2 DEF Local
  <1>7. Progressed(j)
    BY <1>3, <1>4, <1>5, NoProgress
  <1>8. FileOp(j, None, file) /\ ~IsWriter(j) /\ CleanReader(j, file, saved)
    BY <1>3, <1>5, <1>6, <1>7, Outcomes DEF FileOp, IsWriter, CleanReader
  <1> QED
    BY <1>0, <1>1, <1>2, <1>4, <1>8, FileMove

\* A reader is clean when what it opens is what was saved.
LEMMA OpenToReadKeepsFile ==
  ASSUME FileInv, TaskInv, NEW t \in Tasks, OpenToRead(t)
  PROVE  FileInv'
  <1> DEFINE n == Len(file)
             c == saved # None
             j == Measured(job[t], n, c)
  <1>0. /\ Working(t, Reading, "start") /\ Reading \subseteq FileOps /\ file # NoFile
        /\ job' = [job EXCEPT ![t].step = "read", ![t].total = n, ![t].clean = c]
        /\ UNCHANGED <<outcome, held, file, author, saved>>
    BY DEF OpenToRead, taskVars, FileOps
  <1>1. /\ outcome[t] = None /\ job[t].op \in Reading /\ job[t].step = "start" /\ Local(job[t]) /\ IsJob(job[t])
    BY <1>0, AtWork
  <1>2. job'[t] = j /\ \A u \in Tasks \ {t} : job'[u] = job[u]
    BY <1>0 DEF TaskInv, Shapes, Measured
  <1>3. /\ j.op = job[t].op /\ j.step = "read" /\ j.data = job[t].data /\ j.pos = job[t].pos
        /\ j.total = n /\ j.progress = job[t].progress /\ j.clean = c
    BY <1>1, MeasuredJob
  <1>4. file \in Seq(Cells) /\ n \in Nat /\ c \in BOOLEAN /\ held \in Versions /\ n = Len(file)
    BY <1>0 DEF FileInv
  <1>5. c = TRUE => saved # None
    OBVIOUS
  <1> HIDE DEF n, j, c
  <1>6. /\ j.pos = 0 /\ j.progress = <<>> /\ j.data = <<>> /\ j.op \in Reading /\ j.op \notin Writing
    BY <1>1, <1>3 DEF Local, Writing, Reading
  <1>7. Local(j)
    <2>1. <<>> \in Seq(Cells)
      OBVIOUS
    <2> QED
      BY <1>3, <1>4, <1>6, <2>1 DEF Local, Steps
  <1>8. Progressed(j)
    BY <1>3, <1>4, <1>6, NoProgress
  <1>9. FileOp(j, None, file) /\ ~IsWriter(j)
    BY <1>3, <1>4, <1>6, <1>7, <1>8, Outcomes DEF FileOp, IsWriter
  <1>10. CleanReader(j, file, saved)
    <2>1. SubSeq(file, 1, 0) = <<>>
      BY <1>4, Whole
    <2> QED
      BY <1>3, <1>4, <1>5, <1>6, <2>1 DEF CleanReader
  <1> QED
    BY <1>0, <1>1, <1>2, <1>4, <1>9, <1>10, FileMove

\* How far the next piece goes
LEMMA PieceFacts ==
  ASSUME NEW t \in Tasks, IsJob(job[t]), Local(job[t]), job[t].pos < job[t].total,
         job[t].op \notin Synchronous => Progressed(job[t])
  PROVE  LET n == job[t].pos + Piece(t)
         IN  /\ n \in Nat /\ job[t].pos <= n /\ n <= job[t].total
             /\ job[t].op \in Synchronous => n = job[t].total
             /\ job[t].op \notin Synchronous => Progressed(Further(job[t], n))
  <1> DEFINE p == job[t].pos
             m == job[t].total
             n == p + Piece(t)
             k == Len(job[t].progress)
  <1>1. p \in Nat /\ m \in Nat /\ p < m
    BY DEF Local
  <1>2. n = IF job[t].op \in Synchronous THEN p + (m - p) ELSE p + Least(ChunkSize, m - p)
    BY DEF Piece
  <1>3. n \in Nat /\ p <= n /\ n <= m /\ (job[t].op \in Synchronous => n = m)
    BY <1>1, <1>2, ChunkAssumption DEF Least
  <1>4. ASSUME job[t].op \notin Synchronous PROVE Progressed(Further(job[t], n))
    <2> DEFINE j == Further(job[t], n)
               q == job[t].progress
    <2>1. /\ q \in Seq(Nat) /\ k \in Nat /\ p = Least(k * ChunkSize, m)
          /\ \A i \in DOMAIN q : q[i] = Least(i * ChunkSize, m)
      BY <1>4 DEF Progressed
    <2>2. n = Least((k + 1) * ChunkSize, m)
      BY <1>1, <1>2, <1>4, <2>1, NextChunk
    <2>3. j.pos = n /\ j.total = m /\ j.progress = Append(q, n)
      BY FurtherJob
    <2> DEFINE r == Append(q, n)
    <2>4. /\ r \in Seq(Nat) /\ Len(r) = k + 1 /\ r[k + 1] = n /\ DOMAIN r = 1..(k + 1)
          /\ \A i \in 1..k : r[i] = q[i] /\ i \in DOMAIN q
      BY <1>3, <2>1
    <2> HIDE DEF j, r, n, p, m, q, k
    <2>5. ASSUME NEW i \in DOMAIN r PROVE r[i] = Least(i * ChunkSize, m)
      <3>1. i \in 1..k \/ i = k + 1
        BY <2>1, <2>4
      <3> QED
        BY <2>1, <2>2, <2>4, <3>1
    <2>6. j.pos = Least(Len(r) * ChunkSize, m)
      BY <2>2, <2>3, <2>4
    <2>7. Progressed(j)
      BY <2>3, <2>4, <2>5, <2>6 DEF Progressed, r
    <2> QED
      BY <2>7 DEF j, n, p
  <1> QED
    BY <1>3, <1>4

\* What a reader adds is what the file holds behind its position.
LEMMA ReadChunkKeepsFile ==
  ASSUME FileInv, TaskInv, NEW t \in Tasks, ReadChunk(t)
  PROVE  FileInv'
  <1> DEFINE p == job[t].pos
             n == p + Piece(t)
             to == IF job[t].op = "load_packet" THEN Len(file) ELSE n
             d == SubSeq(file, p + 1, to)
             j == Filled(job[t], n, d)
  <1>0. Working(t, Reading, "read") /\ Reading \subseteq FileOps /\ p < job[t].total /\ to <= Len(file)
    BY DEF ReadChunk, FileOps
  <1>1. /\ job' = [job EXCEPT ![t] = j] /\ UNCHANGED <<outcome, held, file, author, saved>>
    BY JobUpdates DEF TaskInv, ReadChunk, taskVars, Filled
  <1>2. /\ outcome[t] = None /\ job[t].op \in Reading /\ job[t].step = "read" /\ Local(job[t]) /\ IsJob(job[t])
        /\ file \in Seq(Cells) /\ CleanReader(job[t], file, saved)
        /\ job[t].op \notin Synchronous => Progressed(job[t])
    BY <1>0, AtWork
  <1>3. job'[t] = j /\ \A u \in Tasks \ {t} : job'[u] = job[u]
    BY <1>1 DEF TaskInv, Shapes
  <1>4. /\ n \in Nat /\ p <= n /\ n <= job[t].total /\ (job[t].op \in Synchronous => n = job[t].total)
        /\ job[t].op \notin Synchronous => Progressed(Further(job[t], n))
    BY <1>0, <1>2, PieceFacts
  <1>5. p \in Nat /\ job[t].total \in Nat /\ Len(file) \in Nat
    BY <1>2 DEF Local
  <1>6. /\ j.op = job[t].op /\ j.step = "read" /\ j.data = job[t].data \o d /\ j.pos = n
        /\ j.total = job[t].total /\ j.progress = Append(job[t].progress, n) /\ j.clean = job[t].clean
    <2> HIDE DEF n, d
    <2>1. /\ j.op = job[t].op /\ j.step = job[t].step /\ j.data = job[t].data \o d /\ j.pos = n
          /\ j.total = job[t].total /\ j.progress = Append(job[t].progress, n) /\ j.clean = job[t].clean
      BY <1>2 DEF IsJob, Filled, Further
    <2> QED
      BY <1>2, <2>1
  <1>7. d \in Seq(Cells)
    <2>1. to \in Nat /\ p + 1 \in Int
      BY <1>4, <1>5
    <2>2. \A i \in (p + 1)..to : file[i] \in Cells
      BY <1>0, <1>2, <1>5, <2>1
    <2> HIDE DEF p, to
    <2> QED
      BY <2>1, <2>2, SubSeqProperties
  <1>8. Progressed(Further(job[t], n)) => Progressed(j)
    <2> HIDE DEF n, d, j
    <2> DEFINE g == Further(job[t], n)
    <2>1. g.pos = n /\ g.total = job[t].total /\ g.progress = Append(job[t].progress, n)
      BY <1>2, FurtherJob
    <2> HIDE DEF g
    <2>2. Progressed(g) => Progressed(j)
      BY <1>6, <2>1 DEF Progressed
    <2> QED
      BY <2>2 DEF g
  <1>9. CleanReader(j, file, saved)
    <2> SUFFICES ASSUME j.clean = TRUE PROVE saved # None /\ j.total = Len(file) /\ j.data = SubSeq(file, 1, n)
      BY <1>6 DEF CleanReader
    <2>1. saved # None /\ job[t].total = Len(file) /\ job[t].data = SubSeq(file, 1, p)
      BY <1>2, <1>6 DEF CleanReader
    <2>2. to = n
      BY <1>4, <2>1 DEF Synchronous
    <2>3. SubSeq(file, 1, p) \o SubSeq(file, p + 1, n) = SubSeq(file, 1, n)
      BY <1>2, <1>4, <1>5, <2>1, ReadOn
    <2> QED
      BY <1>6, <2>1, <2>2, <2>3
  <1> HIDE DEF d, n, j, to, p
  <1>10. Local(j)
    <2>1. job[t].data \in Seq(Cells) /\ job[t].clean \in BOOLEAN
      BY <1>2 DEF Local
    <2>2. job[t].data \o d \in Seq(Cells)
      BY <1>7, <2>1, ConcatProperties, Zenon
    <2>3. j.step \in Steps /\ j.step \notin {"start", "open"} /\ j.op \notin Writing
      BY <1>2, <1>6 DEF Steps, Writing, Reading
    <2> QED
      BY <1>2, <1>4, <1>5, <1>6, <2>1, <2>2, <2>3 DEF Local
  <1>11. FileOp(j, None, file) /\ ~IsWriter(j)
    BY <1>2, <1>4, <1>6, <1>8, <1>10, Outcomes DEF FileOp, IsWriter
  <1>12. held' \in Versions
    BY <1>1 DEF FileInv
  <1> QED
    BY <1>1, <1>2, <1>3, <1>9, <1>11, <1>12, FileMove

\* A file that is opened to write is empty, and its writer alone in it or not.
LEMMA OpenToWriteKeepsFile ==
  ASSUME FileInv, TaskInv, NEW t \in Tasks, OpenToWrite(t)
  PROVE  FileInv'
  <1> DEFINE j == Opened(job[t])
  <1>0. /\ job' = [u \in Tasks |-> IF u = t THEN j ELSE [job[u] EXCEPT !.clean = FALSE]]
        /\ UNCHANGED <<outcome, held>> /\ file' = <<>> /\ saved' = None
        /\ author' = IF Writers = {} THEN t ELSE None
    BY DEF OpenToWrite, Opened, taskVars
  <1>1. /\ outcome[t] = None /\ job[t].op \in Writing /\ job[t].step \in {"open", "start"}
        /\ Local(job[t]) /\ IsJob(job[t])
    <2>1. \/ Working(t, {"save", "save_packet"}, "open") \/ Working(t, {"write"}, "start")
      BY DEF OpenToWrite
    <2>2. {"save", "save_packet"} \subseteq FileOps /\ {"write"} \subseteq FileOps
      BY DEF FileOps, Writing
    <2>3. CASE Working(t, {"save", "save_packet"}, "open")
      BY <2>2, <2>3, AtWork DEF Writing
    <2>4. CASE Working(t, {"write"}, "start")
      BY <2>2, <2>4, AtWork DEF Writing
    <2> QED
      BY <2>1, <2>3, <2>4
  <1>2. Shapes /\ <<>> \in Seq(Cells)
    BY DEF TaskInv
  <1>3. /\ j.op = job[t].op /\ j.step = "write" /\ j.data = job[t].data /\ j.pos = 0
        /\ j.total = job[t].total /\ j.progress = job[t].progress /\ j.clean = job[t].clean
    BY <1>1, OpenedJob
  <1> HIDE DEF j
  <1>4. /\ j.progress = <<>> /\ j.clean = FALSE /\ j.op \in Writing /\ j.op \notin Reading
        /\ j.total \in Nat /\ j.data \in Seq(Cells) /\ Len(j.data) = j.total
    BY <1>1, <1>3 DEF Local, Writing, Reading
  <1>5. Local(j)
    <2>1. 0 \in Nat /\ 0 <= j.total /\ j.step \in Steps /\ j.step \notin {"start", "open", "read"}
      BY <1>3, <1>4 DEF Steps
    <2> QED
      BY <1>3, <1>4, <2>1 DEF Local
  <1>6. Progressed(j)
    BY <1>3, <1>4, NoProgress
  <1>7. FileOp(j, None, file') /\ IsWriter(j)
    BY <1>0, <1>2, <1>3, <1>4, <1>5, <1>6, Outcomes DEF FileOp, IsWriter
  <1>8. Writers' = Writers \union {t} /\ job'[t] = j
    <2>1. Writers' = (Writers \ {t}) \union (IF IsWriter(j) THEN {t} ELSE {})
      BY <1>0, <1>2, WritersMove
    <2> QED
      BY <1>0, <1>7, <2>1
  <1>9. AuthorInv'
    <2> SUFFICES ASSUME author' \in Writers'
                 PROVE  Writers' = {author'} /\ file' = SubSeq(job'[author'].data, 1, job'[author'].pos)
      BY DEF AuthorInv
    <2>1. author' = t /\ Writers = {}
      BY <1>0, <1>8, TaskAssumption, WritersAre
    <2>2. SubSeq(j.data, 1, 0) = <<>>
      BY <1>4, Whole
    <2> QED
      BY <1>0, <1>3, <1>8, <2>1, <2>2
  <1>10. author' = None \/ author' \in Tasks
    BY <1>0
  <1> QED
    BY <1>0, <1>1, <1>2, <1>4, <1>7, <1>9, <1>10, WriterMove

\* The only writer adds the next piece of its data.
LEMMA WriteChunkKeepsFile ==
  ASSUME FileInv, TaskInv, NEW t \in Tasks, WriteChunk(t)
  PROVE  FileInv'
  <1> DEFINE p == job[t].pos
             n == p + Piece(t)
             b == job[t].data
             j == Further(job[t], n)
  <1>0. /\ Working(t, Writing, "write") /\ Writing \subseteq FileOps /\ p < job[t].total
        /\ file' = WriteAt(file, p, SubSeq(b, p + 1, n))
        /\ UNCHANGED <<outcome, held, author, saved>>
    BY DEF WriteChunk, FileOps, taskVars
  <1>1. /\ outcome[t] = None /\ job[t].op \in Writing /\ job[t].step = "write" /\ Local(job[t]) /\ IsJob(job[t])
        /\ file \in Seq(Cells)
        /\ job[t].op \notin Synchronous => Progressed(job[t])
    BY <1>0, AtWork
  <1>2. Shapes /\ IsWriter(job[t])
    BY <1>1 DEF TaskInv, IsWriter
  <1>3. saved = None /\ t \in Writers /\ (author \in Writers => author = t /\ Writers = {t})
    BY <1>2, WhileWriting
  <1>4. job' = [u \in Tasks |-> IF u = t THEN j ELSE [job[u] EXCEPT !.clean = FALSE]]
    BY <1>2, JobUpdates DEF WriteChunk
  <1>5. /\ n \in Nat /\ p <= n /\ n <= job[t].total /\ (job[t].op \notin Synchronous => Progressed(j))
    BY <1>0, <1>1, PieceFacts
  <1>6. p \in Nat /\ job[t].total \in Nat /\ b \in Seq(Cells) /\ Len(b) = job[t].total
    BY <1>1 DEF Local
  <1>7. /\ j.op = job[t].op /\ j.step = "write" /\ j.data = b /\ j.pos = n
        /\ j.total = job[t].total /\ j.progress = Append(job[t].progress, n) /\ j.clean = job[t].clean
    BY <1>1, FurtherJob
  <1> HIDE DEF j, n, p, b
  <1>8. file' \in Seq(Cells)
    <2>1. SubSeq(b, p + 1, n) \in Seq(Cells)
      BY <1>5, <1>6, Pieces
    <2> QED
      BY <1>0, <1>1, <1>6, <2>1, WriteAtType
  <1>9. Local(j)
    <2>1. job[t].clean \in BOOLEAN
      BY <1>1 DEF Local
    <2>2. j.step \in Steps /\ j.step \notin {"start", "open", "read"} /\ j.op \notin Reading
      BY <1>1, <1>7 DEF Steps, Writing, Reading
    <2> QED
      BY <1>5, <1>6, <1>7, <2>1, <2>2 DEF Local
  <1>10. FileOp(j, None, file') /\ IsWriter(j) /\ j.op \in Writing
    BY <1>1, <1>5, <1>7, <1>8, <1>9, Outcomes DEF FileOp, IsWriter
  <1>11. Writers' = Writers /\ job'[t] = j
    <2>1. Writers' = (Writers \ {t}) \union (IF IsWriter(j) THEN {t} ELSE {})
      BY <1>2, <1>4, WritersMove
    <2> QED
      BY <1>3, <1>4, <1>10, <2>1
  <1>12. AuthorInv'
    <2> SUFFICES ASSUME author' \in Writers'
                 PROVE  Writers' = {author'} /\ file' = SubSeq(job'[author'].data, 1, job'[author'].pos)
      BY DEF AuthorInv
    <2>1. author' = t /\ author = t /\ Writers = {t}
      BY <1>0, <1>3, <1>11
    <2>2. file = SubSeq(b, 1, p)
      BY <2>1 DEF FileInv, AuthorInv, b, p
    <2>3. file' = SubSeq(b, 1, n)
      BY <1>0, <1>5, <1>6, <2>2, WriteOn
    <2> QED
      BY <1>7, <1>11, <2>1, <2>3
  <1>13. author' = None \/ author' \in Tasks
    BY <1>0 DEF FileInv
  <1>14. saved' = None /\ held' = held /\ outcome'[t] = None /\ \A u \in Tasks \ {t} : outcome'[u] = outcome[u]
    BY <1>0, <1>1, <1>3
  <1> QED
    BY <1>2, <1>4, <1>8, <1>10, <1>12, <1>13, <1>14, WriterMove

-----------------------------------------------------------------------------
(* The rest of the program *)

\* The steps that bring an outcome to an owner are not those of file operations.
LEMMA TasksKeepFile ==
  ASSUME FileInv, TaskInv, UNCHANGED asyncVars,
         \/ \E t \in Tasks : Run(t) \/ Own(t)
         \/ Environment
  PROVE  FileInv'
  <1>1. UNCHANGED <<job, file, author, saved, held>> /\ held' \in Versions
    BY DEF asyncVars, FileInv
  <1>2. ASSUME NEW u \in Tasks, job[u].op \in FileOps PROVE outcome'[u] = outcome[u]
    <2>1. outcome' = outcome \/ \E t \in Tasks : Take(t)
      BY DEF Run, Own, Environment, Publish, Wake, Enter, AwaitResume, FinalAwait, Complete, Misused, Submit, Done,
         Resume, AwaitReady, AwaitSuspend, Destroy, SetExecutor, GuardEnter, GuardExit, PoolRuns, PoolStops
    <2>2. ASSUME NEW t \in Tasks, Take(t) PROVE outcome'[u] = outcome[u]
      <3>1. pc[t].owner = "ready" /\ outcome' = [outcome EXCEPT ![t] = frame[t].result]
        BY <2>2 DEF Take, At
      <3>2. pc[u].owner \in {"inside", "holding", "gone"}
        BY <1>2 DEF TaskInv, GoodTask
      <3>3. u # t
        BY <3>1, <3>2
      <3> QED
        BY <3>1, <3>3 DEF TaskInv, Shapes
    <2> QED
      BY <2>1, <2>2
  <1> QED
    BY <1>1, <1>2, FileStays

\* The chunks of a generator and its end
LEMMA ConsumeKeepsFile ==
  ASSUME FileInv, TaskInv, NEW t \in Tasks, Consume(t)
  PROVE  FileInv'
  <1>1. CASE EndOfStream(t)
    <2>1. UNCHANGED <<job, file, author, saved, held, outcome>> /\ held' \in Versions
      BY <1>1 DEF asyncVars, FileInv, EndOfStream
    <2> QED
      BY <2>1, FileStays
  <1>2. CASE Begin(t) \/ BeginFails(t) \/ Yield(t)
    <2>1. Shapes /\ pc[t].owner = "pulling" /\ UNCHANGED <<file, author, saved, held, outcome>>
      BY <1>2 DEF TaskInv, Begin, BeginFails, Yield, At, taskVars
    <2>2. job[t].op \notin FileOps
      BY <2>1 DEF TaskInv, GoodTask
    <2>3. SameOp(t)
      BY <1>2, <2>1, GoingOn
    <2>4. \A u \in Tasks \ {t} : job'[u] = job[u]
      BY <1>2, <2>1 DEF Begin, BeginFails, Yield, Shapes
    <2>5. held' \in Versions /\ job'[t].op \notin FileOps
      BY <2>1, <2>2, <2>3 DEF FileInv, SameOp
    <2> QED
      BY <2>1, <2>4, <2>5, NoFileMove
  <1> QED
    BY <1>1, <1>2 DEF Consume

LEMMA ForgetKeepsFile ==
  ASSUME FileInv, TaskInv, NEW t \in Tasks, Forget(t)
  PROVE  FileInv'
  <1>1. /\ job'[t] = NoJob /\ \A u \in Tasks \ {t} : job'[u] = job[u] /\ outcome'[u] = outcome[u]
    BY DEF TaskInv, Shapes, Forget
  <1>2. UNCHANGED <<file, saved, held>> /\ author' \in {author, None} /\ held' \in Versions
    BY DEF Forget, FileInv
  <1>3. job'[t].op \notin FileOps
    BY <1>1, Nothing DEF FileOps, Writing, Reading
  <1> QED
    BY <1>1, <1>2, <1>3, NoFileMove

\* A crash leaves the file, and nobody who writes it.
LEMMA CrashKeepsFile ==
  ASSUME FileInv, Crash
  PROVE  FileInv'
  <1>1. /\ \A u \in Tasks : job'[u] = NoJob
        /\ UNCHANGED <<file, saved>> /\ author' = None /\ held' \in Versions
    BY SizeAssumption DEF Crash
  <1>2. "none" \notin FileOps /\ "none" \notin Writing /\ "none" \notin Reading
    BY DEF FileOps, Writing, Reading
  <1>3. Writers' = {}
    BY <1>1, <1>2, Nothing, WritersAre DEF IsWriter
  <1>4. ASSUME NEW u \in Tasks PROVE FileOp(job'[u], outcome'[u], file') /\ CleanReader(job'[u], file', saved')
    BY <1>1, <1>2, Nothing DEF FileOp, CleanReader
  <1>5. AuthorInv' /\ SavedInv'
    BY <1>1, <1>3 DEF FileInv, AuthorInv, SavedInv
  <1> QED
    BY <1>1, <1>4, <1>5 DEF FileInv

LEMMA FileInvInit == Init => FileInv
  <1> SUFFICES ASSUME Init PROVE FileInv
    OBVIOUS
  <1>1. /\ \A u \in Tasks : job[u] = NoJob
        /\ file = NoFile /\ saved = None /\ author = None /\ held \in Versions
    BY DEF Init
  <1>2. "none" \notin FileOps /\ "none" \notin Writing /\ "none" \notin Reading
    BY DEF FileOps, Writing, Reading
  <1>3. Writers = {}
    BY <1>1, <1>2, Nothing, WritersAre DEF IsWriter
  <1>4. ASSUME NEW u \in Tasks PROVE FileOp(job[u], outcome[u], file) /\ CleanReader(job[u], file, saved)
    BY <1>1, <1>2, Nothing DEF FileOp, CleanReader
  <1>5. AuthorInv /\ SavedInv
    BY <1>1, <1>3 DEF AuthorInv, SavedInv
  <1> QED
    BY <1>1, <1>4, <1>5 DEF FileInv

LEMMA FileInvNext ==
  ASSUME FileInv, TaskInv, [Next]_vars
  PROVE  FileInv'
  <1>0. Shapes
    BY DEF TaskInv
  <1>1. ASSUME NEW t \in Tasks, Start(t) PROVE FileInv'
    BY <1>1, StartKeepsFile
  <1>2. ASSUME NEW t \in Tasks, Work(t) PROVE FileInv'
    BY <1>0, <1>2, SerializeKeepsFile, OpenToWriteKeepsFile, WriteChunkKeepsFile, WriteEndsKeepsFile,
       CloseLosesTailKeepsFile, OpenToReadKeepsFile, ReadChunkKeepsFile, FailsKeepFile, EndsKeepFile, OthersKeepFile
       DEF Work
  <1>3. ASSUME NEW t \in Tasks, Consume(t) \/ Forget(t) PROVE FileInv'
    BY <1>3, ConsumeKeepsFile, ForgetKeepsFile
  <1>4. ASSUME (\E t \in Tasks : Run(t) \/ Own(t)) \/ Environment, UNCHANGED asyncVars PROVE FileInv'
    BY <1>4, TasksKeepFile
  <1>5. ASSUME NEW v \in Versions, Set(v) PROVE FileInv'
    <2>1. UNCHANGED <<job, file, author, saved, outcome>> /\ held' \in Versions
      BY <1>5 DEF Set, taskVars
    <2> QED
      BY <2>1, FileStays
  <1>6. CASE Crash
    BY <1>6, CrashKeepsFile
  <1>7. CASE UNCHANGED vars
    <2>1. UNCHANGED <<job, file, author, saved, outcome, held>> /\ held' \in Versions
      BY <1>7 DEF vars, taskVars, asyncVars, FileInv
    <2> QED
      BY <2>1, FileStays
  <1> QED
    BY <1>1, <1>2, <1>3, <1>4, <1>5, <1>6, <1>7 DEF Next

\* The local variables of the file operations, the only writer, what is
\* saved and the clean readers agree with the file in every reachable state.
THEOREM FilesInvariance ==
  ASSUME Pending = FALSE
  PROVE  Spec => []FileInv
  <1>1. Init => FileInv
    BY FileInvInit
  <1>2. FileInv /\ TaskInv /\ [Next]_vars => FileInv'
    BY FileInvNext
  <1> QED
    BY <1>1, <1>2, TasksInvariance, PTL DEF Spec

\* After a save_async, write_file_async or save_packet_result that succeeded
\* the file holds its encoding until somebody opens it to write, and a read
\* or load that met no writer got that encoding: for every chunk size, every
\* size of an encoding and any number of concurrent operations.
THEOREM FilesRoundTrip ==
  ASSUME Pending = FALSE
  PROVE  Spec => []FileRoundTrip
  <1>1. ASSUME FileInv PROVE FileRoundTrip
    <2> SUFFICES ASSUME saved # None
                 PROVE  /\ file = saved
                        /\ \A t \in Tasks : job[t].op \in Reading /\ job[t].clean /\ job[t].pos = job[t].total
                                            /\ job[t].step # "start" => job[t].data = saved
      BY DEF FileRoundTrip
    <2>1. file = saved /\ file \in Seq(Cells)
      BY <1>1 DEF FileInv, SavedInv
    <2>2. ASSUME NEW t \in Tasks, job[t].op \in Reading, job[t].clean, job[t].pos = job[t].total
          PROVE  job[t].data = saved
      <3>1. FileOp(job[t], outcome[t], file) /\ CleanReader(job[t], file, saved)
        BY <1>1 DEF FileInv
      <3>2. job[t].clean \in BOOLEAN
        BY <2>2, <3>1 DEF FileOp, Local, FileOps
      <3>3. job[t].total = Len(file) /\ job[t].data = SubSeq(file, 1, job[t].pos)
        BY <2>2, <3>1, <3>2 DEF CleanReader
      <3> QED
        BY <2>1, <2>2, <3>3, Whole
    <2> QED
      BY <2>1, <2>2
  <1> QED
    BY <1>1, FilesInvariance, PTL

\* The progress callbacks of save_async, load_async, read_file_async and
\* write_file_async name the multiples of the chunk size up to the total,
\* and success comes only after the last: for every chunk size and total.
THEOREM ProgressIsExact ==
  ASSUME Pending = FALSE
  PROVE  Spec => []ProgressExact
  <1>1. ASSUME FileInv PROVE ProgressExact
    <2> SUFFICES ASSUME NEW t \in Tasks, job[t].op \in (Writing \union Reading) \ Synchronous
                 PROVE  /\ job[t].progress = [i \in DOMAIN job[t].progress |-> Least(i * ChunkSize, job[t].total)]
                        /\ outcome[t] \notin {None, Thrown} /\ outcome[t].ok /\ outcome[t].val # <<>> =>
                             job[t].pos = job[t].total /\ Len(job[t].progress) * ChunkSize >= job[t].total
      BY DEF ProgressExact
    <2>1. FileOp(job[t], outcome[t], file) /\ job[t].op \in FileOps /\ job[t].op \notin Synchronous
      BY <1>1 DEF FileInv, FileOps
    <2>2. Local(job[t]) /\ Progressed(job[t]) /\ (Succeeded(outcome[t]) => job[t].pos = job[t].total)
      BY <2>1 DEF FileOp
    <2>3. job[t].progress = [i \in DOMAIN job[t].progress |-> Least(i * ChunkSize, job[t].total)]
      BY <2>2 DEF Progressed
    <2>4. ASSUME job[t].pos = job[t].total PROVE Len(job[t].progress) * ChunkSize >= job[t].total
      <3> DEFINE k == Len(job[t].progress) * ChunkSize
                 n == job[t].total
      <3>1. Len(job[t].progress) \in Nat /\ ChunkSize \in Nat /\ n \in Nat /\ n = Least(k, n)
        BY <2>2, <2>4, ChunkAssumption DEF Progressed, Local
      <3>2. k \in Nat
        BY <3>1
      <3> HIDE DEF k, n
      <3>3. k >= n
        BY <3>1, <3>2 DEF Least
      <3> QED
        BY <3>3 DEF k, n
    <2> QED
      BY <2>2, <2>3, <2>4 DEF Succeeded
  <1> QED
    BY <1>1, FilesInvariance, PTL

-----------------------------------------------------------------------------
(* Chunks joined *)

\* A set of natural numbers that is not empty has a least element.
LEMMA LeastNumber ==
  ASSUME NEW T, T \subseteq Nat, T # {}
  PROVE  \E x \in T : \A y \in T : x <= y
  <1> DEFINE R == OpToRel(<, Nat)
  <1>1. IsWellFoundedOn(R, Nat)
    BY NatLessThanWellFounded
  <1>2. \A x, y \in Nat : x < y => <<x, y>> \in R
    BY DEF OpToRel
  <1> HIDE DEF R
  <1>3. PICK x \in T : \A y \in T : ~ (<<y, x>> \in R)
    BY <1>1, WFMin
  <1>4. \A y \in T : ~ (y < x)
    BY <1>2, <1>3
  <1>5. \A y \in T : x <= y
    BY <1>4
  <1> QED
    BY <1>5

\* Induction over the natural numbers, for a set.
LEMMA SetInduction ==
  ASSUME NEW S, 0 \in S, \A n \in Nat : n \in S => n + 1 \in S
  PROVE  Nat \subseteq S
  <1> SUFFICES ASSUME ~ (Nat \subseteq S) PROVE FALSE
    OBVIOUS
  <1> DEFINE T == Nat \ S
  <1>1. PICK x \in T : \A y \in T : x <= y
    <2>1. T \subseteq Nat /\ T # {}
      OBVIOUS
    <2> HIDE DEF T
    <2> QED
      BY <2>1, LeastNumber
  <1>2. x \in Nat /\ x # 0 /\ x - 1 \in Nat /\ x - 1 \notin T
    BY <1>1
  <1> QED
    BY <1>2

\* The recursion of FlattenSeq over the first m chunks.
IsFlat(f, s, m) == f = [i \in 1..m |-> IF i = 1 THEN s[i] ELSE f[i - 1] \o s[i]]

LEMMA FlatExists ==
  ASSUME NEW s
  PROVE  \A m \in Nat : \E f : IsFlat(f, s, m)
  <1> DEFINE S == {m \in Nat : \E f : IsFlat(f, s, m)}
  <1>1. 0 \in S
    <2>1. IsFlat([i \in 1..0 |-> <<>>], s, 0)
      BY DEF IsFlat
    <2> QED
      BY <2>1
  <1>2. ASSUME NEW n \in Nat, n \in S PROVE n + 1 \in S
    <2>1. PICK f : IsFlat(f, s, n)
      BY <1>2
    <2> DEFINE last == IF n + 1 = 1 THEN s[n + 1] ELSE f[n] \o s[n + 1]
               g == [i \in 1..(n + 1) |-> IF i = n + 1 THEN last ELSE f[i]]
    <2>2. IsFlat(g, s, n + 1)
      <3>1. ASSUME NEW i \in 1..(n + 1)
            PROVE  g[i] = IF i = 1 THEN s[i] ELSE g[i - 1] \o s[i]
        <4>1. CASE i = n + 1
          BY <4>1
        <4>2. CASE i # n + 1
          <5>1. i \in 1..n /\ g[i] = f[i] /\ (i # 1 => g[i - 1] = f[i - 1])
            BY <4>2
          <5> QED
            BY <2>1, <5>1 DEF IsFlat
        <4> QED
          BY <4>1, <4>2
      <3> HIDE DEF last
      <3> QED
        BY <3>1 DEF IsFlat
    <2> QED
      BY <2>2
  <1> HIDE DEF S
  <1>3. Nat \subseteq S
    BY <1>1, <1>2, SetInduction
  <1> QED
    BY <1>3 DEF S

Alike(f, g, m) == \A i \in 1..m : f[i] = g[i]

\* Solutions for chunks that begin alike begin alike.
LEMMA FlatAgree ==
  ASSUME NEW s, NEW r, NEW m \in Nat, NEW n \in Nat, m <= n, NEW f, NEW g,
         IsFlat(f, s, m), IsFlat(g, r, n), Alike(s, r, m)
  PROVE  Alike(f, g, m)
  <1> DEFINE S == {i \in Nat : i \in 1..m => f[i] = g[i]}
  <1>1. 0 \in S
    OBVIOUS
  <1>2. ASSUME NEW i \in Nat, i \in S PROVE i + 1 \in S
    <2> SUFFICES ASSUME i + 1 \in 1..m PROVE f[i + 1] = g[i + 1]
      OBVIOUS
    <2>1. /\ f[i + 1] = IF i + 1 = 1 THEN s[i + 1] ELSE f[i] \o s[i + 1]
          /\ g[i + 1] = IF i + 1 = 1 THEN r[i + 1] ELSE g[i] \o r[i + 1]
      <3>1. i + 1 \in 1..n /\ (i + 1) - 1 = i
        OBVIOUS
      <3>2. f[i + 1] = IF i + 1 = 1 THEN s[i + 1] ELSE f[(i + 1) - 1] \o s[i + 1]
        BY DEF IsFlat
      <3>3. g[i + 1] = IF i + 1 = 1 THEN r[i + 1] ELSE g[(i + 1) - 1] \o r[i + 1]
        BY <3>1 DEF IsFlat
      <3> QED
        BY <3>1, <3>2, <3>3
    <2>2. (i + 1 # 1 => f[i] = g[i]) /\ s[i + 1] = r[i + 1]
      BY <1>2 DEF Alike
    <2> QED
      BY <2>1, <2>2
  <1> HIDE DEF S
  <1>3. Nat \subseteq S
    BY <1>1, <1>2, SetInduction
  <1> QED
    BY <1>3 DEF S, Alike

LEMMA FlattenUnfolds ==
  ASSUME NEW s, Len(s) \in Nat, Len(s) # 0
  PROVE  \E f : IsFlat(f, s, Len(s)) /\ FlattenSeq(s) = f[Len(s)]
  <1> DEFINE F == CHOOSE f : IsFlat(f, s, Len(s))
  <1>1. IsFlat(F, s, Len(s))
    BY FlatExists
  <1>2. FlattenSeq(s) = F[Len(s)]
    BY DEF FlattenSeq, IsFlat
  <1> QED
    BY <1>1, <1>2

\* One more chunk comes behind the ones before it.
LEMMA FlattenAppend ==
  ASSUME NEW S, NEW s \in Seq(Seq(S)), NEW x \in Seq(S)
  PROVE  FlattenSeq(Append(s, x)) = FlattenSeq(s) \o x
  <1> DEFINE r == Append(s, x)
             m == Len(s)
  <1>1. /\ m \in Nat /\ Len(r) = m + 1 /\ r[m + 1] = x
        /\ \A i \in 1..m : s[i] = r[i]
    OBVIOUS
  <1>0. m = 0 => s = <<>>
    OBVIOUS
  <1> HIDE DEF r, m
  <1>2. PICK g : IsFlat(g, r, m + 1) /\ FlattenSeq(r) = g[m + 1]
    <2>1. Len(r) \in Nat /\ Len(r) # 0
      BY <1>1
    <2>2. \E g : IsFlat(g, r, Len(r)) /\ FlattenSeq(r) = g[Len(r)]
      BY <2>1, FlattenUnfolds
    <2> QED
      BY <1>1, <2>2
  <1>3. g[m + 1] = IF m + 1 = 1 THEN x ELSE g[m] \o x
    <2>1. m + 1 \in 1..(m + 1) /\ (m + 1) - 1 = m
      BY <1>1
    <2>2. g[m + 1] = IF m + 1 = 1 THEN r[m + 1] ELSE g[(m + 1) - 1] \o r[m + 1]
      BY <1>2, <2>1 DEF IsFlat
    <2> QED
      BY <1>1, <2>1, <2>2
  <1>4. CASE m = 0
    <2>1. FlattenSeq(s) = <<>>
      BY <1>0, <1>4 DEF FlattenSeq, m
    <2>2. <<>> \o x = x
      OBVIOUS
    <2> QED
      BY <1>2, <1>3, <1>4, <2>1, <2>2 DEF r
  <1>5. CASE m # 0
    <2>1. PICK f : IsFlat(f, s, m) /\ FlattenSeq(s) = f[m]
      BY <1>1, <1>5, FlattenUnfolds DEF m
    <2>2. Alike(f, g, m)
      <3> DEFINE k == m + 1
      <3>1. k \in Nat /\ m <= k /\ m \in Nat /\ IsFlat(g, r, k) /\ IsFlat(f, s, m)
        BY <1>1, <1>2, <2>1
      <3>2. Alike(s, r, m)
        BY <1>1 DEF Alike
      <3> HIDE DEF k
      <3> QED
        BY <3>1, <3>2, FlatAgree
    <2>3. f[m] = g[m]
      BY <1>1, <1>5, <2>2 DEF Alike
    <2> QED
      BY <1>1, <1>2, <1>3, <1>5, <2>1, <2>3 DEF r
  <1> QED
    BY <1>4, <1>5

-----------------------------------------------------------------------------
(* The chunks of serialize_chunked *)

\* The local variables of the generator, and the chunks its consumer got.
Streamed(j) ==
  /\ j.step = "start" => j.data = <<>> /\ j.pos = 0 /\ j.progress = <<>>
  /\ j.step = "failed" => j.data = <<>> /\ j.pos = 0 /\ j.progress = <<>>
  /\ j.step \notin {"start", "failed"} => j.step = "yield" /\ \E v \in Versions : j.data = Bytes(v) /\ j.total = Size[v]
  /\ j.pos \in Nat /\ j.total \in Nat /\ j.pos <= j.total
  /\ j.progress \in Seq(Seq(Cells)) /\ \A i \in DOMAIN j.progress : j.progress[i] # <<>>
  /\ FlattenSeq(j.progress) = SubSeq(j.data, 1, j.pos)

\* Only its consumer moves a generator, and it is at its end when its body is.
Stream(p, f, j) ==
  j.op = "chunked" =>
    /\ p.owner \in {"pulling", "gone"} /\ p.worker = "idle"
    /\ p.owner = "pulling" => f.completed = FALSE
    /\ f.completed = FALSE \/ BodyEnded(j)
    /\ Streamed(j)

StreamInv == \A t \in Tasks : Stream(pc[t], frame[t], job[t])

SameStream(g, j) ==
  /\ g.op = j.op /\ g.step = j.step /\ g.data = j.data /\ g.pos = j.pos
  /\ g.total = j.total /\ g.progress = j.progress

\* Generator u is where it was.
StreamStays(u) == pc'[u] = pc[u] /\ frame'[u] = frame[u] /\ SameStream(job'[u], job[u])

LEMMA StreamMove ==
  ASSUME StreamInv, NEW t \in Tasks, \A u \in Tasks \ {t} : StreamStays(u),
         Stream(pc'[t], frame'[t], job'[t])
  PROVE  StreamInv'
  <1>1. ASSUME NEW u \in Tasks \ {t} PROVE Stream(pc'[u], frame'[u], job'[u])
    <2>1. Stream(pc[u], frame[u], job[u]) /\ StreamStays(u)
      BY DEF StreamInv
    <2> QED
      BY <2>1 DEF Stream, Streamed, StreamStays, SameStream, BodyEnded
  <1> QED
    BY <1>1 DEF StreamInv

LEMMA StreamsStay ==
  ASSUME StreamInv, \A u \in Tasks : job'[u].op = "chunked" => StreamStays(u)
  PROVE  StreamInv'
  <1>1. ASSUME NEW u \in Tasks PROVE Stream(pc'[u], frame'[u], job'[u])
    <2>1. Stream(pc[u], frame[u], job[u])
      BY DEF StreamInv
    <2>2. CASE job'[u].op # "chunked"
      BY <2>2 DEF Stream
    <2>3. CASE StreamStays(u)
      BY <2>1, <2>3 DEF Stream, Streamed, StreamStays, SameStream, BodyEnded
    <2> QED
      BY <2>2, <2>3
  <1> QED
    BY <1>1 DEF StreamInv

\* A task in whose name something was called.
LEMMA CallMoves ==
  ASSUME Shapes, NEW t \in Tasks, Start(t)
  PROVE  /\ \A u \in Tasks \ {t} : StreamStays(u)
         /\ job'[t].op = "chunked" => CallChunked(t)
  <1>1. job = [u \in Tasks |-> job[u]] /\ pc = [u \in Tasks |-> pc[u]] /\ frame = [u \in Tasks |-> frame[u]]
    BY DEF Shapes
  <1>2. \E p : pc' = [pc EXCEPT ![t] = p]
    BY DEF Start, Call, CallAsync, CallWork, CallExecutor, StreamingPart, StreamingPartPlain, CallReady, CallOther,
       CallManual, CallPacket, CallChunked, Go
  <1>3. frame' = frame \/ \E f : frame' = [frame EXCEPT ![t] = f]
    BY DEF Start, Call, CallAsync, CallWork, CallExecutor, StreamingPart, StreamingPartPlain, CallReady, CallOther,
       CallManual, CallPacket, CallChunked
  <1>4. \E op, d : /\ job' = [job EXCEPT ![t] = Job(op, d)]
                   /\ op = "chunked" => CallChunked(t)
    <2>1. ASSUME NEW op \in ops \cap {"serialize", "save", "load", "read", "write", "deserialize"},
                 NEW v \in Versions, Call(t, op, v)
          PROVE  \E d : job' = [job EXCEPT ![t] = Job(op, d)] /\ op # "chunked"
      BY <2>1 DEF Call
    <2>2. ASSUME NEW op \in ops \cap Synchronous, CallPacket(t, op)
          PROVE  job' = [job EXCEPT ![t] = Job(op, <<>>)] /\ op # "chunked"
      BY <2>2 DEF CallPacket, Synchronous
    <2>3. ASSUME CallWork(t) \/ StreamingPart(t) \/ StreamingPartPlain(t) \/ CallOther(t)
          PROVE  \E op \in {"compute", "part", "other"} : job' = [job EXCEPT ![t] = Job(op, <<>>)]
      BY <2>3 DEF CallWork, StreamingPart, StreamingPartPlain, CallOther
    <2>4. ASSUME CallChunked(t) PROVE job' = [job EXCEPT ![t] = Job("chunked", <<>>)]
      BY <2>4 DEF CallChunked
    <2> QED
      BY <2>1, <2>2, <2>3, <2>4 DEF Start
  <1>5. PICK op, d : /\ job' = [job EXCEPT ![t] = Job(op, d)]
                     /\ op = "chunked" => CallChunked(t)
    BY <1>4
  <1>6. job'[t].op = op /\ \A u \in Tasks \ {t} : job'[u] = job[u]
    BY <1>1, <1>5, JobFields
  <1>7. \A u \in Tasks \ {t} : pc'[u] = pc[u]
    BY <1>1, <1>2
  <1>8. \A u \in Tasks \ {t} : frame'[u] = frame[u]
    BY <1>1, <1>3
  <1> QED
    BY <1>5, <1>6, <1>7, <1>8 DEF StreamStays, SameStream

LEMMA StartKeepsStream ==
  ASSUME StreamInv, TaskInv, NEW t \in Tasks, Start(t)
  PROVE  StreamInv'
  <1>0. Shapes
    BY DEF TaskInv
  <1>1. CASE job'[t].op = "chunked"
    <2>1. CallChunked(t)
      BY <1>0, <1>1, CallMoves
    <2>2. /\ pc'[t].owner = "pulling" /\ pc'[t].worker = pc[t].worker /\ pc[t].owner = "idle"
          /\ frame'[t] = Suspended("consumer") /\ job'[t] = Job("chunked", <<>>)
      BY <1>0, <2>1, GoTo DEF CallChunked, At, Roles, Shapes
    <2>3. pc'[t].worker = "idle"
      BY <2>2 DEF TaskInv, GoodTask, WorkerResumes, OwnerResumes
    <2>4. frame'[t].completed = FALSE
      BY <2>2, NewFrames
    <2>5. Streamed(job'[t])
      <3>1. /\ job'[t].step = "start" /\ job'[t].data = <<>> /\ job'[t].total = 0 /\ job'[t].pos = 0
            /\ job'[t].progress = <<>>
        <4>1. Len(<<>>) = 0
          OBVIOUS
        <4> DEFINE j == Job("chunked", <<>>)
        <4>2. j.step = "start" /\ j.data = <<>> /\ j.total = 0 /\ j.pos = 0 /\ j.progress = <<>>
          BY <4>1 DEF Job, NoJob
        <4> HIDE DEF j
        <4> QED
          BY <2>2, <4>2 DEF j
      <3>2. FlattenSeq(job'[t].progress) = SubSeq(job'[t].data, 1, job'[t].pos)
        BY <3>1, SubSeqEmpty DEF FlattenSeq
      <3>3. job'[t].progress \in Seq(Seq(Cells)) /\ \A i \in DOMAIN job'[t].progress : job'[t].progress[i] # <<>>
        BY <3>1
      <3>4. job'[t].pos \in Nat /\ job'[t].total \in Nat /\ job'[t].pos <= job'[t].total
        BY <3>1
      <3> QED
        BY <3>1, <3>2, <3>3, <3>4 DEF Streamed
    <2>6. Stream(pc'[t], frame'[t], job'[t])
      BY <2>2, <2>3, <2>4, <2>5 DEF Stream
    <2> QED
      BY <1>0, <2>6, CallMoves, StreamMove
  <1>2. CASE job'[t].op # "chunked"
    <2>1. Stream(pc'[t], frame'[t], job'[t])
      BY <1>2 DEF Stream
    <2> QED
      BY <1>0, <2>1, CallMoves, StreamMove
  <1> QED
    BY <1>1, <1>2

\* The work of another task leaves generators alone: it only tells readers
\* that they overlapped a writer.
LEMMA WorkKeepsStream ==
  ASSUME StreamInv, TaskInv, NEW t \in Tasks, Work(t)
  PROVE  StreamInv'
  <1>0. /\ Shapes /\ job = [u \in Tasks |-> job[u]] /\ pc = [u \in Tasks |-> pc[u]]
        /\ frame = [u \in Tasks |-> frame[u]] /\ \A u \in Tasks : IsJob(job[u])
    BY DEF TaskInv, Shapes
  <1>1. /\ SameOp(t) /\ (UNCHANGED taskVars \/ \E y : Return(t, y))
        /\ \E j : JobsStep(t, j)
    <2>1. ASSUME NEW x, Closing(t, x)
          PROVE  SameOp(t) /\ (\E y : Return(t, y)) /\ \E j : JobsStep(t, j)
      <3>1. SameOp(t) /\ (\E y : Return(t, y)) /\ (~CloseLosesTail(t) => job' = [job EXCEPT ![t] = Closed(job[t])])
        BY <1>0, <2>1, ClosingReturns
      <3>2. CloseLosesTail(t) => JobsStep(t, Closed(job[t]))
        BY DEF CloseLosesTail, JobsStep, Closed
      <3> QED
        BY <3>1, <3>2 DEF JobsStep
    <2>2. ASSUME Serialize(t) \/ OpenToWrite(t) \/ WriteChunk(t) \/ OpenToRead(t) \/ ReadChunk(t)
          PROVE  SameOp(t) /\ UNCHANGED taskVars /\ \E j : JobsStep(t, j)
      <3>1. SameOp(t) /\ UNCHANGED taskVars
        BY <1>0, <2>2, GoingOn
      <3>2. ASSUME Serialize(t) \/ OpenToRead(t) \/ ReadChunk(t) PROVE job' = [job EXCEPT ![t] = job'[t]]
        BY <1>0, <3>2 DEF Serialize, OpenToRead, ReadChunk
      <3>3. OpenToWrite(t) => JobsStep(t, Opened(job[t]))
        BY DEF OpenToWrite, JobsStep, Opened
      <3>4. WriteChunk(t) => JobsStep(t, Advanced(t))
        BY DEF WriteChunk, JobsStep
      <3> QED
        BY <2>2, <3>1, <3>2, <3>3, <3>4 DEF JobsStep
    <2> QED
      BY <2>1, <2>2 DEF Work, Closing
  <1>2. ASSUME NEW u \in Tasks \ {t} PROVE SameStream(job'[u], job[u])
    <2>1. PICK j : JobsStep(t, j)
      BY <1>1
    <2>2. CASE job' = [job EXCEPT ![t] = j]
      BY <1>0, <2>2 DEF SameStream
    <2>3. CASE job' = [v \in Tasks |-> IF v = t THEN j ELSE [job[v] EXCEPT !.clean = FALSE]]
      <3>1. job'[u] = [job[u] EXCEPT !.clean = FALSE]
        BY <2>3
      <3> QED
        BY <1>0, <3>1 DEF SameStream, IsJob
    <2> QED
      BY <2>1, <2>2, <2>3 DEF JobsStep
  <1>3. ASSUME NEW u \in Tasks \ {t} PROVE pc'[u] = pc[u] /\ frame'[u] = frame[u]
    <2>1. CASE UNCHANGED taskVars
      BY <2>1 DEF taskVars
    <2>2. ASSUME NEW y, Return(t, y) PROVE pc'[u] = pc[u] /\ frame'[u] = frame[u]
      BY <1>0, <2>2 DEF Return, Worked, Go
    <2> QED
      BY <1>1, <2>1, <2>2
  <1>4. job'[t].op # "chunked"
    <2>1. job[t].op # "chunked"
      BY DEF Work, Serialize, OpenToWrite, OpenToWriteFails, WriteChunk, WriteEnds, CloseLosesTail, WriteBreaks,
         OpenToRead, OpenToReadFails, ReadChunk, ReadEnds, ReadBreaks, LoadEnds, DeserializeWork, DeserializePlain,
         SerializeWork, SerializeFails, Compute, Working, Writing, Reading
    <2> QED
      BY <1>1, <2>1 DEF SameOp
  <1>5. Stream(pc'[t], frame'[t], job'[t])
    BY <1>4 DEF Stream
  <1> QED
    BY <1>2, <1>3, <1>5, StreamMove DEF StreamStays

\* begin() serialises the container.
LEMMA BeginKeepsStream ==
  ASSUME StreamInv, TaskInv, held \in Versions, NEW t \in Tasks, Begin(t)
  PROVE  StreamInv'
  <1> DEFINE j == Encoded(job[t], Bytes(held), Size[held], "yield")
  <1>0. Shapes /\ IsJob(job[t]) /\ Stream(pc[t], frame[t], job[t])
    BY DEF TaskInv, Shapes, StreamInv
  <1>1. /\ UNCHANGED <<pc, frame>> /\ pc[t].owner = "pulling" /\ job[t].step = "start"
        /\ job' = [job EXCEPT ![t].data = Bytes(held), ![t].total = Size[held], ![t].step = "yield"]
    BY DEF Begin, taskVars, At
  <1>2. job'[t] = j /\ \A u \in Tasks \ {t} : job'[u] = job[u]
    BY <1>0, <1>1 DEF Shapes, Encoded
  <1>3. /\ j.op = job[t].op /\ j.step = "yield" /\ j.data = Bytes(held) /\ j.pos = job[t].pos
        /\ j.total = Size[held] /\ j.progress = job[t].progress
    BY <1>0, EncodedJob
  <1> HIDE DEF j
  <1>4. Stream(pc'[t], frame'[t], j)
    <2> SUFFICES ASSUME job[t].op = "chunked" PROVE Stream(pc'[t], frame'[t], j)
      BY <1>3 DEF Stream
    <2>1. /\ Streamed(job[t]) /\ pc[t].owner \in {"pulling", "gone"} /\ pc[t].worker = "idle"
          /\ frame[t].completed = FALSE
      BY <1>0, <1>1 DEF Stream
    <2>2. job[t].pos = 0 /\ job[t].progress = <<>> /\ job[t].data = <<>>
      BY <1>1, <2>1 DEF Streamed
    <2>3. Size[held] \in Nat /\ Bytes(held) \in Seq(Cells)
      BY EncodingFacts
    <2>4. SubSeq(Bytes(held), 1, 0) = <<>> /\ FlattenSeq(<<>>) = <<>>
      BY <2>3, Whole DEF FlattenSeq
    <2>5. Streamed(j)
      BY <1>3, <2>1, <2>2, <2>3, <2>4 DEF Streamed
    <2> QED
      BY <1>1, <2>1, <2>5 DEF Stream
  <1> QED
    BY <1>1, <1>2, <1>4, StreamMove DEF StreamStays, SameStream

\* serialize() gave an error: the body ends without a chunk.
LEMMA BeginFailsKeepsStream ==
  ASSUME StreamInv, TaskInv, NEW t \in Tasks, BeginFails(t)
  PROVE  StreamInv'
  <1> DEFINE j == [job[t] EXCEPT !.step = "failed"]
  <1>0. Shapes /\ IsJob(job[t]) /\ Stream(pc[t], frame[t], job[t])
    BY DEF TaskInv, Shapes, StreamInv
  <1>1. /\ UNCHANGED <<pc, frame>> /\ pc[t].owner = "pulling" /\ job[t].step = "start"
        /\ job' = [job EXCEPT ![t] = j]
    BY <1>0 DEF BeginFails, taskVars, At, Shapes
  <1>2. job'[t] = j /\ \A u \in Tasks \ {t} : job'[u] = job[u]
    BY <1>0, <1>1 DEF Shapes
  <1>3. /\ j.op = job[t].op /\ j.step = "failed" /\ j.data = job[t].data /\ j.pos = job[t].pos
        /\ j.total = job[t].total /\ j.progress = job[t].progress
    BY <1>0 DEF IsJob
  <1> HIDE DEF j
  <1>4. Stream(pc'[t], frame'[t], j)
    BY <1>0, <1>1, <1>3 DEF Stream, Streamed
  <1> QED
    BY <1>1, <1>2, <1>4, StreamMove DEF StreamStays, SameStream

\* The end of the next chunk
LEMMA ChunkTaken ==
  ASSUME NEW p \in Nat, NEW q \in Nat, p < q
  PROVE  /\ Least(ChunkSize, q - p) \in Nat /\ Least(ChunkSize, q - p) > 0
         /\ p + Least(ChunkSize, q - p) \in Nat /\ p + Least(ChunkSize, q - p) <= q
  BY ChunkAssumption DEF Least

\* One more chunk is taken from the encoding begin() made.
LEMMA YieldKeepsStream ==
  ASSUME StreamInv, TaskInv, NEW t \in Tasks, Yield(t)
  PROVE  StreamInv'
  <1> DEFINE n == Least(ChunkSize, job[t].total - job[t].pos)
             c == SubSeq(job[t].data, job[t].pos + 1, job[t].pos + n)
             j == [job[t] EXCEPT !.pos = job[t].pos + n, !.progress = Append(job[t].progress, c)]
  <1>0. Shapes /\ IsJob(job[t]) /\ Stream(pc[t], frame[t], job[t])
    BY DEF TaskInv, Shapes, StreamInv
  <1>1. /\ UNCHANGED <<pc, frame>> /\ pc[t].owner = "pulling" /\ job[t].step = "yield" /\ job[t].pos < job[t].total
        /\ job' = [job EXCEPT ![t].pos = @ + n, ![t].progress = Append(@, c)]
    BY DEF Yield, taskVars, At
  <1>2. job'[t] = j /\ \A u \in Tasks \ {t} : job'[u] = job[u]
    <2> HIDE DEF n, c
    <2> QED
      BY <1>0, <1>1 DEF Shapes
  <1>3. /\ j.op = job[t].op /\ j.step = job[t].step /\ j.data = job[t].data /\ j.pos = job[t].pos + n
        /\ j.total = job[t].total /\ j.progress = Append(job[t].progress, c)
    <2> HIDE DEF n, c
    <2> QED
      BY <1>0 DEF IsJob
  <1> HIDE DEF j
  <1>4. Stream(pc'[t], frame'[t], j)
    <2> SUFFICES ASSUME job[t].op = "chunked" PROVE Stream(pc'[t], frame'[t], j)
      BY <1>3 DEF Stream
    <2>1. /\ Streamed(job[t]) /\ pc[t].owner \in {"pulling", "gone"} /\ pc[t].worker = "idle"
          /\ frame[t].completed = FALSE
      BY <1>0, <1>1 DEF Stream
    <2>2. PICK v \in Versions : job[t].data = Bytes(v) /\ job[t].total = Size[v]
      BY <1>1, <2>1 DEF Streamed
    <2>3. /\ job[t].pos \in Nat /\ job[t].total \in Nat /\ job[t].pos <= job[t].total
          /\ job[t].progress \in Seq(Seq(Cells)) /\ \A i \in DOMAIN job[t].progress : job[t].progress[i] # <<>>
          /\ FlattenSeq(job[t].progress) = SubSeq(job[t].data, 1, job[t].pos)
      BY <2>1 DEF Streamed
    <2>4. job[t].data \in Seq(Cells) /\ Len(job[t].data) = job[t].total
      BY <2>2, EncodingFacts
    <2>5. n \in Nat /\ n > 0 /\ job[t].pos + n \in Nat /\ job[t].pos + n <= job[t].total
      BY <1>1, <2>3, ChunkTaken
    <2> HIDE DEF n
    <2>6. c \in Seq(Cells) /\ Len(c) = n
      <3>1. job[t].pos <= job[t].pos + n /\ job[t].pos + n <= Len(job[t].data) /\ (job[t].pos + n) - job[t].pos = n
        BY <2>3, <2>4, <2>5
      <3> DEFINE q == job[t].pos + n
      <3>2. SubSeq(job[t].data, job[t].pos + 1, q) \in Seq(Cells) /\ Len(SubSeq(job[t].data, job[t].pos + 1, q)) = q - job[t].pos
        <4> HIDE DEF q
        <4> QED
          BY <2>3, <2>4, <2>5, <3>1, Pieces DEF q
      <3> QED
        BY <3>1, <3>2
    <2>7. SubSeq(job[t].data, 1, job[t].pos) \o c = SubSeq(job[t].data, 1, job[t].pos + n)
      <3>1. job[t].pos <= job[t].pos + n /\ job[t].pos + n <= Len(job[t].data)
        BY <2>3, <2>4, <2>5
      <3> QED
        BY <2>3, <2>4, <2>5, <3>1, ReadOn
    <2> HIDE DEF c
    <2>8. FlattenSeq(j.progress) = SubSeq(j.data, 1, j.pos)
      BY <1>3, <2>3, <2>6, <2>7, FlattenAppend
    <2>9. /\ j.progress \in Seq(Seq(Cells))
          /\ \A i \in DOMAIN j.progress : j.progress[i] # <<>>
      <3>1. c # <<>>
        BY <2>5, <2>6
      <3> QED
        BY <1>3, <2>3, <2>6, <3>1
    <2>10. Streamed(j)
      BY <1>1, <1>3, <2>2, <2>3, <2>5, <2>8, <2>9 DEF Streamed
    <2> QED
      BY <1>1, <2>1, <2>10 DEF Stream
  <1> QED
    BY <1>1, <1>2, <1>4, StreamMove DEF StreamStays, SameStream

LEMMA EndKeepsStream ==
  ASSUME StreamInv, TaskInv, NEW t \in Tasks, EndOfStream(t)
  PROVE  StreamInv'
  <1>0. Shapes /\ IsFrame(frame[t]) /\ Stream(pc[t], frame[t], job[t])
    BY DEF TaskInv, Shapes, StreamInv
  <1>1. /\ pc' = [pc EXCEPT ![t] = pc'[t]] /\ pc'[t].owner = "gone" /\ pc'[t].worker = pc[t].worker
    BY <1>0, GoTo DEF EndOfStream, Roles
  <1>2. frame' = [frame EXCEPT ![t].at = "destroyed", ![t].completed = BodyEnded(job[t])]
    BY DEF EndOfStream
  <1>3. frame'[t].completed = BodyEnded(job[t])
    BY <1>0, <1>2 DEF Shapes, IsFrame
  <1>4. \A u \in Tasks \ {t} : pc'[u] = pc[u] /\ frame'[u] = frame[u]
    BY <1>0, <1>1, <1>2 DEF Shapes
  <1>5. job' = job
    BY DEF EndOfStream, asyncVars
  <1>6. Stream(pc'[t], frame'[t], job'[t])
    <2>1. CASE BodyEnded(job[t])
      BY <1>0, <1>1, <1>5, <2>1 DEF Stream
    <2>2. CASE ~BodyEnded(job[t])
      <3>1. frame'[t].completed = FALSE
        BY <1>3, <2>2, Zenon DEF BodyEnded
      <3> QED
        BY <1>0, <1>1, <1>5, <3>1 DEF Stream
    <2> QED
      BY <2>1, <2>2
  <1> QED
    BY <1>4, <1>5, <1>6, StreamMove DEF StreamStays, SameStream

\* The steps of the other coroutines and of the executor
LEMMA TasksKeepStream ==
  ASSUME StreamInv, TaskInv, UNCHANGED asyncVars,
         \/ \E t \in Tasks : Run(t) \/ Own(t)
         \/ Environment
  PROVE  StreamInv'
  <1>0. /\ job' = job /\ pc = [u \in Tasks |-> pc[u]] /\ frame = [u \in Tasks |-> frame[u]]
        /\ \A u \in Tasks : IsPos(pc[u])
    BY DEF asyncVars, TaskInv, Shapes
  <1>1. ASSUME NEW u \in Tasks, job'[u].op = "chunked" PROVE StreamStays(u)
    <2>0. pc[u].owner \in {"pulling", "gone"} /\ pc[u].worker = "idle"
      BY <1>0, <1>1 DEF StreamInv, Stream
    <2>1. ASSUME NEW t \in Tasks, Run(t) \/ Own(t) PROVE pc'[u] = pc[u] /\ frame'[u] = frame[u]
      <3>1. /\ pc' = pc \/ (\E p : pc' = [pc EXCEPT ![t] = p]) \/ \E r \in Roles : \E l : Go(t, r, l)
            /\ frame' = frame \/ \E f : frame' = [frame EXCEPT ![t] = f]
        BY <2>1 DEF Run, Own, Publish, Wake, Enter, AwaitResume, FinalAwait, Complete, Misused, Submit, Done,
           Resume, AwaitReady, AwaitSuspend, Take, Destroy, Roles
      <3>2. t # u
        <4>1. \/ pc[t].owner \notin {"pulling", "gone"}
              \/ pc[t].worker # "idle"
          BY <2>1 DEF Run, Own, Publish, Wake, AwaitResume, FinalAwait, Complete, Submit, Done,
             Resume, AwaitReady, AwaitSuspend, Take, Destroy, At, Roles
        <4> QED
          BY <2>0, <4>1
      <3> QED
        BY <1>0, <3>1, <3>2 DEF Go
    <2>2. ASSUME Environment PROVE pc'[u] = pc[u] /\ frame'[u] = frame[u]
      <3>1. CASE PoolRuns
        <4>1. PICK t \in Tasks : pc' = [pc EXCEPT ![t]["worker"] = "work"] /\ Queued(t)
          <5>1. 1 \in DOMAIN pool.jobs /\ pool.jobs[1] \in Tasks /\ Head(pool.jobs) = pool.jobs[1]
            BY <3>1 DEF PoolRuns, TaskInv, JobsInv
          <5> QED
            BY <3>1, <5>1 DEF PoolRuns, Go, TaskInv, JobsInv
        <4>2. t # u
          BY <2>0, <4>1 DEF Queued, Waits
        <4> QED
          BY <1>0, <3>1, <4>1, <4>2 DEF PoolRuns
      <3>2. CASE ~PoolRuns
        BY <2>2, <3>2 DEF Environment, SetExecutor, GuardEnter, GuardExit, PoolStops
      <3> QED
        BY <3>1, <3>2
    <2> QED
      BY <1>0, <2>1, <2>2 DEF StreamStays, SameStream
  <1> QED
    BY <1>1, StreamsStay

LEMMA StreamInvNext ==
  ASSUME StreamInv, TaskInv, FileInv, [Next]_vars
  PROVE  StreamInv'
  <1>0. held \in Versions /\ Shapes
    BY DEF FileInv, TaskInv
  <1>1. ASSUME NEW t \in Tasks, Start(t) \/ Work(t) PROVE StreamInv'
    BY <1>1, StartKeepsStream, WorkKeepsStream
  <1>2. ASSUME NEW t \in Tasks, Consume(t) PROVE StreamInv'
    BY <1>0, <1>2, BeginKeepsStream, BeginFailsKeepsStream, YieldKeepsStream, EndKeepsStream DEF Consume
  <1>3. ASSUME NEW t \in Tasks, Forget(t) PROVE StreamInv'
    <2>1. /\ job'[t] = NoJob /\ \A u \in Tasks \ {t} : job'[u] = job[u] /\ pc'[u] = pc[u] /\ frame'[u] = frame[u]
      BY <1>0, <1>3 DEF Shapes, Forget
    <2>2. Stream(pc'[t], frame'[t], job'[t])
      BY <2>1, Nothing DEF Stream
    <2> QED
      BY <2>1, <2>2, StreamMove DEF StreamStays, SameStream
  <1>4. ASSUME (\E t \in Tasks : Run(t) \/ Own(t)) \/ Environment, UNCHANGED asyncVars PROVE StreamInv'
    BY <1>4, TasksKeepStream
  <1>5. ASSUME UNCHANGED <<pc, frame, job>> PROVE StreamInv'
    BY <1>5 DEF StreamInv
  <1>6. CASE Crash
    <2>1. \A u \in Tasks : job'[u].op # "chunked"
      BY <1>6, Nothing DEF Crash
    <2> QED
      BY <2>1 DEF StreamInv, Stream
  <1>7. ASSUME (\E v \in Versions : Set(v)) \/ UNCHANGED vars PROVE UNCHANGED <<pc, frame, job>>
    BY <1>7 DEF Set, vars, taskVars, asyncVars
  <1> QED
    BY <1>1, <1>2, <1>3, <1>4, <1>5, <1>6, <1>7 DEF Next

\* The chunks that serialize_chunked yields are not empty and join to a
\* beginning of the encoding that begin() made, although the container
\* changes meanwhile; a stream that ended by itself gave all of it, or no chunk
\* when the container could not be serialised: for every chunk size, every
\* size of an encoding and any number of generators.
THEOREM StreamsAreFaithful ==
  ASSUME Pending = FALSE
  PROVE  Spec => []StreamFaithful
  <1>1. Init => StreamInv
    <2> SUFFICES ASSUME Init PROVE StreamInv
      OBVIOUS
    <2>1. \A u \in Tasks : job[u].op # "chunked"
      BY Nothing DEF Init
    <2> QED
      BY <2>1 DEF StreamInv, Stream
  <1>2. StreamInv /\ TaskInv /\ FileInv /\ [Next]_vars => StreamInv'
    BY StreamInvNext
  <1>3. ASSUME StreamInv PROVE StreamFaithful
    <2> SUFFICES ASSUME NEW t \in Tasks, job[t].op = "chunked"
                 PROVE  /\ \A i \in DOMAIN job[t].progress : job[t].progress[i] # <<>>
                        /\ FlattenSeq(job[t].progress) = SubSeq(job[t].data, 1, job[t].pos)
                        /\ job[t].step = "failed" => job[t].progress = <<>>
                        /\ frame[t].completed /\ job[t].step # "failed" =>
                             FlattenSeq(job[t].progress) \in {Bytes(v) : v \in Versions}
      BY DEF StreamFaithful
    <2>1. /\ Streamed(job[t])
          /\ frame[t].completed = FALSE \/ job[t].step = "failed" \/ (job[t].step = "yield" /\ job[t].pos = job[t].total)
      BY <1>3 DEF StreamInv, Stream, BodyEnded
    <2>2. ASSUME job[t].step = "yield", job[t].pos = job[t].total
          PROVE  FlattenSeq(job[t].progress) \in {Bytes(v) : v \in Versions}
      <3>1. PICK v \in Versions : job[t].data = Bytes(v) /\ job[t].total = Size[v]
        BY <2>1, <2>2 DEF Streamed
      <3>2. SubSeq(Bytes(v), 1, Size[v]) = Bytes(v)
        BY EncodingFacts, Whole
      <3> QED
        BY <2>1, <2>2, <3>1, <3>2 DEF Streamed
    <2>3. frame[t].completed /\ job[t].step # "failed" => FlattenSeq(job[t].progress) \in {Bytes(v) : v \in Versions}
      BY <2>1, <2>2, Zenon
    <2> QED
      BY <2>1, <2>3 DEF Streamed
  <1> QED
    BY <1>1, <1>2, <1>3, TasksInvariance, FilesInvariance, PTL DEF Spec

=============================================================================
