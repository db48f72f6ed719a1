----------------------------- MODULE ThreadPool -----------------------------
(***************************************************************************)
(* The thread pool of LevelFS (ThreadPool in utils/handler.hpp): workers   *)
(* that sleep on a condition variable, a client that enqueues tasks, as    *)
(* fsck does, and waits for their results or not, and the destructor that  *)
(* stops the pool and joins the workers.  What happens under queueMutex is *)
(* one step; notifying happens after it is released.                       *)
(*                                                                         *)
(* activeTasks, which nothing reads, is left out.                          *)
(***************************************************************************)
EXTENDS Naturals, Sequences, FiniteSets

CONSTANTS Workers,    \* numThreads
          Tasks,      \* bound: the tasks that are ever enqueued
          NoTask

ASSUME PoolAssumption == NoTask \notin Tasks /\ Workers # {} /\ IsFiniteSet(Workers)

VARIABLES tasks,      \* the queue
          stop,       \* stop
          worker,     \* "ready" to look at the queue, "asleep", "running", "gone"
          current,    \* the task a worker runs
          done,       \* the tasks whose future is ready
          client,     \* "free", "notify", "waiting", "stopping", "joining", "over"
          awaited     \* the tasks enqueued since the client last waited

vars == <<tasks, stop, worker, current, done, client, awaited>>

Running == {current[w] : w \in Workers} \ {NoTask}
Queued == {tasks[i] : i \in 1 .. Len(tasks)}
Enqueued == Queued \cup Running \cup done

Init ==
  /\ tasks = <<>> /\ stop = FALSE
  /\ worker = [w \in Workers |-> "ready"]
  /\ current = [w \in Workers |-> NoTask]
  /\ done = {} /\ client = "free" /\ awaited = {}

-----------------------------------------------------------------------------
(* A worker.                                                               *)

\* Mutant: a worker leaves as soon as the pool is stopped.
LeavesAtOnce == stop

\* stop && tasks.empty()
Leaves == stop /\ tasks = <<>>

\* Mutant: the task is copied but not popped.
Peek(w) ==
  /\ worker' = [worker EXCEPT ![w] = "running"]
  /\ current' = [current EXCEPT ![w] = Head(tasks)]
  /\ UNCHANGED tasks

Pop(w) ==
  /\ worker' = [worker EXCEPT ![w] = "running"]
  /\ current' = [current EXCEPT ![w] = Head(tasks)]
  /\ tasks' = Tail(tasks)

\* A worker with the mutex: it sleeps while the predicate is false, or else leaves or
\* takes the first task.
Look(w) ==
  /\ worker[w] = "ready"
  /\ \/ /\ ~ stop /\ tasks = <<>>
        /\ worker' = [worker EXCEPT ![w] = "asleep"]
        /\ UNCHANGED <<tasks, current>>
     \/ /\ Leaves
        /\ worker' = [worker EXCEPT ![w] = "gone"]
        /\ UNCHANGED <<tasks, current>>
     \/ ~ Leaves /\ tasks # <<>> /\ Pop(w)
  /\ UNCHANGED <<stop, done, client, awaited>>

\* Mutant: the worker does not let go of the task.
FinishKeeps(w) ==
  /\ worker[w] = "running"
  /\ worker' = [worker EXCEPT ![w] = "ready"]
  /\ done' = done \cup {current[w]}
  /\ UNCHANGED <<tasks, stop, current, client, awaited>>

\* The task's future becomes ready.
Finish(w) ==
  /\ worker[w] = "running"
  /\ worker' = [worker EXCEPT ![w] = "ready"]
  /\ current' = [current EXCEPT ![w] = NoTask]
  /\ done' = done \cup {current[w]}
  /\ UNCHANGED <<tasks, stop, client, awaited>>

\* A condition variable may wake up by itself.
SpuriousWakeup(w) ==
  /\ worker[w] = "asleep"
  /\ worker' = [worker EXCEPT ![w] = "ready"]
  /\ UNCHANGED <<tasks, stop, current, done, client, awaited>>

-----------------------------------------------------------------------------
(* The client.                                                             *)

Asleep == {w \in Workers : worker[w] = "asleep"}

\* Mutant: only the first task after an empty queue is notified.
EnqueueQuietly(t) ==
  /\ client = "free"
  /\ t \in Tasks \ Enqueued
  /\ tasks' = Append(tasks, t)
  /\ awaited' = awaited \cup {t}
  /\ client' = IF tasks = <<>> /\ Running = {} THEN "notify" ELSE "free"
  /\ UNCHANGED <<stop, worker, current, done>>

Enqueue(t) ==
  /\ client = "free"
  /\ t \in Tasks \ Enqueued
  /\ tasks' = Append(tasks, t)
  /\ awaited' = awaited \cup {t}
  /\ client' = "notify"
  /\ UNCHANGED <<stop, worker, current, done>>

NotifyOne ==
  /\ client = "notify" /\ client' = "free"
  /\ \/ Asleep = {} /\ UNCHANGED worker
     \/ \E w \in Asleep : worker' = [worker EXCEPT ![w] = "ready"]
  /\ UNCHANGED <<tasks, stop, current, done, awaited>>

\* fsck and ParallelExecutor wait for the futures of all they have enqueued.
Wait ==
  /\ client = "free" /\ awaited # {} /\ client' = "waiting"
  /\ UNCHANGED <<tasks, stop, worker, current, done, awaited>>

GetAll ==
  /\ client = "waiting" /\ awaited \subseteq done
  /\ client' = "free" /\ awaited' = {}
  /\ UNCHANGED <<tasks, stop, worker, current, done>>

\* ~ThreadPool.
Stop ==
  /\ client = "free" /\ client' = "stopping"
  /\ stop' = TRUE
  /\ UNCHANGED <<tasks, worker, current, done, awaited>>

WakeAll == worker' = [w \in Workers |-> IF w \in Asleep THEN "ready" ELSE worker[w]]

NotifyAll ==
  /\ client = "stopping" /\ client' = "joining"
  /\ WakeAll
  /\ UNCHANGED <<tasks, stop, current, done, awaited>>

Join ==
  /\ client = "joining" /\ \A w \in Workers : worker[w] = "gone"
  /\ client' = "over"
  /\ UNCHANGED <<tasks, stop, worker, current, done, awaited>>

Next ==
  \/ \E w \in Workers : Look(w) \/ Finish(w) \/ SpuriousWakeup(w)
  \/ \E t \in Tasks : Enqueue(t)
  \/ NotifyOne \/ Wait \/ GetAll \/ Stop \/ NotifyAll \/ Join

\* Threads are scheduled, tasks end, and the client goes through with what it has begun;
\* it need not enqueue, wait or stop.
Fairness ==
  /\ \A w \in Workers : WF_vars(Look(w)) /\ WF_vars(Finish(w))
  /\ WF_vars(NotifyOne) /\ WF_vars(GetAll) /\ WF_vars(NotifyAll) /\ WF_vars(Join)

Spec == Init /\ [][Next]_vars /\ Fairness

-----------------------------------------------------------------------------
(* Correctness.                                                            *)

\* The variables have their types, and a worker has a task just while it runs one, so
\* that none is dropped or run again when the worker looks at the queue.
TypeOK ==
  /\ tasks \in Seq(Tasks) /\ stop \in BOOLEAN
  /\ worker \in [Workers -> {"ready", "asleep", "running", "gone"}]
  /\ current \in [Workers -> Tasks \cup {NoTask}]
  /\ \A w \in Workers : worker[w] = "running" <=> current[w] # NoTask
  /\ done \subseteq Tasks /\ awaited \subseteq Tasks
  /\ client \in {"free", "notify", "waiting", "stopping", "joining", "over"}

\* Every task is in one place: queued once, run by one worker, or done.
EveryTaskOnce ==
  /\ \A i, j \in 1 .. Len(tasks) : tasks[i] = tasks[j] => i = j
  /\ \A v, w \in Workers : current[v] = current[w] /\ current[v] # NoTask => v = w
  /\ Queued \cap Running = {} /\ Queued \cap done = {} /\ Running \cap done = {}

\* The lost wake-up: there are never more tasks than there are workers awake to take
\* one, while another worker sleeps and no notification is on its way.
NobodySleepsOnWork ==
  /\ tasks # <<>> /\ Asleep # {} /\ client # "notify" /\ client # "stopping"
  => Len(tasks) <= Cardinality({w \in Workers : worker[w] = "ready"})

\* Every task runs, also one that is still queued when the pool is stopped, so that no
\* future is waited for in vain.
EveryTaskRuns == \A t \in Tasks : (t \in Queued) ~> (t \in done)
=============================================================================
