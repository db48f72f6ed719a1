------------------------- MODULE ShellThreadsProofs -------------------------
(***************************************************************************)
(* The properties of the shell's threads for any number of workers and any *)
(* tasks.  That nobody sleeps on work is no invariant of the pool by       *)
(* itself: while a notification is on its way, one task more than there    *)
(* are workers awake may be queued, and nobody sleeps any more when the    *)
(* destructor has notified all.                                            *)
(***************************************************************************)
EXTENDS ShellThreads, FiniteSetTheorems, SequenceTheorems, TLAPS

Ready == {w \in Workers : worker[w] = "ready"}

\* A task more may be queued than workers are awake, while its notification is on its way.
Noticed ==
  tasks # <<>> /\ Asleep # {} =>
    \/ client = "stopping"
    \/ client = "notify" /\ Len(tasks) <= Cardinality(Ready) + 1
    \/ Len(tasks) <= Cardinality(Ready)

\* How the pool ends.
Ending ==
  /\ stop <=> client \in {"stopping", "joining", "over"}
  /\ client \in {"joining", "over"} => Asleep = {}
  /\ \A w \in Workers : worker[w] = "gone" => stop /\ tasks = <<>>
  /\ client = "over" => \A w \in Workers : worker[w] = "gone"

PoolInv == TypeOK /\ EveryTaskOnce /\ Noticed /\ Ending

-----------------------------------------------------------------------------
(* The pool's types.                                                       *)

LEMMA TypeStep == TypeOK /\ [Next]_vars => TypeOK'
<1> SUFFICES ASSUME TypeOK, [Next]_vars  PROVE TypeOK'
  OBVIOUS
<1> USE PoolAssumption DEF TypeOK
<1>1. ASSUME NEW w \in Workers, Look(w)  PROVE TypeOK'
  <2>1. CASE tasks' = tasks /\ current' = current /\ worker[w] = "ready"
             /\ \E p \in {"asleep", "gone"} : worker' = [worker EXCEPT ![w] = p]
    BY <1>1, <2>1 DEF Look
  <2>2. CASE tasks # <<>> /\ Pop(w)
    <3>1. Head(tasks) \in Tasks /\ Tail(tasks) \in Seq(Tasks)
      BY <2>2
    <3> QED BY <1>1, <2>2, <3>1 DEF Look, Pop
  <2> QED BY <1>1, <2>1, <2>2 DEF Look
<1>2. ASSUME NEW w \in Workers, Finish(w)  PROVE TypeOK'
  BY <1>2 DEF Finish
<1>3. ASSUME NEW w \in Workers, SpuriousWakeup(w)  PROVE TypeOK'
  BY <1>3 DEF SpuriousWakeup
<1>4. ASSUME NEW t \in Tasks, Enqueue(t)  PROVE TypeOK'
  <2>1. Append(tasks, t) \in Seq(Tasks)
    OBVIOUS
  <2> QED BY <1>4, <2>1 DEF Enqueue
<1>5. CASE NotifyOne
  BY <1>5 DEF NotifyOne, Asleep
<1>6. CASE Wait
  BY <1>6 DEF Wait
<1>7. CASE GetAll
  BY <1>7 DEF GetAll
<1>8. CASE Stop
  BY <1>8 DEF Stop
<1>9. CASE NotifyAll
  BY <1>9 DEF NotifyAll, WakeAll, Asleep
<1>10. CASE Join
  BY <1>10 DEF Join
<1>11. CASE UNCHANGED vars
  BY <1>11 DEF vars
<1> QED BY <1>1, <1>2, <1>3, <1>4, <1>5, <1>6, <1>7, <1>8, <1>9, <1>10, <1>11 DEF Next

-----------------------------------------------------------------------------
(* Every task is in one place.                                             *)

LEMMA OnceStep == TypeOK /\ EveryTaskOnce /\ [Next]_vars => EveryTaskOnce'
<1> SUFFICES ASSUME TypeOK, EveryTaskOnce, [Next]_vars  PROVE EveryTaskOnce'
  OBVIOUS
<1> USE PoolAssumption DEF EveryTaskOnce, Queued, Running
<1>1. CASE UNCHANGED <<tasks, current, done>>
  BY <1>1
<1>2. ASSUME NEW w \in Workers, worker[w] = "ready", tasks # <<>>, Pop(w), done' = done
      PROVE  EveryTaskOnce'
  <2>1. /\ Len(tasks) \in Nat \ {0} /\ Head(tasks) = tasks[1]
        /\ Len(tasks') = Len(tasks) - 1
        /\ \A i \in 1 .. Len(tasks') : tasks'[i] = tasks[i + 1]
    BY <1>2 DEF TypeOK, Pop
  <2>2. current' = [current EXCEPT ![w] = tasks[1]] /\ current \in [Workers -> Tasks \cup {NoTask}]
        /\ current[w] = NoTask /\ tasks[1] \in Queued /\ tasks[1] # NoTask
    BY <1>2, <2>1 DEF Pop, TypeOK
  <2>3. \A i, j \in 1 .. Len(tasks') : tasks'[i] = tasks'[j] => i = j
    BY <2>1
  <2>4. \A v, x \in Workers : current'[v] = current'[x] /\ current'[v] # NoTask => v = x
    BY <2>2
  <2>5. Queued' \subseteq Queued \ {tasks[1]}
    BY <2>1
  <2>6. Running' \subseteq Running \cup {tasks[1]}
    BY <2>2
  <2>7. /\ Queued' \cap Running' = {} /\ Queued' \cap done' = {}
        /\ Running' \cap done' = {}
    <3>1. /\ Queued \cap Running = {} /\ Queued \cap done = {} /\ Running \cap done = {}
          /\ tasks[1] \in Queued /\ done' = done
      BY <1>2, <2>2
    <3> HIDE DEF Queued, Running
    <3> QED BY <2>5, <2>6, <3>1
  <2> QED BY <2>3, <2>4, <2>7
<1>3. ASSUME NEW w \in Workers, Finish(w)  PROVE EveryTaskOnce'
  <2>1. /\ current' = [current EXCEPT ![w] = NoTask] /\ current \in [Workers -> Tasks \cup {NoTask}]
        /\ current[w] # NoTask /\ tasks' = tasks /\ done' = done \cup {current[w]}
    BY <1>3 DEF Finish, TypeOK
  <2>2. Running' \subseteq Running \ {current[w]} /\ current[w] \in Running
    BY <2>1
  <2>3. \A v, x \in Workers : current'[v] = current'[x] /\ current'[v] # NoTask => v = x
    BY <2>1
  <2> QED BY <2>1, <2>2, <2>3
<1>4. ASSUME NEW t \in Tasks, Enqueue(t)  PROVE EveryTaskOnce'
  <2>1. /\ tasks' = Append(tasks, t) /\ current' = current /\ done' = done
        /\ t \notin Queued /\ t \notin Running /\ t \notin done
    BY <1>4 DEF Enqueue, Enqueued
  <2>2. /\ Len(tasks) \in Nat /\ Len(tasks') = Len(tasks) + 1
        /\ \A i \in 1 .. Len(tasks) : tasks'[i] = tasks[i]
        /\ tasks'[Len(tasks')] = t
    BY <2>1 DEF TypeOK
  <2>3. \A i \in 1 .. Len(tasks') : i \in 1 .. Len(tasks) \/ i = Len(tasks')
    BY <2>2
  <2>4. Queued' = Queued \cup {t}
    BY <2>2, <2>3
  <2>5. \A i, j \in 1 .. Len(tasks') : tasks'[i] = tasks'[j] => i = j
    BY <2>1, <2>2, <2>3
  <2>6. Running' = Running
    BY <2>1
  <2>7. Queued' \cap Running' = {} /\ (Queued' \cup Running') \cap done' = {}
    BY <2>1, <2>4, <2>6
  <2>8. \A v, x \in Workers : current'[v] = current'[x] /\ current'[v] # NoTask => v = x
    BY <2>1
  <2> QED BY <2>5, <2>7, <2>8
<1>5. ASSUME NEW w \in Workers, Look(w)  PROVE EveryTaskOnce'
  BY <1>1, <1>2, <1>5 DEF Look
<1> QED
  BY <1>1, <1>3, <1>4, <1>5
     DEF Next, SpuriousWakeup, NotifyOne, Wait, GetAll, Stop, NotifyAll, Join, vars

-----------------------------------------------------------------------------
(* Nobody sleeps on work.                                                  *)

LEMMA ReadyFinite ==
  \A S \in SUBSET Workers : IsFiniteSet(S) /\ Cardinality(S) \in Nat
  BY PoolAssumption, FS_Subset, FS_CardinalityType

\* One worker more is awake.
LEMMA Awakened ==
  ASSUME TypeOK, NEW w \in Workers, worker[w] # "ready",
         worker' = [worker EXCEPT ![w] = "ready"]
  PROVE  Cardinality(Ready') = Cardinality(Ready) + 1 /\ Asleep' \subseteq Asleep
<1>1. Ready' = Ready \cup {w} /\ w \notin Ready
  BY DEF Ready, TypeOK
<1>2. Cardinality(Ready') = Cardinality(Ready) + 1
  BY <1>1, ReadyFinite, FS_AddElement DEF Ready
<1> QED BY <1>2 DEF Asleep, TypeOK

LEMMA NoticedStep == TypeOK /\ Noticed /\ Ending /\ [Next]_vars => Noticed'
<1> SUFFICES ASSUME TypeOK, Noticed, Ending, [Next]_vars  PROVE Noticed'
  OBVIOUS
<1> DEFINE n == Cardinality(Ready)
<1>0. n \in Nat /\ n' \in Nat /\ Len(tasks) \in Nat
  BY ReadyFinite DEF Ready, TypeOK
<1>1. CASE tasks' = <<>> \/ Asleep' = {}
  BY <1>1 DEF Noticed
<1>2. CASE UNCHANGED <<tasks, worker, client>>
  BY <1>2 DEF Noticed, Asleep, Ready
<1>3. ASSUME NEW w \in Workers, worker[w] # "ready", worker' = [worker EXCEPT ![w] = "ready"],
             tasks' = tasks, client' = client
      PROVE  Noticed'
  <2>1. n' = n + 1 /\ Asleep' \subseteq Asleep
    BY <1>3, Awakened
  <2> HIDE DEF n
  <2>2. tasks # <<>> /\ Asleep # {} =>
          \/ client = "stopping"
          \/ client = "notify" /\ Len(tasks) <= n + 1
          \/ Len(tasks) <= n
    BY DEF Noticed, n
  <2>3. tasks' # <<>> /\ Asleep' # {} =>
          \/ client' = "stopping"
          \/ client' = "notify" /\ Len(tasks') <= n' + 1
          \/ Len(tasks') <= n'
    BY <1>0, <1>3, <2>1, <2>2
  <2> QED BY <2>3 DEF Noticed, n
<1>4. ASSUME NEW w \in Workers, Look(w)  PROVE Noticed'
  <2>1. CASE tasks' = <<>>
    BY <1>1, <2>1
  <2>2. CASE tasks # <<>> /\ Pop(w)
    <3>1. Asleep' = Asleep /\ Ready' = Ready \ {w} /\ w \in Ready
      BY <1>4, <2>2 DEF Look, Pop, Asleep, Ready, TypeOK
    <3>2. n' = n - 1
      BY <3>1, ReadyFinite, FS_RemoveElement DEF Ready
    <3>3. Len(tasks') = Len(tasks) - 1 /\ client' = client
      BY <1>4, <2>2 DEF Look, Pop, TypeOK
    <3> HIDE DEF n
    <3>4. tasks # <<>> /\ Asleep # {} =>
            \/ client = "stopping"
            \/ client = "notify" /\ Len(tasks) <= n + 1
            \/ Len(tasks) <= n
      BY DEF Noticed, n
    <3>5. tasks' # <<>> /\ Asleep' # {} =>
            \/ client' = "stopping"
            \/ client' = "notify" /\ Len(tasks') <= n' + 1
            \/ Len(tasks') <= n'
      BY <1>0, <2>2, <3>1, <3>2, <3>3, <3>4
    <3> QED BY <3>5 DEF Noticed, n
  <2> QED BY <1>4, <2>1, <2>2 DEF Look, Leaves
<1>5. ASSUME NEW w \in Workers, Finish(w)  PROVE Noticed'
  BY <1>3, <1>5 DEF Finish
<1>6. ASSUME NEW w \in Workers, SpuriousWakeup(w)  PROVE Noticed'
  BY <1>3, <1>6 DEF SpuriousWakeup
<1>7. ASSUME NEW t \in Tasks, Enqueue(t)  PROVE Noticed'
  <2>1. /\ Asleep' = Asleep /\ Ready' = Ready /\ client = "free" /\ client' = "notify"
        /\ Len(tasks') = Len(tasks) + 1
    BY <1>7 DEF Enqueue, Asleep, Ready, TypeOK
  <2>2. n' = n
    BY <2>1
  <2>3. tasks = <<>> => Len(tasks) = 0
    OBVIOUS
  <2> HIDE DEF n
  <2>4. Asleep # {} => Len(tasks) <= n
    BY <1>0, <2>1, <2>3 DEF Noticed, n
  <2>5. Asleep' # {} => Len(tasks') <= n' + 1
    BY <1>0, <2>1, <2>2, <2>4
  <2> QED BY <2>1, <2>5 DEF Noticed, n
<1>8. CASE NotifyOne
  <2>1. CASE Asleep = {} /\ worker' = worker
    BY <1>1, <2>1 DEF Asleep
  <2>2. ASSUME NEW w \in Asleep, worker' = [worker EXCEPT ![w] = "ready"]
        PROVE  Noticed'
    <3>1. w \in Workers /\ worker[w] # "ready"
      BY DEF Asleep
    <3>2. n' = n + 1 /\ Asleep' \subseteq Asleep
      BY <2>2, <3>1, Awakened
    <3> HIDE DEF n
    <3>3. tasks # <<>> => Len(tasks) <= n + 1
      BY <1>0, <1>8, <2>2 DEF Noticed, n, NotifyOne
    <3>4. tasks' # <<>> => Len(tasks') <= n'
      BY <1>8, <3>2, <3>3 DEF NotifyOne
    <3> QED BY <3>4 DEF Noticed, n
  <2> QED BY <1>8, <2>1, <2>2 DEF NotifyOne
<1>9. CASE Wait \/ GetAll \/ Stop
  <2>1. Asleep' = Asleep /\ Ready' = Ready /\ tasks' = tasks /\ client # "notify"
        /\ client # "stopping"
    BY <1>9 DEF Wait, GetAll, Stop, Asleep, Ready
  <2> QED BY <2>1 DEF Noticed
<1>10. CASE NotifyAll
  <2>1. Asleep' = {}
    BY <1>10 DEF NotifyAll, WakeAll, Asleep
  <2> QED BY <1>1, <2>1
<1>11. CASE Join
  <2>1. Asleep' = {}
    BY <1>11 DEF Join, Asleep
  <2> QED BY <1>1, <2>1
<1> QED
  BY <1>2, <1>4, <1>5, <1>6, <1>7, <1>8, <1>9, <1>10, <1>11 DEF Next, vars

LEMMA EndingStep == TypeOK /\ Ending /\ [Next]_vars => Ending'
<1> SUFFICES ASSUME TypeOK, Ending, [Next]_vars  PROVE Ending'
  OBVIOUS
<1> USE DEF TypeOK, Ending, Asleep
<1>1. ASSUME NEW w \in Workers, Look(w)  PROVE Ending'
  <2>1. CASE tasks # <<>> /\ Pop(w)
    BY <1>1, <2>1 DEF Look, Pop
  <2> QED BY <1>1, <2>1 DEF Look, Leaves
<1>2. ASSUME NEW w \in Workers, Finish(w)  PROVE Ending'
  BY <1>2 DEF Finish
<1>3. ASSUME NEW w \in Workers, SpuriousWakeup(w)  PROVE Ending'
  BY <1>3 DEF SpuriousWakeup
<1>4. ASSUME NEW t \in Tasks, Enqueue(t)  PROVE Ending'
  BY <1>4 DEF Enqueue
<1>5. CASE NotifyOne
  BY <1>5 DEF NotifyOne
<1>6. CASE Wait \/ GetAll
  BY <1>6 DEF Wait, GetAll
<1>7. CASE Stop
  BY <1>7 DEF Stop
<1>8. CASE NotifyAll
  BY <1>8 DEF NotifyAll, WakeAll
<1>9. CASE Join
  BY <1>9 DEF Join
<1>10. CASE UNCHANGED vars
  BY <1>10 DEF vars
<1> QED BY <1>1, <1>2, <1>3, <1>4, <1>5, <1>6, <1>7, <1>8, <1>9, <1>10 DEF Next

LEMMA PoolStep == PoolInv /\ [Next]_vars => PoolInv'
  BY TypeStep, OnceStep, NoticedStep, EndingStep DEF PoolInv

LEMMA PoolInit == Init => PoolInv
<1> SUFFICES ASSUME Init  PROVE PoolInv
  OBVIOUS
<1>1. TypeOK
  <2>1. <<>> \in Seq(Tasks)
    OBVIOUS
  <2>2. worker \in [Workers -> {"ready", "asleep", "running", "gone"}]
    BY DEF Init
  <2>3. current \in [Workers -> Tasks \cup {NoTask}]
    BY DEF Init
  <2> QED BY <2>1, <2>2, <2>3 DEF Init, TypeOK
<1>2. EveryTaskOnce
  BY DEF Init, EveryTaskOnce, Queued, Running
<1>3. Noticed /\ Ending
  BY DEF Init, Noticed, Ending, Asleep
<1> QED BY <1>1, <1>2, <1>3 DEF PoolInv

-----------------------------------------------------------------------------
(* The shell.                                                              *)

\* The optimizer's thread has ended when the pool is stopped.
InOrder ==
  /\ exiting /\ stopper = "none" => optimizer = "none"
  /\ stop => exiting /\ stopper = "none"
  /\ stopper # "none" => exiting

ShellInv == PoolInv /\ ShellTypeOK /\ InOrder

LEMMA ShellStep == ShellInv /\ [ShellNext]_shellVars => ShellInv'
<1> SUFFICES ASSUME ShellInv, [ShellNext]_shellVars  PROVE ShellInv'
  OBVIOUS
<1>1. [Next]_vars
  BY DEF ShellNext, Mount, Command, Worker, Optimizer, Exit, EndTaskHandler,
         EndThreadPool, shellVars, vars, Next
<1>2. PoolInv'
  BY <1>1, PoolStep DEF ShellInv
<1> USE <1>2 DEF ShellInv, PoolInv, ShellTypeOK, InOrder
<1>3. CASE Mount
  BY <1>3 DEF Mount, Idle, TH!StartOptimizer, vars
<1>4. CASE Command
  BY <1>4 DEF Command, Enqueue, NotifyOne, Wait, GetAll, optimizerVars
<1>5. CASE Worker
  BY <1>5 DEF Worker, Look, Finish, SpuriousWakeup, optimizerVars
<1>6. CASE Optimizer
  BY <1>6 DEF Optimizer, TH!Thread, TH!Step, TH!Loop, TH!Predicate, TH!Block,
              TH!SpuriousWakeup, TH!Interval, TH!Awake, TH!Callback, vars
<1>7. CASE Exit
  <2>1. ~ stop
    BY <1>7 DEF Exit, Idle, Ending
  <2> QED BY <1>7, <2>1 DEF Exit, Idle, TH!ClearFlag, vars
<1>8. CASE EndTaskHandler
  BY <1>8 DEF EndTaskHandler, TH!Notify, TH!JoinOptimizer, vars
<1>9. CASE EndThreadPool
  BY <1>9 DEF EndThreadPool, Stop, NotifyAll, Join, optimizerVars
<1>10. CASE UNCHANGED shellVars
  BY <1>10 DEF shellVars, vars, optimizerVars
<1> QED BY <1>3, <1>4, <1>5, <1>6, <1>7, <1>8, <1>9, <1>10 DEF ShellNext

LEMMA ShellInvariant == ShellSpec => []ShellInv
<1>1. ShellInit => ShellInv
  BY PoolInit DEF ShellInit, TH!Init, ShellInv, PoolInv, ShellTypeOK, InOrder, Init
<1> QED BY <1>1, ShellStep, PTL DEF ShellSpec

\* The variables have their types, a worker has a task just while it runs one, and there is
\* an optimizer thread while its flag is set (startOptimizer, worker loop of the pool).
THEOREM ShellTypeCorrect == ShellSpec => []ShellTypeOK
  BY ShellInvariant, PTL DEF ShellInv

\* enqueue, the workers' loop and the destructor neither lose a task nor run it twice.
THEOREM TasksRunOnce == ShellSpec => []EveryTaskOnce
<1>1. ShellInv => EveryTaskOnce
  BY DEF ShellInv, PoolInv
<1> QED BY <1>1, ShellInvariant, PTL

\* notify_one after the mutex is released loses no wake-up.
THEOREM NoLostWakeup == ShellSpec => []NobodySleepsOnWork
<1>1. ASSUME ShellInv  PROVE NobodySleepsOnWork
  BY <1>1 DEF ShellInv, PoolInv, Noticed, NobodySleepsOnWork, Ready
<1> QED BY <1>1, ShellInvariant, PTL

\* The pool is stopped only after the optimizer's thread has ended, and ends with nothing
\* queued or running.
THEOREM NoThreadOutlives == ShellSpec => []NoneOutlivesTheShell
<1>1. ASSUME ShellInv  PROVE NoneOutlivesTheShell
  <2>1. stop => optimizer = "none"
    BY <1>1 DEF ShellInv, InOrder
  <2>2. ASSUME client = "over"  PROVE tasks = <<>> /\ Running = {}
    <3>1. \A w \in Workers : worker[w] = "gone"
      BY <1>1, <2>2 DEF ShellInv, PoolInv, Ending
    <3>2. tasks = <<>>
      BY <1>1, <3>1, PoolAssumption DEF ShellInv, PoolInv, Ending
    <3>3. \A w \in Workers : current[w] = NoTask
      BY <1>1, <3>1 DEF ShellInv, PoolInv, TypeOK
    <3> QED BY <3>2, <3>3 DEF Running
  <2> QED BY <2>1, <2>2 DEF NoneOutlivesTheShell
<1> QED BY <1>1, ShellInvariant, PTL
=============================================================================
