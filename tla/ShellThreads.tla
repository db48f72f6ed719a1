---------------------------- MODULE ShellThreads ----------------------------
(***************************************************************************)
(* The shell with the threads it owns (FileSystemShell in mount.cpp): the  *)
(* pool, whose client it is, and the optimizer, which mount starts.  At    *)
(* the end its members are destroyed in reverse order: ~TaskHandler stops  *)
(* the optimizer, and only then ~ThreadPool stops the pool.                *)
(***************************************************************************)
EXTENDS ThreadPool

VARIABLES optimizerRunning, optimizer, stopper,
          exiting     \* the destructors have begun

TH == INSTANCE TaskHandler

optimizerVars == <<optimizerRunning, optimizer, stopper>>
shellVars == <<vars, optimizerVars, exiting>>

ShellInit == Init /\ TH!Init /\ exiting = FALSE

\* A command runs in the shell's thread between two others.
Idle == client = "free" /\ ~ exiting

\* The end of mount.
Mount == Idle /\ TH!StartOptimizer /\ UNCHANGED <<vars, exiting>>

\* fsck and import.  One that an exception ends has not waited for its tasks.
Command ==
  /\ ~ exiting
  /\ (\E t \in Tasks : Enqueue(t)) \/ NotifyOne \/ Wait \/ GetAll
  /\ UNCHANGED <<optimizerVars, exiting>>

Worker ==
  /\ \E w \in Workers : Look(w) \/ Finish(w) \/ SpuriousWakeup(w)
  /\ UNCHANGED <<optimizerVars, exiting>>

Optimizer == TH!Thread /\ UNCHANGED <<vars, exiting>>

\* exit, or the end of the input.
Exit == Idle /\ TH!ClearFlag /\ exiting' = TRUE /\ UNCHANGED vars

EndTaskHandler == (TH!Notify \/ TH!JoinOptimizer) /\ UNCHANGED <<vars, exiting>>

EndThreadPool ==
  /\ exiting /\ stopper = "none"
  /\ Stop \/ NotifyAll \/ Join
  /\ UNCHANGED <<optimizerVars, exiting>>

ShellNext ==
  Mount \/ Command \/ Worker \/ Optimizer \/ Exit \/ EndTaskHandler \/ EndThreadPool

\* The pool's, the optimizer's, and the destructors follow each other.
ShellFairness == Fairness /\ TH!Fairness /\ WF_shellVars(EndThreadPool)

ShellSpec == ShellInit /\ [][ShellNext]_shellVars /\ ShellFairness

-----------------------------------------------------------------------------
(* Correctness.                                                            *)

\* The variables have their types, and there is a thread while the flag is set.
ShellTypeOK ==
  /\ TypeOK /\ exiting \in BOOLEAN /\ optimizerRunning \in BOOLEAN
  /\ optimizer \in {"none", "loop", "predicate", "blocking", "asleep", "awake",
                    "callback", "ended"}
  /\ stopper \in {"none", "notifying", "joining"}
  /\ optimizerRunning => optimizer # "none" /\ ~ exiting

\* The pool and the optimizer outlive nothing they use: the pool is stopped only after the
\* optimizer's thread has ended, and at the end no task is queued or running.  The threads
\* of the scheduler (Processes, UseDestroyed) are detached, and not among these.
NoneOutlivesTheShell ==
  /\ stop => optimizer = "none"
  /\ client = "over" => tasks = <<>> /\ Running = {}

\* The program ends, although the notification may come between the thread's look at the
\* flag and its going to sleep, and workers may be asleep, running, or on their way.
ExitEnds == exiting ~> client = "over"
=============================================================================
