---------------------------- MODULE TaskHandler ----------------------------
(***************************************************************************)
(* The optimizer thread of LevelFS (TaskHandler in utils/handler.hpp): it  *)
(* waits on a condition variable for an interval at a time and runs its    *)
(* callback in between, until stopOptimizer clears optimizerRunning,       *)
(* notifies without optimizerMutex, and joins.                             *)
(*                                                                         *)
(* Nobody but the thread takes optimizerMutex, so it is left out.  So are  *)
(* background tasks: the shell starts none.                                *)
(***************************************************************************)
VARIABLES optimizerRunning,  \* the flag
          optimizer,         \* where the thread is, "none" when there is none
          stopper            \* where stopOptimizer is, "none" outside it

vars == <<optimizerRunning, optimizer, stopper>>

Init == optimizerRunning = FALSE /\ optimizer = "none" /\ stopper = "none"

\* Does nothing while there is a thread, as when a volume is mounted again.
StartOptimizer ==
  /\ stopper = "none"
  /\ IF optimizerRunning THEN UNCHANGED <<optimizerRunning, optimizer>>
     ELSE optimizerRunning' = TRUE /\ optimizer' = "loop"
  /\ UNCHANGED stopper

-----------------------------------------------------------------------------
(* The thread.                                                             *)

Step(from, to) ==
  /\ optimizer = from /\ optimizer' = to
  /\ UNCHANGED <<optimizerRunning, stopper>>

\* while (optimizerRunning)
Loop == Step("loop", IF optimizerRunning THEN "predicate" ELSE "ended")

\* wait_for looks at the flag before it blocks, and again when it is woken.
Predicate == Step("predicate", IF optimizerRunning THEN "blocking" ELSE "awake")

Block == Step("blocking", "asleep")

SpuriousWakeup == Step("asleep", "predicate")

\* Mutant: wait without an interval.
NoInterval == FALSE /\ UNCHANGED vars

\* The interval, counted from the start of wait_for, is over.
Interval == Step("asleep", "awake")

Awake == Step("awake", IF optimizerRunning THEN "callback" ELSE "ended")

Callback == Step("callback", "loop")

-----------------------------------------------------------------------------
(* stopOptimizer.                                                          *)

ClearFlag ==
  /\ stopper = "none" /\ stopper' = "notifying"
  /\ optimizerRunning' = FALSE
  /\ UNCHANGED optimizer

\* A thread that is about to block is not woken.
Notify ==
  /\ stopper = "notifying" /\ stopper' = "joining"
  /\ optimizer' = IF optimizer = "asleep" THEN "predicate" ELSE optimizer
  /\ UNCHANGED optimizerRunning

\* Mutant: the thread is detached.
Detach ==
  /\ stopper = "joining" /\ stopper' = "none"
  /\ UNCHANGED <<optimizerRunning, optimizer>>

JoinOptimizer ==
  /\ stopper = "joining" /\ stopper' = "none"
  /\ optimizer \in {"none", "ended"} /\ optimizer' = "none"
  /\ UNCHANGED optimizerRunning

StopOptimizer == ClearFlag \/ Notify \/ JoinOptimizer

Thread == Loop \/ Predicate \/ Block \/ SpuriousWakeup \/ Interval \/ Awake \/ Callback

\* What gets on by itself: a thread need not wake up spuriously.
Fairness ==
  /\ WF_vars(Loop \/ Predicate \/ Block \/ Interval \/ Awake \/ Callback)
  /\ WF_vars(Notify) /\ WF_vars(JoinOptimizer)
=============================================================================
