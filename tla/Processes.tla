----------------------------- MODULE Processes -----------------------------
(***************************************************************************)
(* The process scheduler of LevelFS (scheduler.hpp): the shell starts,     *)
(* lists, kills and forgets processes, and for every process it has started*)
(* a detached thread waits for its end.  What happens under processMutex   *)
(* is one step.  A thread waits on a copy of the handle, without the mutex,*)
(* so the handle may be closed, and its value be another process's, by the *)
(* time the wait begins.                                                   *)
(*                                                                         *)
(* The i-th process the operating system has created is the number i here, *)
(* whatever its systemPid.  The thread handle is closed with the process   *)
(* handle and left out, and so is what the shell does to the startup file  *)
(* by other commands than create.                                          *)
(***************************************************************************)
EXTENDS Naturals, FiniteSets, SequencesExt

CONSTANTS Names,      \* the names of process definitions
          Mentions,   \* <<m, n>>: the text of definition m has the name n in it
          Handles,    \* the values of process handles
          NULL, NoProcess, NoFile,
          MaxPid      \* bound: the pids given out

ASSUME ProcessesAssumption ==
  /\ Mentions \subseteq Names \X Names
  /\ NULL \notin Handles
  /\ MaxPid \in Nat

Pids == 1 .. MaxPid
ManagedProcess == [systemPid : Nat, handle : Handles \cup {NULL}, isRunning : BOOLEAN]

ASSUME NoProcessAssumption == NoProcess \notin ManagedProcess

VARIABLES processes,  \* the table of managed processes, NoProcess where it has none
          nextPid,    \* nextPid
          system,     \* what has become of the processes created
          refers,     \* the process an open handle leads to, 0 if it is not open
          monitors,   \* the threads in monitorProcess
          startup,    \* the names in the startup file, or NoFile
          shell,      \* "idle", "starting" or "gone"
          created,    \* what startProcess has created and not yet entered in the table
          toStart     \* what loadStartupProcesses has yet to start

vars == <<processes, nextPid, system, refers, monitors, startup, shell, created, toStart>>

Listed == {p \in Pids : processes[p] # NoProcess}

\* rootfsInit creates /data, but no startup file.
Init ==
  /\ processes = [p \in Pids |-> NoProcess]
  /\ nextPid = 1
  /\ system = <<>>
  /\ refers = [h \in Handles |-> 0]
  /\ monitors = <<>>
  /\ startup = NoFile
  /\ shell = "idle" /\ created = <<>> /\ toStart = <<>>

-----------------------------------------------------------------------------
(* startProcess.                                                           *)

\* What the shell may start: anything, or the next of the startup file's.
Wanted ==
  IF toStart = <<>> THEN [name : Names, onReboot : BOOLEAN]
  ELSE {[name |-> Head(toStart), onReboot |-> TRUE]}

\* Mutant: the first number that the table does not use.
FirstFreePid == CHOOSE p \in Pids \ Listed : \A q \in Pids \ Listed : p <= q

NewPid == nextPid

\* Extracting the program or CreateProcess may fail, which costs a pid.
Create(d) ==
  /\ shell = "idle" /\ nextPid \in Pids /\ d \in Wanted
  /\ nextPid' = nextPid + 1
  /\ toStart' = IF toStart = <<>> THEN <<>> ELSE Tail(toStart)
  /\ \/ UNCHANGED <<system, refers, shell, created>>
     \/ \E h \in {x \in Handles : refers[x] = 0} :
          /\ system' = Append(system, "running")
          /\ refers' = [refers EXCEPT ![h] = Len(system')]
          /\ created' = <<NewPid, h, d>>
          /\ shell' = "starting"
  /\ UNCHANGED <<processes, monitors, startup>>

\* Whether the file has the name anywhere in its text.
Occurs(n) ==
  startup # NoFile /\ \E m \in ToSet(startup) : m = n \/ <<m, n>> \in Mentions

\* writeFileContent writes a file that is there, and creates none.
Written(n) == IF startup = NoFile THEN NoFile ELSE Append(startup, n)

\* saveStartupProcess takes a name that occurs in the file for saved.
Saved(d) == IF ~ d.onReboot \/ Occurs(d.name) THEN startup ELSE Written(d.name)

Thread(p, step) == [pid |-> p, step |-> step, handle |-> NULL, waitsFor |-> 0]

\* Mutant: nobody waits for the process.
NoThread(p) == UNCHANGED monitors

\* Mutant: the thread is started before the table has the process.
EarlyThread(p) == \E s \in {"new", "over"} : monitors' = Append(monitors, Thread(p, s))

StartThread(p) == monitors' = Append(monitors, Thread(p, "new"))

\* processMutex is released between the table and the thread, and no thread looks at
\* which others there are or at the startup file.
Insert ==
  /\ shell = "starting" /\ shell' = "idle" /\ created' = <<>>
  /\ processes' =
       [processes EXCEPT ![created[1]] =
         [systemPid |-> Len(system), handle |-> created[2], isRunning |-> TRUE]]
  /\ StartThread(created[1])
  /\ startup' = Saved(created[3])
  /\ UNCHANGED <<nextPid, system, refers, toStart>>

-----------------------------------------------------------------------------
(* monitorProcess.                                                         *)

\* A thread's steps: "new", "copied", "waiting", "signaled", "over", and "astray" when it
\* has used the scheduler's members after their destruction.
Copy(i) ==
  LET p == monitors[i].pid IN
  /\ shell # "gone" /\ monitors[i].step = "new"
  /\ monitors' =
       IF p \in Listed /\ processes[p].handle # NULL
       THEN [monitors EXCEPT ![i].step = "copied", ![i].handle = processes[p].handle]
       ELSE [monitors EXCEPT ![i].step = "over"]
  /\ UNCHANGED <<processes, nextPid, system, refers, startup, shell, created, toStart>>

\* Waiting on a closed handle fails at once.
BeginWait(i) ==
  LET j == refers[monitors[i].handle] IN
  /\ monitors[i].step = "copied"
  /\ monitors' = IF j = 0 THEN [monitors EXCEPT ![i].step = "signaled"]
                 ELSE [monitors EXCEPT ![i].step = "waiting", ![i].waitsFor = j]
  /\ UNCHANGED <<processes, nextPid, system, refers, startup, shell, created, toStart>>

\* Closing a handle that is waited on may end the wait.
EndWait(i) ==
  /\ monitors[i].step = "waiting"
  /\ \/ system[monitors[i].waitsFor] # "running"
     \/ refers[monitors[i].handle] # monitors[i].waitsFor
  /\ monitors' = [monitors EXCEPT ![i].step = "signaled"]
  /\ UNCHANGED <<processes, nextPid, system, refers, startup, shell, created, toStart>>

MarkStopped(i) ==
  LET p == monitors[i].pid IN
  /\ shell # "gone" /\ monitors[i].step = "signaled"
  /\ processes' = IF p \in Listed THEN [processes EXCEPT ![p].isRunning = FALSE]
                  ELSE processes
  /\ monitors' = [monitors EXCEPT ![i].step = "over"]
  /\ UNCHANGED <<nextPid, system, refers, startup, shell, created, toStart>>

\* The threads are detached: the ends that ~ProcessScheduler brings about wake them while
\* ~TaskHandler still joins the optimizer, and they take a mutex and a table that are no
\* more.  What they do then has no defined outcome.
UseDestroyed(i) ==
  /\ shell = "gone" /\ monitors[i].step \in {"new", "signaled"}
  /\ monitors' = [monitors EXCEPT ![i].step = "astray"]
  /\ UNCHANGED <<processes, nextPid, system, refers, startup, shell, created, toStart>>

-----------------------------------------------------------------------------
(* The job commands, mount and exit.                                       *)

Idle == shell = "idle" /\ toStart = <<>>

\* Mutant: the table keeps the handle.
KilledKeepsHandle(e) == [e EXCEPT !.isRunning = FALSE]

Killed(e) == [e EXCEPT !.handle = NULL, !.isRunning = FALSE]

\* Terminating a process that has ended by itself fails, and nothing changes then.
Kill(p) ==
  LET h == processes[p].handle IN
  /\ Idle /\ p \in Listed
  /\ processes[p].isRunning /\ h # NULL
  /\ refers[h] # 0 /\ system[refers[h]] = "running"
  /\ system' = [system EXCEPT ![refers[h]] = "terminated"]
  /\ refers' = [refers EXCEPT ![h] = 0]
  /\ processes' = [processes EXCEPT ![p] = Killed(@)]
  /\ UNCHANGED <<nextPid, monitors, startup, shell, created, toStart>>

\* updateProcessStatuses: a process that has exited with the code STILL_ACTIVE is taken
\* for running.
Updated ==
  [p \in Pids |->
    IF p \in Listed /\ processes[p].handle # NULL
       /\ refers[processes[p].handle] # 0
       /\ system[refers[processes[p].handle]] \in {"exited", "terminated"}
    THEN [processes[p] EXCEPT !.isRunning = FALSE]
    ELSE processes[p]]

List ==
  /\ Idle
  /\ processes' = Updated
  /\ UNCHANGED <<nextPid, system, refers, monitors, startup, shell, created, toStart>>

Stopped == {p \in Pids : Updated[p] # NoProcess /\ ~ Updated[p].isRunning}

\* Mutant: the handles of what is forgotten are not closed.
CloseNone(S) == UNCHANGED refers

CloseHandles(S) == refers' = [h \in Handles |-> IF h \in S THEN 0 ELSE refers[h]]

Cleanup ==
  /\ Idle
  /\ CloseHandles({processes[p].handle : p \in Stopped})
  /\ processes' = [p \in Pids |-> IF p \in Stopped THEN NoProcess ELSE Updated[p]]
  /\ UNCHANGED <<nextPid, system, monitors, startup, shell, created, toStart>>

\* create file in /data.
CreateStartupFile ==
  /\ Idle /\ startup = NoFile /\ startup' = <<>>
  /\ UNCHANGED <<processes, nextPid, system, refers, monitors, shell, created, toStart>>

\* Every mount starts what the file has, and what it has started before too.
Mount ==
  /\ Idle /\ startup # NoFile /\ toStart' = startup
  /\ UNCHANGED <<processes, nextPid, system, refers, monitors, startup, shell, created>>

\* What ~ProcessScheduler terminates.
Ending == {p \in Listed : processes[p].isRunning /\ processes[p].handle # NULL}

\* Its table is gone with it, and kept here as it was.
Exit ==
  /\ Idle /\ shell' = "gone"
  /\ system' = [i \in DOMAIN system |->
       IF system[i] = "running" /\ \E p \in Ending : refers[processes[p].handle] = i
       THEN "terminated" ELSE system[i]]
  /\ CloseHandles({processes[p].handle : p \in Ending})
  /\ UNCHANGED <<processes, nextPid, monitors, startup, created, toStart>>

\* A process ends, possibly with the exit code 259, which is STILL_ACTIVE.
End(i) ==
  /\ system[i] = "running"
  /\ \E s \in {"exited", "exited259"} : system' = [system EXCEPT ![i] = s]
  /\ UNCHANGED <<processes, nextPid, refers, monitors, startup, shell, created, toStart>>

Monitor(i) ==
  Copy(i) \/ BeginWait(i) \/ EndWait(i) \/ MarkStopped(i) \/ UseDestroyed(i)

Next ==
  \/ \E d \in Wanted : Create(d)
  \/ Insert
  \/ \E i \in DOMAIN monitors : Monitor(i)
  \/ \E p \in Pids : Kill(p)
  \/ List \/ Cleanup \/ CreateStartupFile \/ Mount \/ Exit
  \/ \E i \in DOMAIN system : End(i)

\* Threads are scheduled, the shell's one among them in the middle of startProcess.
Fairness ==
  /\ WF_vars(Insert)
  /\ \A i \in Pids : WF_vars(i \in DOMAIN monitors /\ Monitor(i))

Spec == Init /\ [][Next]_vars /\ Fairness

-----------------------------------------------------------------------------
(* Correctness.                                                            *)

\* The scheduler's state has the form the code gives it.
TypeOK ==
  /\ processes \in [Pids -> ManagedProcess \cup {NoProcess}]
  /\ nextPid \in 1 .. MaxPid + 1
  /\ system \in Seq({"running", "exited", "exited259", "terminated"})
  /\ refers \in [Handles -> 0 .. Len(system)]
  /\ \A i \in DOMAIN monitors :
       /\ monitors[i].pid \in Pids
       /\ monitors[i].handle \in Handles \cup {NULL}
       /\ monitors[i].waitsFor \in 0 .. Len(system)
  /\ Len(system) = Len(monitors) + (IF shell = "starting" THEN 1 ELSE 0)
  /\ startup = NoFile \/ startup \in Seq(Names)
  /\ shell \in {"idle", "starting", "gone"}
  /\ shell = "starting" <=> created # <<>>
  /\ toStart \in Seq(Names)

\* A process that job list shows as STOPPED has ended, or has been told to: no thread
\* that woke up on a handle closed and given to another process marks it too soon.
StoppedHasEnded ==
  \A p \in Listed :
    ~ processes[p].isRunning => system[processes[p].systemPid] # "running"

\* The handle in the table is open and leads to the process that it was opened for, so
\* that job kill and job cleanup never terminate or close another one's.
HandlesLeadHome ==
  shell # "gone" =>
    \A p \in Listed : processes[p].handle # NULL =>
      refers[processes[p].handle] = processes[p].systemPid

\* When the scheduler is gone, so is every process it has started: none has been marked
\* as stopped, or forgotten, while it ran, and none has had its handle closed.
NothingRunsOn == shell = "gone" => \A i \in DOMAIN system : system[i] # "running"

\* Every handle that is open is in the table, or about to be: none is lost.
NoHandleLost ==
  \A h \in Handles : refers[h] # 0 =>
    \/ \E p \in Listed : processes[p].handle = h
    \/ shell = "starting" /\ created[2] = h

\* A process that ends is shown as stopped in the end, by its thread if by nobody else,
\* unless the table has forgotten it.
EndIsNoticed ==
  \A p \in Pids :
    (p \in Listed /\ system[processes[p].systemPid] # "running") ~>
      (shell = "gone" \/ p \notin Listed \/ ~ processes[p].isRunning)
=============================================================================
