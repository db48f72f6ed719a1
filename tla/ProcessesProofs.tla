-------------------------- MODULE ProcessesProofs --------------------------
(***************************************************************************)
(* The scheduler's safety for any number of processes, handles and threads.*)
(* The thread that waits for a process is started with its entry in the    *)
(* table: the i-th thread waits for the i-th process.  While that one runs *)
(* it is in the table, its handle is open, and the thread has no other     *)
(* one, so that nothing wakes the thread up too soon; a handle that has    *)
(* been given to another process can only reach the thread of one that has *)
(* ended.                                                                  *)
(***************************************************************************)
EXTENDS Processes, SequenceTheorems, TLAPS

Steps == {"new", "copied", "waiting", "signaled", "over", "astray"}
Threads == [pid : Pids, step : Steps, handle : Handles \cup {NULL}, waitsFor : Nat]
States == {"running", "exited", "exited259", "terminated"}

Typed == TypeOK /\ monitors \in Seq(Threads)

\* The process that is being started has the last number and the last pid.
Starting ==
  shell = "starting" =>
    /\ created \in Pids \X Handles \X [name : Names, onReboot : BOOLEAN]
    /\ created[1] = nextPid - 1 /\ refers[created[2]] = Len(system)

Numbered ==
  /\ \A i \in DOMAIN monitors :
       /\ monitors[i].pid < nextPid
       /\ shell = "starting" => monitors[i].pid < created[1]
  /\ \A i, j \in DOMAIN monitors : monitors[i].pid = monitors[j].pid => i = j
  /\ \A p \in Listed : /\ processes[p].systemPid \in DOMAIN monitors
                       /\ monitors[processes[p].systemPid].pid = p

KilledHasStopped == \A p \in Listed : processes[p].handle = NULL => ~ processes[p].isRunning

\* What runs has not been forgotten.
RunningIsListed ==
  \A i \in DOMAIN monitors :
    shell # "gone" /\ system[i] = "running" =>
      monitors[i].pid \in Listed /\ processes[monitors[i].pid].systemPid = i

\* How far the thread of the i-th process can have got.
Waits(i, t) ==
  /\ t.step \in {"copied", "waiting"} => t.handle \in Handles
  /\ shell # "gone" /\ system[i] = "running" =>
       /\ t.step \in {"copied", "waiting"} => t.handle = processes[t.pid].handle
       /\ t.step = "waiting" => t.waitsFor = i
  /\ t.step = "signaled" => system[i] # "running"

ThreadsWait == \A i \in DOMAIN monitors : Waits(i, monitors[i])

Inv ==
  /\ Typed /\ Starting /\ Numbered
  /\ HandlesLeadHome /\ NoHandleLost /\ KilledHasStopped /\ StoppedHasEnded
  /\ RunningIsListed /\ ThreadsWait /\ NothingRunsOn

-----------------------------------------------------------------------------

LEMMA Ranges ==
  ASSUME Inv
  PROVE  /\ DOMAIN monitors = 1 .. Len(monitors) /\ Len(monitors) \in Nat
         /\ DOMAIN system = 1 .. Len(system) /\ Len(system) \in Nat
         /\ Len(system) = Len(monitors) + (IF shell = "starting" THEN 1 ELSE 0)
         /\ DOMAIN monitors \subseteq DOMAIN system
         /\ \A i \in DOMAIN system : system[i] \in States
         /\ \A i \in DOMAIN monitors : monitors[i] \in Threads
         /\ \A p \in Listed : /\ p \in Pids /\ processes[p] \in ManagedProcess
                              /\ processes[p].systemPid \in DOMAIN monitors
<1>1. monitors \in Seq(Threads) /\ system \in Seq(States)
      /\ Len(system) = Len(monitors) + (IF shell = "starting" THEN 1 ELSE 0)
  BY DEF Inv, Typed, TypeOK, States
<1>2. \A p \in Listed : p \in Pids /\ processes[p] \in ManagedProcess
                        /\ processes[p].systemPid \in DOMAIN monitors
  BY DEF Inv, Typed, TypeOK, Numbered, Listed
<1> QED BY <1>1, <1>2

\* What still runs runs below the shell.
LEMMA RunsBelow ==
  ASSUME Inv, NEW i \in DOMAIN monitors, system[i] = "running"
  PROVE  shell # "gone"
<1>1. i \in DOMAIN system
  BY Ranges
<1> QED BY <1>1 DEF Inv, NothingRunsOn

\* Two processes have two handles.
LEMMA HandlesDiffer ==
  ASSUME Inv, shell # "gone", NEW p \in Listed, NEW q \in Listed,
         processes[p].handle = processes[q].handle, processes[p].handle # NULL
  PROVE  p = q
<1>1. processes[p].systemPid = processes[q].systemPid
  BY DEF Inv, HandlesLeadHome
<1> QED BY <1>1 DEF Inv, Numbered

\* A process that runs is in the table with an open handle.
LEMMA Alive ==
  ASSUME Inv, shell # "gone", NEW i \in DOMAIN monitors, system[i] = "running"
  PROVE  LET p == monitors[i].pid IN
         /\ p \in Listed /\ processes[p].systemPid = i /\ processes[p].isRunning
         /\ processes[p].handle \in Handles /\ refers[processes[p].handle] = i
<1> DEFINE p == monitors[i].pid
<1>1. p \in Listed /\ processes[p].systemPid = i
  BY DEF Inv, RunningIsListed
<1>2. processes[p].isRunning
  BY <1>1 DEF Inv, StoppedHasEnded
<1>3. processes[p].handle # NULL
  BY <1>1, <1>2 DEF Inv, KilledHasStopped
<1>4. processes[p].handle \in Handles
  BY <1>1, <1>3, Ranges DEF ManagedProcess
<1> QED BY <1>1, <1>2, <1>3, <1>4 DEF Inv, HandlesLeadHome

-----------------------------------------------------------------------------
(* startProcess.                                                           *)

LEMMA CreateStep == ASSUME Inv, NEW d \in Wanted, Create(d) PROVE Inv'
<1>1. CASE UNCHANGED <<system, refers, shell, created>>
  <2>1. nextPid' = nextPid + 1 /\ nextPid' \in 1 .. MaxPid + 1 /\ nextPid \in Nat
        /\ shell = "idle" /\ shell' = "idle"
    BY <1>1, ProcessesAssumption DEF Create, Pids, Inv, Typed, TypeOK
  <2>2. toStart' \in Seq(Names)
    BY DEF Create, Inv, Typed, TypeOK
  <2>3. /\ processes' = processes /\ monitors' = monitors /\ startup' = startup
        /\ system' = system /\ refers' = refers /\ created' = created
    BY <1>1 DEF Create
  <2>4. Typed'
    BY <2>1, <2>2, <2>3 DEF Inv, Typed, TypeOK
  <2>5. Numbered'
    BY <2>1, <2>3, Ranges DEF Inv, Numbered, Listed, Threads, Pids
  <2>6. Starting' /\ HandlesLeadHome' /\ NoHandleLost' /\ KilledHasStopped'
        /\ StoppedHasEnded' /\ RunningIsListed' /\ ThreadsWait' /\ NothingRunsOn'
    BY <2>1, <2>3
       DEF Inv, Starting, HandlesLeadHome, NoHandleLost, KilledHasStopped, StoppedHasEnded,
           RunningIsListed, ThreadsWait, Waits, Listed, NothingRunsOn
  <2> QED BY <2>4, <2>5, <2>6 DEF Inv
<1>2. ASSUME NEW h \in Handles, refers[h] = 0,
             /\ system' = Append(system, "running")
             /\ refers' = [refers EXCEPT ![h] = Len(system')]
             /\ created' = <<NewPid, h, d>>
             /\ shell' = "starting"
      PROVE  Inv'
  <2>1. /\ shell = "idle" /\ nextPid \in Pids /\ nextPid' = nextPid + 1
        /\ processes' = processes /\ monitors' = monitors /\ startup' = startup
        /\ toStart' \in Seq(Names)
    BY DEF Create, Inv, Typed, TypeOK
  <2>2. /\ Len(system) \in Nat /\ Len(system') = Len(system) + 1 /\ Len(system) = Len(monitors)
        /\ system' \in Seq(States) /\ DOMAIN monitors = 1 .. Len(monitors)
        /\ \A i \in DOMAIN monitors : system'[i] = system[i]
    BY <1>2, <2>1, Ranges DEF Inv, Typed, TypeOK, States
  <2>3. d \in [name : Names, onReboot : BOOLEAN]
    <3>1. toStart \in Seq(Names)
      BY DEF Inv, Typed, TypeOK
    <3>2. toStart # <<>> => Head(toStart) \in Names
      BY <3>1
    <3>3. CASE toStart = <<>>
      BY <3>3 DEF Wanted
    <3>4. CASE toStart # <<>>
      <4>1. d = [name |-> Head(toStart), onReboot |-> TRUE]
        BY <3>4 DEF Wanted
      <4> QED BY <3>2, <3>4, <4>1
    <3> QED BY <3>3, <3>4
  <2>4. /\ refers \in [Handles -> 0 .. Len(system)] /\ refers' \in [Handles -> 0 .. Len(system')]
        /\ refers'[h] = Len(system') /\ \A x \in Handles : x # h => refers'[x] = refers[x]
    BY <1>2, <2>2 DEF Inv, Typed, TypeOK
  <2>5. Typed'
    <3>1. nextPid' \in 1 .. MaxPid + 1
      BY <2>1, ProcessesAssumption DEF Pids
    <3>2. created' # <<>>
      BY <1>2
    <3>3. \A i \in DOMAIN monitors : monitors[i].waitsFor \in 0 .. Len(system')
      BY <2>2 DEF Inv, Typed, TypeOK
    <3>4. Len(system') = Len(monitors') + 1 /\ shell' = "starting"
      BY <1>2, <2>1, <2>2
    <3> QED BY <2>1, <2>2, <2>4, <3>1, <3>2, <3>3, <3>4 DEF Inv, Typed, TypeOK, States
  <2>6. Starting'
    <3>1. created' \in Pids \X Handles \X [name : Names, onReboot : BOOLEAN]
      BY <1>2, <2>1, <2>3 DEF NewPid
    <3>2. created'[1] = nextPid /\ created'[2] = h /\ nextPid = nextPid' - 1
      BY <1>2, <2>1 DEF NewPid, Pids
    <3> QED BY <2>4, <3>1, <3>2 DEF Starting
  <2>7. Numbered'
    <3>1. created'[1] = nextPid /\ nextPid \in Nat /\ nextPid < nextPid'
      BY <1>2, <2>1 DEF NewPid, Pids
    <3>2. \A i \in DOMAIN monitors : monitors[i].pid \in Nat /\ monitors[i].pid < nextPid
      BY Ranges DEF Inv, Numbered, Threads, Pids
    <3>3. \A i \in DOMAIN monitors : monitors[i].pid < nextPid'
      BY <2>1, <3>1, <3>2
    <3> QED BY <2>1, <3>1, <3>2, <3>3 DEF Inv, Numbered, Listed
  <2>8. HandlesLeadHome'
    <3> SUFFICES ASSUME NEW p \in Listed, processes[p].handle # NULL
                 PROVE  refers'[processes[p].handle] = processes[p].systemPid
      BY <2>1 DEF HandlesLeadHome, Listed
    <3>1. refers[processes[p].handle] = processes[p].systemPid
      BY <2>1 DEF Inv, HandlesLeadHome
    <3>2. processes[p].systemPid # 0 /\ processes[p].handle \in Handles
      <4>1. /\ processes[p].systemPid \in DOMAIN monitors
            /\ processes[p] \in ManagedProcess
        BY Ranges
      <4>2. processes[p].handle \in Handles \cup {NULL}
        BY <4>1 DEF ManagedProcess
      <4> QED BY <2>2, <4>1, <4>2
    <3> QED BY <1>2, <2>4, <3>1, <3>2
  <2>9. NoHandleLost'
    <3>1. created'[2] = h
      BY <1>2
    <3> QED BY <1>2, <2>1, <2>4, <3>1 DEF Inv, NoHandleLost, Listed
  <2>10. KilledHasStopped' /\ StoppedHasEnded'
    BY <2>1, <2>2, Ranges DEF Inv, KilledHasStopped, StoppedHasEnded, Listed
  <2>11. RunningIsListed' /\ ThreadsWait'
    BY <1>2, <2>1, <2>2 DEF Inv, RunningIsListed, ThreadsWait, Waits, Listed
  <2>12. NothingRunsOn'
    BY <1>2 DEF NothingRunsOn
  <2> QED BY <2>5, <2>6, <2>7, <2>8, <2>9, <2>10, <2>11, <2>12 DEF Inv
<1> QED BY <1>1, <1>2 DEF Create

LEMMA InsertStep == ASSUME Inv, Insert PROVE Inv'
<1> DEFINE p == created[1]
           h == created[2]
           n == Len(system)
           e == [systemPid |-> n, handle |-> h, isRunning |-> TRUE]
           t == Thread(p, "new")
<1>1. /\ shell = "starting" /\ shell' = "idle" /\ created' = <<>>
      /\ processes' = [processes EXCEPT ![p] = e]
      /\ monitors' = Append(monitors, t)
      /\ startup' = Saved(created[3])
      /\ nextPid' = nextPid /\ system' = system /\ refers' = refers /\ toStart' = toStart
  BY DEF Insert, StartThread
<1>2. /\ p \in Pids /\ h \in Handles /\ created[3] \in [name : Names, onReboot : BOOLEAN]
      /\ p = nextPid - 1 /\ refers[h] = n
  BY <1>1 DEF Inv, Starting
<1>3. /\ n \in Nat /\ n = Len(monitors) + 1 /\ Len(monitors) \in Nat /\ n \in DOMAIN system
      /\ DOMAIN monitors = 1 .. Len(monitors)
  <2>1. shell = "starting"
    BY <1>1
  <2>2. Len(system) = Len(monitors) + 1 /\ Len(monitors) \in Nat
        /\ DOMAIN system = 1 .. Len(system) /\ DOMAIN monitors = 1 .. Len(monitors)
    BY <2>1, Ranges
  <2> QED BY <2>2
<1>4. t \in Threads /\ t.pid = p /\ t.step = "new"
  BY <1>2 DEF Thread, Threads, Steps
<1>5. /\ monitors' \in Seq(Threads) /\ Len(monitors') = n /\ DOMAIN monitors' = 1 .. n
      /\ monitors'[n] = t
      /\ \A i \in DOMAIN monitors : i \in DOMAIN monitors' /\ i # n /\ monitors'[i] = monitors[i]
      /\ \A i \in DOMAIN monitors' : i \in DOMAIN monitors \/ i = n
  <2>1. monitors \in Seq(Threads)
    BY DEF Inv, Typed
  <2> HIDE DEF t, n
  <2> QED BY <1>1, <1>3, <1>4, <2>1
<1>6. e \in ManagedProcess /\ e # NoProcess
  <2>1. e \in ManagedProcess
    <3> HIDE DEF n, h
    <3> QED BY <1>2, <1>3 DEF ManagedProcess
  <2> QED BY <2>1, NoProcessAssumption
<1>7. processes \in [Pids -> ManagedProcess \cup {NoProcess}] /\ p \notin Listed
  <2>1. processes \in [Pids -> ManagedProcess \cup {NoProcess}]
    BY DEF Inv, Typed, TypeOK
  <2>2. ASSUME p \in Listed  PROVE FALSE
    <3>1. processes[p].systemPid \in DOMAIN monitors /\ monitors[processes[p].systemPid].pid = p
      BY <2>2 DEF Inv, Numbered
    <3>2. p < p
      BY <1>1, <3>1 DEF Inv, Numbered
    <3> QED BY <1>2, <3>2 DEF Pids
  <2> QED BY <2>1, <2>2
<1> HIDE DEF p, h, n, e, t
<1>8. /\ Listed' = Listed \cup {p} /\ processes'[p] = e
      /\ \A q \in Listed : q # p /\ processes'[q] = processes[q]
  BY <1>1, <1>2, <1>6, <1>7 DEF Listed
<1>9. e.systemPid = n /\ e.handle = h /\ e.isRunning
  BY DEF e
<1>10. Typed'
  <2>1. startup' = NoFile \/ startup' \in Seq(Names)
    <3>1. startup = NoFile \/ startup \in Seq(Names)
      BY DEF Inv, Typed, TypeOK
    <3>2. created[3].name \in Names
      BY <1>2
    <3> QED BY <1>1, <3>1, <3>2 DEF Saved, Written
  <2>2. processes' \in [Pids -> ManagedProcess \cup {NoProcess}]
    BY <1>1, <1>6, <1>7
  <2>3. \A i \in DOMAIN monitors' : /\ monitors'[i].pid \in Pids
                                    /\ monitors'[i].handle \in Handles \cup {NULL}
                                    /\ monitors'[i].waitsFor \in 0 .. Len(system)
    <3>1. monitors'[n].waitsFor = 0 /\ 0 \in 0 .. Len(system)
      BY <1>3, <1>5 DEF t, Thread, n
    <3>2. \A i \in DOMAIN monitors : monitors[i].waitsFor \in 0 .. Len(system)
      BY DEF Inv, Typed, TypeOK
    <3>3. \A i \in DOMAIN monitors' : monitors'[i].waitsFor \in 0 .. Len(system)
      BY <1>5, <3>1, <3>2
    <3>4. \A i \in DOMAIN monitors' : monitors'[i] \in Threads
      BY <1>5
    <3> QED BY <3>3, <3>4 DEF Threads
  <2>4. Len(system') = Len(monitors') + 0
    BY <1>1, <1>3, <1>5 DEF n
  <2> QED BY <1>1, <1>5, <2>1, <2>2, <2>3, <2>4 DEF Inv, Typed, TypeOK
<1>11. Starting'
  BY <1>1 DEF Starting
<1>12. Numbered'
  <2>1. \A i \in DOMAIN monitors : monitors[i].pid < nextPid /\ monitors[i].pid < p
    BY <1>1 DEF Inv, Numbered, p
  <2>2. p < nextPid /\ p \in Nat
    BY <1>2 DEF Inv, Typed, TypeOK, Pids
  <2>3. \A i \in DOMAIN monitors' : monitors'[i].pid < nextPid'
    BY <1>1, <1>4, <1>5, <2>1, <2>2
  <2>4. \A i, j \in DOMAIN monitors' : monitors'[i].pid = monitors'[j].pid => i = j
    BY <1>4, <1>5, <2>1, <2>2 DEF Inv, Numbered
  <2>5. \A q \in Listed' : /\ processes'[q].systemPid \in DOMAIN monitors'
                           /\ monitors'[processes'[q].systemPid].pid = q
    <3>1. n \in DOMAIN monitors'
      BY <1>3, <1>5
    <3> QED BY <1>4, <1>5, <1>8, <1>9, <3>1 DEF Inv, Numbered
  <2> QED BY <1>1, <2>3, <2>4, <2>5 DEF Numbered
<1>13. HandlesLeadHome'
  BY <1>1, <1>2, <1>8, <1>9 DEF Inv, HandlesLeadHome
<1>14. NoHandleLost'
  BY <1>1, <1>2, <1>8, <1>9 DEF Inv, NoHandleLost, h
<1>15. KilledHasStopped'
  BY <1>2, <1>8, <1>9, ProcessesAssumption DEF Inv, KilledHasStopped
<1>16. StoppedHasEnded'
  BY <1>1, <1>8, <1>9 DEF Inv, StoppedHasEnded
<1>17. RunningIsListed'
  <2> SUFFICES ASSUME NEW i \in DOMAIN monitors', system[i] = "running"
               PROVE  monitors'[i].pid \in Listed' /\ processes'[monitors'[i].pid].systemPid = i
    BY <1>1 DEF RunningIsListed
  <2>1. CASE i = n
    BY <1>4, <1>5, <1>8, <1>9, <2>1
  <2>2. CASE i \in DOMAIN monitors
    BY <1>1, <1>5, <1>8, <2>2 DEF Inv, RunningIsListed
  <2> QED BY <1>5, <2>1, <2>2
<1>18. ThreadsWait'
  <2> SUFFICES ASSUME NEW i \in DOMAIN monitors'  PROVE Waits(i, monitors[i])'
    BY <1>1 DEF ThreadsWait
  <2>1. CASE i = n
    BY <1>4, <1>5, <2>1 DEF Waits
  <2>2. CASE i \in DOMAIN monitors
    <3>1. system[i] = "running" => monitors[i].pid \in Listed
      BY <1>1, <2>2 DEF Inv, RunningIsListed
    <3> QED BY <1>1, <1>5, <1>8, <2>2, <3>1 DEF Inv, ThreadsWait, Waits
  <2> QED BY <1>5, <2>1, <2>2
<1>19. NothingRunsOn'
  BY <1>1 DEF NothingRunsOn
<1> QED
  BY <1>10, <1>11, <1>12, <1>13, <1>14, <1>15, <1>16, <1>17, <1>18, <1>19 DEF Inv
-----------------------------------------------------------------------------
(* monitorProcess and job list.                                            *)

\* A thread goes on, or entries of the table are marked as stopped.
LEMMA MovesOn ==
  ASSUME Inv,
         monitors' \in Seq(Threads), Len(monitors') = Len(monitors),
         \A i \in DOMAIN monitors : /\ monitors'[i].pid = monitors[i].pid
                                    /\ monitors'[i].waitsFor \in 0 .. Len(system)
                                    /\ Waits(i, monitors'[i]),
         processes' \in [Pids -> ManagedProcess \cup {NoProcess}], Listed' = Listed,
         \A p \in Listed :
           /\ processes'[p].systemPid = processes[p].systemPid
           /\ processes'[p].handle = processes[p].handle
           /\ ~ processes[p].isRunning => ~ processes'[p].isRunning
           /\ ~ processes'[p].isRunning => system[processes[p].systemPid] # "running",
         UNCHANGED <<nextPid, system, refers, startup, shell, created, toStart>>
  PROVE  Inv'
<1>1. DOMAIN monitors' = DOMAIN monitors
  <2>1. DOMAIN monitors = 1 .. Len(monitors)
    BY Ranges
  <2> QED BY <2>1
<1>2. Typed'
  <2>1. \A i \in DOMAIN monitors : monitors'[i] \in Threads
    BY <1>1
  <2> QED BY <1>1, <2>1 DEF Inv, Typed, TypeOK, Threads
<1>3. Starting' /\ Numbered'
  BY <1>1 DEF Inv, Starting, Numbered
<1>4. HandlesLeadHome' /\ NoHandleLost'
  BY DEF Inv, HandlesLeadHome, NoHandleLost
<1>5. KilledHasStopped' /\ StoppedHasEnded'
  BY DEF Inv, KilledHasStopped, StoppedHasEnded
<1>6. RunningIsListed'
  BY <1>1 DEF Inv, RunningIsListed
<1>7. ThreadsWait'
  <2> SUFFICES ASSUME NEW i \in DOMAIN monitors  PROVE Waits(i, monitors[i])'
    BY <1>1 DEF ThreadsWait
  <2>1. shell # "gone" /\ system[i] = "running" =>
          processes'[monitors[i].pid].handle = processes[monitors[i].pid].handle
    BY DEF Inv, RunningIsListed
  <2> QED BY <2>1 DEF Waits
<1>8. NothingRunsOn'
  BY DEF Inv, NothingRunsOn
<1> QED BY <1>2, <1>3, <1>4, <1>5, <1>6, <1>7, <1>8 DEF Inv

\* Only the i-th thread has moved.
LEMMA OneThreadMoves ==
  ASSUME Inv, NEW i \in DOMAIN monitors, NEW t \in Threads, t.pid = monitors[i].pid,
         t.waitsFor \in 0 .. Len(system), Waits(i, t), monitors' = [monitors EXCEPT ![i] = t]
  PROVE  /\ monitors' \in Seq(Threads) /\ Len(monitors') = Len(monitors)
         /\ \A j \in DOMAIN monitors : /\ monitors'[j].pid = monitors[j].pid
                                       /\ monitors'[j].waitsFor \in 0 .. Len(system)
                                       /\ Waits(j, monitors'[j])
<1>1. monitors \in Seq(Threads)
  BY DEF Inv, Typed
<1>2. monitors' \in Seq(Threads) /\ Len(monitors') = Len(monitors)
  BY <1>1
<1>3. \A j \in DOMAIN monitors : monitors'[j] = IF j = i THEN t ELSE monitors[j]
  BY <1>1
<1>4. \A j \in DOMAIN monitors : Waits(j, monitors[j]) /\ monitors[j].waitsFor \in 0 .. Len(system)
  BY DEF Inv, ThreadsWait, Typed, TypeOK
<1> QED BY <1>2, <1>3, <1>4

\* As MovesOn when the table stays as it is.
LEMMA TableStays ==
  ASSUME Inv, NEW i \in DOMAIN monitors, NEW t \in Threads, t.pid = monitors[i].pid,
         t.waitsFor \in 0 .. Len(system), Waits(i, t), monitors' = [monitors EXCEPT ![i] = t],
         UNCHANGED <<processes, nextPid, system, refers, startup, shell, created, toStart>>
  PROVE  Inv'
<1>1. processes' \in [Pids -> ManagedProcess \cup {NoProcess}] /\ Listed' = Listed
  BY DEF Inv, Typed, TypeOK, Listed
<1>2. \A p \in Listed : ~ processes'[p].isRunning => system[processes[p].systemPid] # "running"
  BY DEF Inv, StoppedHasEnded
<1> QED BY <1>1, <1>2, OneThreadMoves, MovesOn

LEMMA MonitorTypes ==
  ASSUME Inv, NEW i \in DOMAIN monitors
  PROVE  /\ monitors[i] \in Threads /\ monitors[i].pid \in Pids /\ Waits(i, monitors[i])
         /\ monitors[i].waitsFor \in 0 .. Len(system) /\ monitors[i].waitsFor \in Nat
         /\ monitors \in Seq(Threads) /\ i \in 1 .. Len(system) /\ Len(system) \in Nat
<1>1. monitors[i] \in Threads /\ i \in 1 .. Len(system) /\ Len(system) \in Nat
  BY Ranges
<1> QED BY <1>1 DEF Inv, Typed, TypeOK, Threads, ThreadsWait

LEMMA CopyStep == ASSUME Inv, NEW i \in DOMAIN monitors, Copy(i) PROVE Inv'
<1> DEFINE p == monitors[i].pid
<1>1. CASE p \in Listed /\ processes[p].handle # NULL
  <2> DEFINE t == [monitors[i] EXCEPT !.step = "copied", !.handle = processes[p].handle]
  <2>1. processes[p].handle \in Handles
    BY <1>1, Ranges DEF ManagedProcess
  <2>2. t \in Threads /\ t.pid = p /\ t.step = "copied" /\ t.handle = processes[p].handle
        /\ t.waitsFor \in 0 .. Len(system)
    BY <2>1, MonitorTypes DEF Threads, Steps
  <2>3. monitors' = [monitors EXCEPT ![i] = t]
    BY <1>1, MonitorTypes DEF Copy
  <2> HIDE DEF t
  <2>4. Waits(i, t)
    BY <2>1, <2>2 DEF Waits
  <2> QED BY <2>2, <2>3, <2>4, TableStays DEF Copy
<1>2. CASE ~ (p \in Listed /\ processes[p].handle # NULL)
  <2> DEFINE t == [monitors[i] EXCEPT !.step = "over"]
  <2>1. t \in Threads /\ t.pid = p /\ t.step = "over" /\ t.waitsFor \in 0 .. Len(system)
    BY MonitorTypes DEF Threads, Steps
  <2>2. monitors' = [monitors EXCEPT ![i] = t]
    BY <1>2, MonitorTypes DEF Copy
  <2> HIDE DEF t
  <2>3. Waits(i, t)
    BY <2>1 DEF Waits
  <2> QED BY <2>1, <2>2, <2>3, TableStays DEF Copy
<1> QED BY <1>1, <1>2

LEMMA BeginWaitStep == ASSUME Inv, NEW i \in DOMAIN monitors, BeginWait(i) PROVE Inv'
<1> DEFINE j == refers[monitors[i].handle]
<1>1. /\ monitors[i].step = "copied" /\ monitors[i].handle \in Handles
      /\ j \in 0 .. Len(system) /\ j \in Nat
  BY MonitorTypes DEF BeginWait, Waits, Inv, Typed, TypeOK
<1>2. system[i] = "running" => j = i /\ i # 0
                               /\ monitors[i].handle = processes[monitors[i].pid].handle
  BY <1>1, RunsBelow, Alive, MonitorTypes DEF Waits
<1>3. CASE j = 0
  <2> DEFINE t == [monitors[i] EXCEPT !.step = "signaled"]
  <2>1. t \in Threads /\ t.pid = monitors[i].pid /\ t.step = "signaled"
        /\ t.waitsFor \in 0 .. Len(system)
    BY MonitorTypes DEF Threads, Steps
  <2>2. monitors' = [monitors EXCEPT ![i] = t]
    BY <1>3, MonitorTypes DEF BeginWait
  <2> HIDE DEF t
  <2>3. Waits(i, t)
    BY <1>2, <1>3, <2>1 DEF Waits
  <2> QED BY <2>1, <2>2, <2>3, TableStays DEF BeginWait
<1>4. CASE j # 0
  <2> DEFINE t == [monitors[i] EXCEPT !.step = "waiting", !.waitsFor = j]
  <2>1. t \in Threads /\ t.pid = monitors[i].pid /\ t.step = "waiting" /\ t.waitsFor = j
        /\ t.handle = monitors[i].handle
    BY <1>1, MonitorTypes DEF Threads, Steps
  <2>2. monitors' = [monitors EXCEPT ![i] = t]
    BY <1>4, MonitorTypes DEF BeginWait
  <2> HIDE DEF t
  <2>3. Waits(i, t)
    BY <1>1, <1>2, <2>1 DEF Waits
  <2> QED BY <1>1, <2>1, <2>2, <2>3, TableStays DEF BeginWait
<1> QED BY <1>3, <1>4

LEMMA EndWaitStep == ASSUME Inv, NEW i \in DOMAIN monitors, EndWait(i) PROVE Inv'
<1>1. system[i] # "running"
  <2> SUFFICES ASSUME system[i] = "running"  PROVE FALSE
    OBVIOUS
  <2>1. shell # "gone" /\ monitors[i].step = "waiting"
    BY RunsBelow DEF EndWait
  <2>2. monitors[i].waitsFor = i /\ monitors[i].handle = processes[monitors[i].pid].handle
    BY <2>1, MonitorTypes DEF Waits
  <2>3. refers[monitors[i].handle] = i
    BY <2>1, <2>2, Alive
  <2> QED BY <2>2, <2>3 DEF EndWait
<1> DEFINE t == [monitors[i] EXCEPT !.step = "signaled"]
<1>2. t \in Threads /\ t.pid = monitors[i].pid /\ t.step = "signaled"
      /\ t.waitsFor \in 0 .. Len(system)
  BY MonitorTypes DEF Threads, Steps
<1>3. monitors' = [monitors EXCEPT ![i] = t]
  BY MonitorTypes DEF EndWait
<1> HIDE DEF t
<1>4. Waits(i, t)
  BY <1>1, <1>2 DEF Waits
<1> QED BY <1>2, <1>3, <1>4, TableStays DEF EndWait

LEMMA MarkStoppedStep == ASSUME Inv, NEW i \in DOMAIN monitors, MarkStopped(i) PROVE Inv'
<1> DEFINE p == monitors[i].pid
           t == [monitors[i] EXCEPT !.step = "over"]
<1>1. t \in Threads /\ t.pid = p /\ t.step = "over" /\ t.waitsFor \in 0 .. Len(system)
  BY MonitorTypes DEF Threads, Steps
<1>2. monitors' = [monitors EXCEPT ![i] = t] /\ p \in Pids
  BY MonitorTypes DEF MarkStopped
<1>3. system[i] # "running"
  BY MonitorTypes DEF MarkStopped, Waits
<1>4. p \in Listed => processes[p].systemPid = i
  BY DEF Inv, Numbered
<1>5. processes' = IF p \in Listed THEN [processes EXCEPT ![p].isRunning = FALSE] ELSE processes
  BY DEF MarkStopped
<1>6. UNCHANGED <<nextPid, system, refers, startup, shell, created, toStart>>
  BY DEF MarkStopped
<1>7. processes \in [Pids -> ManagedProcess \cup {NoProcess}]
      /\ \A q \in Listed : processes[q] \in ManagedProcess
  BY Ranges DEF Inv, Typed, TypeOK
<1> HIDE DEF p, t
<1>8. Waits(i, t)
  BY <1>1 DEF Waits
<1>9. ASSUME p \in Listed
      PROVE  /\ [processes[p] EXCEPT !.isRunning = FALSE] \in ManagedProcess
             /\ processes' = [processes EXCEPT ![p] = [processes[p] EXCEPT !.isRunning = FALSE]]
  BY <1>5, <1>7, <1>9 DEF ManagedProcess
<1>10. processes' \in [Pids -> ManagedProcess \cup {NoProcess}]
  BY <1>2, <1>5, <1>7, <1>9
<1>11. Listed' = Listed
  BY <1>2, <1>5, <1>7, <1>9, NoProcessAssumption DEF Listed
<1>12. \A q \in Listed :
         /\ processes'[q].systemPid = processes[q].systemPid
         /\ processes'[q].handle = processes[q].handle
         /\ ~ processes[q].isRunning => ~ processes'[q].isRunning
         /\ ~ processes'[q].isRunning => system[processes[q].systemPid] # "running"
  <2> SUFFICES ASSUME NEW q \in Listed
               PROVE  /\ processes'[q].systemPid = processes[q].systemPid
                      /\ processes'[q].handle = processes[q].handle
                      /\ ~ processes[q].isRunning => ~ processes'[q].isRunning
                      /\ ~ processes'[q].isRunning => system[processes[q].systemPid] # "running"
    OBVIOUS
  <2>1. CASE q = p
    <3>1. processes'[q] = [processes[q] EXCEPT !.isRunning = FALSE]
      BY <1>2, <1>7, <1>9, <2>1
    <3> QED BY <1>3, <1>4, <1>7, <2>1, <3>1 DEF ManagedProcess
  <2>2. CASE q # p
    <3>1. processes'[q] = processes[q]
      BY <1>5, <1>7, <2>2 DEF Listed
    <3> QED BY <3>1 DEF Inv, StoppedHasEnded
  <2> QED BY <2>1, <2>2
<1>13. /\ monitors' \in Seq(Threads) /\ Len(monitors') = Len(monitors)
       /\ \A j \in DOMAIN monitors : /\ monitors'[j].pid = monitors[j].pid
                                     /\ monitors'[j].waitsFor \in 0 .. Len(system)
                                     /\ Waits(j, monitors'[j])
  BY <1>1, <1>2, <1>8, OneThreadMoves DEF p
<1> QED BY <1>6, <1>10, <1>11, <1>12, <1>13, MovesOn
LEMMA UseDestroyedStep == ASSUME Inv, NEW i \in DOMAIN monitors, UseDestroyed(i) PROVE Inv'
<1> DEFINE t == [monitors[i] EXCEPT !.step = "astray"]
<1>1. t \in Threads /\ t.pid = monitors[i].pid /\ t.step = "astray"
      /\ t.waitsFor \in 0 .. Len(system)
  BY MonitorTypes DEF Threads, Steps
<1>2. monitors' = [monitors EXCEPT ![i] = t]
  BY MonitorTypes DEF UseDestroyed
<1> HIDE DEF t
<1>3. Waits(i, t)
  BY <1>1 DEF Waits
<1> QED BY <1>1, <1>2, <1>3, TableStays DEF UseDestroyed

\* updateProcessStatuses marks only what has ended.
LEMMA UpdatedTable ==
  ASSUME Inv, shell # "gone"
  PROVE  /\ Updated \in [Pids -> ManagedProcess \cup {NoProcess}]
         /\ {p \in Pids : Updated[p] # NoProcess} = Listed
         /\ \A p \in Listed :
              /\ Updated[p] \in ManagedProcess
              /\ Updated[p].systemPid = processes[p].systemPid
              /\ Updated[p].handle = processes[p].handle
              /\ ~ processes[p].isRunning => ~ Updated[p].isRunning
              /\ ~ Updated[p].isRunning => system[processes[p].systemPid] # "running"
<1>1. ASSUME NEW p \in Listed
      PROVE  /\ Updated[p] \in ManagedProcess
             /\ Updated[p].systemPid = processes[p].systemPid
             /\ Updated[p].handle = processes[p].handle
             /\ ~ processes[p].isRunning => ~ Updated[p].isRunning
             /\ ~ Updated[p].isRunning => system[processes[p].systemPid] # "running"
  <2>1. p \in Pids /\ processes[p] \in ManagedProcess
    BY Ranges
  <2>2. ~ processes[p].isRunning => system[processes[p].systemPid] # "running"
    BY DEF Inv, StoppedHasEnded
  <2>3. CASE Updated[p] = processes[p]
    BY <2>1, <2>2, <2>3
  <2>4. CASE /\ Updated[p] = [processes[p] EXCEPT !.isRunning = FALSE]
             /\ processes[p].handle # NULL
             /\ system[refers[processes[p].handle]] \in {"exited", "terminated"}
    <3>1. refers[processes[p].handle] = processes[p].systemPid
      BY <2>4 DEF Inv, HandlesLeadHome
    <3> QED BY <2>1, <2>4, <3>1 DEF ManagedProcess
  <2> QED BY <2>1, <2>3, <2>4 DEF Updated
<1>2. \A p \in Pids \ Listed : Updated[p] = NoProcess
  BY DEF Updated, Listed
<1>3. Listed \subseteq Pids /\ \A p \in Pids : p \in Listed \/ p \in Pids \ Listed
  BY DEF Listed
<1>4. {p \in Pids : Updated[p] # NoProcess} = Listed
  BY <1>1, <1>2, <1>3, NoProcessAssumption
<1>5. Updated = [p \in Pids |-> Updated[p]]
  BY DEF Updated
<1>6. \A p \in Pids : Updated[p] \in ManagedProcess \cup {NoProcess}
  BY <1>1, <1>2, <1>3
<1>7. Updated \in [Pids -> ManagedProcess \cup {NoProcess}]
  BY <1>5, <1>6
<1> QED BY <1>1, <1>4, <1>7

LEMMA ListStep == ASSUME Inv, List PROVE Inv'
<1>1. shell # "gone" /\ processes' = Updated /\ monitors' = monitors
      /\ UNCHANGED <<nextPid, system, refers, startup, shell, created, toStart>>
  BY DEF List, Idle
<1>2. Listed' = {p \in Pids : Updated[p] # NoProcess}
  BY <1>1 DEF Listed
<1>3. /\ monitors \in Seq(Threads)
      /\ \A i \in DOMAIN monitors : Waits(i, monitors[i])
                                    /\ monitors[i].waitsFor \in 0 .. Len(system)
  BY DEF Inv, Typed, TypeOK, ThreadsWait
<1> QED BY <1>1, <1>2, <1>3, UpdatedTable, MovesOn

-----------------------------------------------------------------------------
(* The other commands, exit, and processes that end.                       *)

LEMMA KillStep == ASSUME Inv, NEW p \in Pids, Kill(p) PROVE Inv'
<1> DEFINE h == processes[p].handle
           n == processes[p].systemPid
           e == Killed(processes[p])
<1>1. /\ shell = "idle" /\ p \in Listed /\ h # NULL
      /\ refers[h] # 0 /\ system[refers[h]] = "running"
      /\ system' = [system EXCEPT ![refers[h]] = "terminated"]
      /\ refers' = [refers EXCEPT ![h] = 0]
      /\ processes' = [processes EXCEPT ![p] = Killed(processes[p])]
      /\ UNCHANGED <<nextPid, monitors, startup, shell, created, toStart>>
  <2>1. p \in Listed
    BY DEF Kill
  <2> QED BY <2>1 DEF Kill, Idle
<1>2. /\ processes \in [Pids -> ManagedProcess \cup {NoProcess}] /\ processes[p] \in ManagedProcess
      /\ refers \in [Handles -> 0 .. Len(system)] /\ system \in Seq(States)
      /\ DOMAIN monitors \subseteq DOMAIN system /\ \A q \in Listed : processes[q] \in ManagedProcess
  BY <1>1, Ranges DEF Inv, Typed, TypeOK, States
<1>3. refers[h] = n /\ n \in DOMAIN monitors /\ monitors[n].pid = p
  BY <1>1 DEF Inv, HandlesLeadHome, Numbered
<1>4. e \in ManagedProcess /\ e.systemPid = n /\ e.handle = NULL /\ ~ e.isRunning
      /\ h \in Handles
  BY <1>1, <1>2 DEF Killed, ManagedProcess
<1>5. \A q \in Listed : q # p => processes[q].handle # h
  BY <1>1, HandlesDiffer
<1>6. processes' = [processes EXCEPT ![p] = e]
  BY <1>1
<1> HIDE DEF e, n, h
<1>7. /\ Listed' = Listed /\ processes'[p] = e
      /\ \A q \in Listed : q # p => processes'[q] = processes[q]
  BY <1>2, <1>4, <1>6, NoProcessAssumption DEF Listed
<1>8. /\ system' \in Seq(States) /\ Len(system') = Len(system) /\ DOMAIN system' = DOMAIN system
      /\ system'[n] = "terminated"
      /\ \A i \in DOMAIN system : system'[i] = "running" => i # n /\ system[i] = "running"
      /\ \A i \in DOMAIN system : system[i] # "running" => system'[i] # "running"
  <2>1. system' = [system EXCEPT ![n] = "terminated"] /\ n \in DOMAIN system
    BY <1>1, <1>2, <1>3 DEF h
  <2>2. "terminated" \in States
    BY DEF States
  <2> QED BY <1>2, <2>1, <2>2
<1>9. refers' \in [Handles -> 0 .. Len(system)] /\ refers'[h] = 0
      /\ \A x \in Handles : x # h => refers'[x] = refers[x]
  <2>1. refers' = [refers EXCEPT ![h] = 0] /\ 0 \in 0 .. Len(system)
    BY <1>1, Ranges DEF h
  <2> QED BY <1>2, <1>4, <2>1
<1>10. Typed'
  <2>1. processes' \in [Pids -> ManagedProcess \cup {NoProcess}]
    BY <1>2, <1>4, <1>6
  <2> QED BY <1>1, <1>8, <1>9, <2>1 DEF Inv, Typed, TypeOK, States
<1>11. Starting' /\ Numbered'
  BY <1>1, <1>4, <1>7 DEF Inv, Starting, Numbered, n
<1>12. HandlesLeadHome'
  <2> SUFFICES ASSUME NEW q \in Listed, processes'[q].handle # NULL
               PROVE  refers'[processes'[q].handle] = processes'[q].systemPid
    BY <1>7 DEF HandlesLeadHome
  <2>1. q # p /\ processes'[q] = processes[q]
    BY <1>4, <1>7
  <2>2. processes[q].handle \in Handles /\ processes[q].handle # h
    BY <1>2, <1>5, <2>1 DEF ManagedProcess
  <2> QED BY <1>1, <1>9, <2>1, <2>2 DEF Inv, HandlesLeadHome
<1>13. NoHandleLost'
  <2> SUFFICES ASSUME NEW x \in Handles, refers'[x] # 0
               PROVE  \E q \in Listed : processes'[q].handle = x
    BY <1>1, <1>7 DEF NoHandleLost
  <2>1. x # h /\ refers[x] # 0
    BY <1>9
  <2>2. PICK q \in Listed : processes[q].handle = x
    BY <1>1, <2>1 DEF Inv, NoHandleLost
  <2> QED BY <1>7, <2>1, <2>2 DEF h
<1>14. KilledHasStopped'
  BY <1>4, <1>7 DEF Inv, KilledHasStopped
<1>15. StoppedHasEnded'
  <2> SUFFICES ASSUME NEW q \in Listed, ~ processes'[q].isRunning
               PROVE  system'[processes'[q].systemPid] # "running"
    BY <1>7 DEF StoppedHasEnded
  <2>1. CASE q = p
    BY <1>4, <1>7, <1>8, <2>1
  <2>2. CASE q # p
    <3>1. processes[q].systemPid \in DOMAIN system
      BY <1>2, Ranges
    <3> QED BY <1>7, <1>8, <2>2, <3>1 DEF Inv, StoppedHasEnded
  <2> QED BY <2>1, <2>2
<1>16. RunningIsListed'
  <2> SUFFICES ASSUME NEW i \in DOMAIN monitors, system'[i] = "running"
               PROVE  monitors[i].pid \in Listed /\ processes'[monitors[i].pid].systemPid = i
    BY <1>1, <1>7 DEF RunningIsListed
  <2>1. system[i] = "running" /\ i # n
    BY <1>2, <1>8
  <2>2. monitors[i].pid \in Listed /\ processes[monitors[i].pid].systemPid = i
    BY <1>1, <2>1 DEF Inv, RunningIsListed
  <2> QED BY <1>7, <2>1, <2>2 DEF n
<1>17. ThreadsWait'
  <2> SUFFICES ASSUME NEW i \in DOMAIN monitors  PROVE Waits(i, monitors[i])'
    BY <1>1 DEF ThreadsWait
  <2>1. Waits(i, monitors[i])
    BY DEF Inv, ThreadsWait
  <2>2. system'[i] = "running" => /\ system[i] = "running"
                                  /\ processes'[monitors[i].pid] = processes[monitors[i].pid]
    <3>1. ASSUME system'[i] = "running"
          PROVE  system[i] = "running" /\ i # n /\ monitors[i].pid \in Listed
      BY <1>1, <1>2, <1>8, <3>1 DEF Inv, RunningIsListed
    <3>2. ASSUME system'[i] = "running"  PROVE monitors[i].pid # p
      BY <1>1, <1>3, <3>1, <3>2 DEF Inv, Numbered
    <3> QED BY <1>7, <3>1, <3>2
  <2>3. system[i] # "running" => system'[i] # "running"
    BY <1>2, <1>8
  <2> QED BY <1>1, <2>1, <2>2, <2>3 DEF Waits
<1>18. NothingRunsOn'
  BY DEF Kill, Idle, NothingRunsOn
<1> QED BY <1>10, <1>11, <1>12, <1>13, <1>14, <1>15, <1>16, <1>17, <1>18 DEF Inv

LEMMA CleanupStep == ASSUME Inv, Cleanup PROVE Inv'
<1> DEFINE closed == {processes[p].handle : p \in Stopped}
<1>1. /\ shell = "idle"
      /\ refers' = [h \in Handles |-> IF h \in closed THEN 0 ELSE refers[h]]
      /\ processes' = [p \in Pids |-> IF p \in Stopped THEN NoProcess ELSE Updated[p]]
      /\ UNCHANGED <<nextPid, system, monitors, startup, shell, created, toStart>>
  BY DEF Cleanup, CloseHandles, Idle
<1>2. /\ Updated \in [Pids -> ManagedProcess \cup {NoProcess}]
      /\ {p \in Pids : Updated[p] # NoProcess} = Listed
      /\ \A p \in Listed :
           /\ Updated[p] \in ManagedProcess
           /\ Updated[p].systemPid = processes[p].systemPid
           /\ Updated[p].handle = processes[p].handle
           /\ ~ processes[p].isRunning => ~ Updated[p].isRunning
           /\ ~ Updated[p].isRunning => system[processes[p].systemPid] # "running"
  BY <1>1, UpdatedTable
<1>3. /\ Stopped = {p \in Listed : ~ Updated[p].isRunning} /\ Listed \subseteq Pids
      /\ Stopped \subseteq Listed
  BY <1>2 DEF Stopped, Listed
<1>4. /\ Listed' = Listed \ Stopped
      /\ \A p \in Listed' : processes'[p] = Updated[p] /\ Updated[p].isRunning
  BY <1>1, <1>2, <1>3 DEF Listed
<1>5. \A p \in Listed' : processes[p].handle \notin closed
  <2> SUFFICES ASSUME NEW p \in Listed', NEW q \in Stopped,
                      processes[p].handle = processes[q].handle
               PROVE  FALSE
    OBVIOUS
  <2>1. p \in Listed /\ q \in Listed /\ p # q /\ processes[p].isRunning
    BY <1>2, <1>3, <1>4
  <2>2. processes[p].handle # NULL
    BY <2>1 DEF Inv, KilledHasStopped
  <2> QED BY <1>1, <2>1, <2>2, HandlesDiffer
<1> HIDE DEF closed
<1>6. Typed'
  <2>1. processes' \in [Pids -> ManagedProcess \cup {NoProcess}]
    BY <1>1, <1>2
  <2>2. refers' \in [Handles -> 0 .. Len(system)]
    <3>1. refers \in [Handles -> 0 .. Len(system)] /\ 0 \in 0 .. Len(system)
      BY Ranges DEF Inv, Typed, TypeOK
    <3> QED BY <1>1, <3>1
  <2> QED BY <1>1, <2>1, <2>2 DEF Inv, Typed, TypeOK
<1>7. Starting' /\ Numbered'
  BY <1>1, <1>2, <1>4 DEF Inv, Starting, Numbered
<1>8. HandlesLeadHome'
  <2> SUFFICES ASSUME NEW p \in Listed', processes'[p].handle # NULL
               PROVE  refers'[processes'[p].handle] = processes'[p].systemPid
    BY DEF HandlesLeadHome
  <2>1. p \in Listed /\ processes'[p].handle = processes[p].handle
        /\ processes'[p].systemPid = processes[p].systemPid
    BY <1>2, <1>4
  <2>2. processes[p].handle \in Handles
    BY <2>1, Ranges DEF ManagedProcess
  <2> QED BY <1>1, <1>5, <2>1, <2>2 DEF Inv, HandlesLeadHome
<1>9. NoHandleLost'
  <2> SUFFICES ASSUME NEW h \in Handles, refers'[h] # 0
               PROVE  \E p \in Listed' : processes'[p].handle = h
    BY DEF NoHandleLost
  <2>1. h \notin closed /\ refers[h] # 0
    BY <1>1
  <2>2. PICK p \in Listed : processes[p].handle = h
    BY <1>1, <2>1 DEF Inv, NoHandleLost
  <2>3. p \notin Stopped
    BY <2>1, <2>2 DEF closed
  <2> QED BY <1>2, <1>4, <2>2, <2>3
<1>10. KilledHasStopped' /\ StoppedHasEnded'
  <2>1. \A p \in Listed' : processes'[p].isRunning /\ processes'[p].handle # NULL
    BY <1>2, <1>4 DEF Inv, KilledHasStopped
  <2> QED BY <2>1 DEF KilledHasStopped, StoppedHasEnded
<1>11. \A i \in DOMAIN monitors :
         system[i] = "running" =>
           /\ monitors[i].pid \in Listed'
           /\ processes'[monitors[i].pid].systemPid = i
           /\ processes'[monitors[i].pid].handle = processes[monitors[i].pid].handle
  <2> SUFFICES ASSUME NEW i \in DOMAIN monitors, system[i] = "running"
               PROVE  /\ monitors[i].pid \in Listed'
                      /\ processes'[monitors[i].pid].systemPid = i
                      /\ processes'[monitors[i].pid].handle = processes[monitors[i].pid].handle
    OBVIOUS
  <2>1. monitors[i].pid \in Listed /\ processes[monitors[i].pid].systemPid = i
    BY <1>1 DEF Inv, RunningIsListed
  <2>2. monitors[i].pid \notin Stopped
    BY <1>2, <1>3, <2>1
  <2> QED BY <1>2, <1>4, <2>1, <2>2
<1>12. RunningIsListed'
  BY <1>1, <1>11 DEF RunningIsListed
<1>13. ThreadsWait'
  <2> SUFFICES ASSUME NEW i \in DOMAIN monitors  PROVE Waits(i, monitors[i])'
    BY <1>1 DEF ThreadsWait
  <2>1. Waits(i, monitors[i])
    BY DEF Inv, ThreadsWait
  <2> QED BY <1>1, <1>11, <2>1 DEF Waits
<1>14. NothingRunsOn'
  BY DEF Cleanup, Idle, NothingRunsOn
<1> QED BY <1>6, <1>7, <1>8, <1>9, <1>10, <1>12, <1>13, <1>14 DEF Inv

LEMMA StartupStep == ASSUME Inv, CreateStartupFile \/ Mount PROVE Inv'
<1>1. /\ UNCHANGED <<processes, nextPid, system, refers, monitors, shell, created>>
      /\ shell = "idle"
      /\ startup' = NoFile \/ startup' \in Seq(Names)
      /\ toStart' \in Seq(Names)
  <2>1. <<>> \in Seq(Names)
    OBVIOUS
  <2>2. startup = NoFile \/ startup \in Seq(Names)
    BY DEF Inv, Typed, TypeOK
  <2>3. toStart \in Seq(Names)
    BY DEF Inv, Typed, TypeOK
  <2> QED BY <2>1, <2>2, <2>3 DEF CreateStartupFile, Mount, Idle
<1>2. Typed'
  BY <1>1 DEF Inv, Typed, TypeOK
<1> QED
  BY <1>1, <1>2
     DEF Inv, Starting, Numbered, HandlesLeadHome, NoHandleLost, KilledHasStopped,
         StoppedHasEnded, RunningIsListed, ThreadsWait, Waits, Listed, NothingRunsOn

\* Processes end, and the shell may have exited.
LEMMA EndsStep ==
  ASSUME Inv,
         system' \in Seq(States), Len(system') = Len(system),
         \A i \in DOMAIN system : system'[i] = "running" => system[i] = "running",
         UNCHANGED <<processes, nextPid, monitors, startup, created, toStart>>,
         \/ shell' = shell /\ refers' = refers
         \/ /\ shell = "idle" /\ shell' = "gone"
            /\ \A i \in DOMAIN system' : system'[i] # "running"
            /\ \E H : refers' = [h \in Handles |-> IF h \in H THEN 0 ELSE refers[h]]
  PROVE  Inv'
<1>1. Typed'
  <2>1. refers' \in [Handles -> 0 .. Len(system')]
    <3>1. refers \in [Handles -> 0 .. Len(system)] /\ Len(system) \in Nat
      BY Ranges DEF Inv, Typed, TypeOK
    <3> QED BY <3>1
  <2>2. shell' = "starting" <=> shell = "starting"
    OBVIOUS
  <2> QED BY <2>1, <2>2 DEF Inv, Typed, TypeOK, States
<1>2. Starting' /\ Numbered'
  BY DEF Inv, Starting, Numbered, Listed
<1>3. HandlesLeadHome' /\ NoHandleLost'
  BY DEF Inv, HandlesLeadHome, NoHandleLost, Listed
<1>4. \A i \in DOMAIN monitors : system'[i] = "running" => system[i] = "running"
  BY Ranges
<1>5. KilledHasStopped' /\ StoppedHasEnded'
  BY <1>4, Ranges DEF Inv, KilledHasStopped, StoppedHasEnded, Listed
<1>6. RunningIsListed' /\ ThreadsWait'
  BY <1>4 DEF Inv, RunningIsListed, ThreadsWait, Waits, Listed, NothingRunsOn
<1>7. NothingRunsOn'
  BY Ranges DEF Inv, NothingRunsOn
<1> QED BY <1>1, <1>2, <1>3, <1>5, <1>6, <1>7 DEF Inv

LEMMA ExitStep == ASSUME Inv, Exit PROVE Inv'
<1>1. system \in Seq(States) /\ "terminated" \in States
  BY DEF Inv, Typed, TypeOK, States
<1>2. /\ DOMAIN system' = DOMAIN system
      /\ \A i \in DOMAIN system : system'[i] = system[i] \/ system'[i] = "terminated"
  BY DEF Exit
<1>3. system' = [i \in 1 .. Len(system) |-> system'[i]]
  BY <1>1 DEF Exit
<1>4. system' \in Seq(States) /\ Len(system') = Len(system)
  <2>1. \A i \in 1 .. Len(system) : system'[i] \in States
    BY <1>1, <1>2
  <2> QED BY <1>1, <1>3, <2>1
<1>5. \A i \in DOMAIN system' : system'[i] # "running"
  <2> SUFFICES ASSUME NEW i \in DOMAIN system, system[i] = "running"
               PROVE  \E p \in Ending : refers[processes[p].handle] = i
    BY <1>2 DEF Exit
  <2>1. i \in DOMAIN monitors /\ shell # "gone"
    BY Ranges DEF Exit, Idle
  <2>2. monitors[i].pid \in Ending /\ refers[processes[monitors[i].pid].handle] = i
    <3>1. NULL \notin Handles
      BY ProcessesAssumption
    <3> QED BY <2>1, <3>1, Alive DEF Ending
  <2> QED BY <2>2
<1>6. \E H : refers' = [h \in Handles |-> IF h \in H THEN 0 ELSE refers[h]]
  BY DEF Exit, CloseHandles
<1>7. shell = "idle" /\ shell' = "gone"
      /\ UNCHANGED <<processes, nextPid, monitors, startup, created, toStart>>
  BY DEF Exit, Idle
<1>8. \A i \in DOMAIN system : system'[i] = "running" => system[i] = "running"
  BY <1>2
<1> QED BY <1>4, <1>5, <1>6, <1>7, <1>8, EndsStep

LEMMA EndStep == ASSUME Inv, NEW i \in DOMAIN system, End(i) PROVE Inv'
<1>1. system \in Seq(States) /\ "exited" \in States /\ "exited259" \in States
  BY DEF Inv, Typed, TypeOK, States
<1>2. PICK s \in {"exited", "exited259"} : system' = [system EXCEPT ![i] = s]
  BY DEF End
<1>3. system' \in Seq(States) /\ Len(system') = Len(system)
      /\ \A j \in DOMAIN system : system'[j] = "running" => system[j] = "running"
  BY <1>1, <1>2
<1> QED BY <1>3, EndsStep DEF End

-----------------------------------------------------------------------------

LEMMA InvStep == Inv /\ [Next]_vars => Inv'
<1> SUFFICES ASSUME Inv, [Next]_vars  PROVE Inv'
  OBVIOUS
<1>1. CASE UNCHANGED vars
  BY <1>1
     DEF vars, Inv, Typed, TypeOK, Starting, Numbered, HandlesLeadHome, NoHandleLost,
         KilledHasStopped, StoppedHasEnded, RunningIsListed, ThreadsWait, Waits, Listed, NothingRunsOn
<1> QED
  BY <1>1, CreateStep, InsertStep, CopyStep, BeginWaitStep, EndWaitStep, MarkStoppedStep, UseDestroyedStep,
     KillStep, ListStep, CleanupStep, StartupStep, ExitStep, EndStep
     DEF Next, Monitor

LEMMA InvInit == Init => Inv
<1> SUFFICES ASSUME Init  PROVE Inv
  OBVIOUS
<1>1. <<>> \in Seq(Threads) /\ <<>> \in Seq(States) /\ <<>> \in Seq(Names) /\ Len(<<>>) = 0
      /\ DOMAIN monitors = {}
  BY DEF Init
<1>2. Listed = {}
  BY DEF Init, Listed
<1>3. Typed
  BY <1>1, ProcessesAssumption DEF Init, Typed, TypeOK, States
<1> QED
  BY <1>1, <1>2, <1>3
     DEF Init, Inv, Starting, Numbered, HandlesLeadHome, NoHandleLost, KilledHasStopped,
         StoppedHasEnded, RunningIsListed, ThreadsWait, NothingRunsOn

LEMMA Invariant == Spec => []Inv
  BY InvInit, InvStep, PTL DEF Spec

\* The scheduler's state has the form the code gives it.
THEOREM SchedulerTypes == Spec => []TypeOK
<1>1. Inv => TypeOK
  BY DEF Inv, Typed
<1> QED BY <1>1, Invariant, PTL

\* monitorProcess, killProcess and updateProcessStatuses mark no process that runs.
THEOREM OnlyEndedAreStopped == Spec => []StoppedHasEnded
<1>1. Inv => StoppedHasEnded
  BY DEF Inv
<1> QED BY <1>1, Invariant, PTL

\* killProcess and cleanupProcesses close and terminate only what the table has opened.
THEOREM TableHandlesAreOwn == Spec => []HandlesLeadHome
<1>1. Inv => HandlesLeadHome
  BY DEF Inv
<1> QED BY <1>1, Invariant, PTL

\* startProcess, killProcess and cleanupProcesses leave no handle open that nobody has.
THEOREM HandlesAreKept == Spec => []NoHandleLost
<1>1. Inv => NoHandleLost
  BY DEF Inv
<1> QED BY <1>1, Invariant, PTL
\* ~ProcessScheduler terminates whatever runs: it misses no process it has started.
THEOREM ExitEndsAll == Spec => []NothingRunsOn
<1>1. Inv => NothingRunsOn
  BY DEF Inv
<1> QED BY <1>1, Invariant, PTL
=============================================================================
