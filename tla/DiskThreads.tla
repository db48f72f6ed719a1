---------------------------- MODULE DiskThreads ----------------------------
(***************************************************************************)
(* The sector cache under fsck, whose workers read the volume in parallel  *)
(* through the one DiskDevice while the shell waits for them.  The cache   *)
(* is locked for get and for put, the device is not: between a worker's    *)
(* SetFilePointerEx and its ReadFile another one may move the pointer, and *)
(* so it may while put writes back what it evicts.                         *)
(*                                                                         *)
(* Sectors are numbers here, since reading moves the pointer to the next.  *)
(***************************************************************************)
EXTENDS SectorCache

CONSTANTS Workers, NoData

VARIABLES position,   \* the file pointer of hDevice
          step,       \* what a worker does next
          sector,     \* the sector it reads
          buffer      \* what it has read

threadVars == <<position, step, sector, buffer>>

ThreadsInit ==
  /\ Init
  /\ position = 0
  /\ step = [w \in Workers |-> "idle"]
  /\ sector = [w \in Workers |-> 0]
  /\ buffer = [w \in Workers |-> NoData]

\* put holds the cache's mutex while it writes an evicted sector back.
Locked == \E w \in Workers : step[w] = "write"

Goto(w, s) == step' = [step EXCEPT ![w] = s]

Get(w, s) ==
  /\ step[w] = "idle" /\ volume # Closed /\ ~ Locked
  /\ \/ ReadHit(s) /\ UNCHANGED threadVars
     \/ /\ s \notin Cached
        /\ Goto(w, "seek") /\ sector' = [sector EXCEPT ![w] = s]
        /\ UNCHANGED <<vars, position, buffer>>

Seek(w) ==
  /\ step[w] = "seek" /\ Goto(w, "read")
  /\ position' = sector[w]
  /\ UNCHANGED <<vars, sector, buffer>>

\* A read past the last sector fails.
Read(w) ==
  /\ step[w] = "read"
  /\ IF position \in Sectors
     THEN /\ Goto(w, "put")
          /\ buffer' = [buffer EXCEPT ![w] = device[volume][position]]
          /\ position' = position + 1
     ELSE Goto(w, "idle") /\ UNCHANGED <<position, buffer>>
  /\ UNCHANGED <<vars, sector>>

DirtyVictims(w) == Victims(sector[w]) \cap dirty

PutRead(w) ==
  /\ step[w] = "put" /\ ~ Locked
  /\ IF DirtyVictims(w) = {}
     THEN /\ Put(sector[w], buffer[w], FALSE, Sectors)
          /\ out' = Result(sector[w], buffer[w])
          /\ Goto(w, "idle")
          /\ UNCHANGED <<enabled, maxEntries, volume, position>>
     ELSE /\ Goto(w, "write")
          /\ \E s \in DirtyVictims(w) : position' = s
          /\ UNCHANGED vars
  /\ UNCHANGED <<sector, buffer>>

\* The write-back goes where the pointer is by now, and put goes on as ever.
WriteVictim(w) ==
  LET gone == Victims(sector[w]) IN
  /\ step[w] = "write" /\ Goto(w, "idle")
  /\ \E s \in gone :
       device' = IF position \in Sectors
                 THEN [device EXCEPT ![volume][position] = cacheData[s]] ELSE device
  /\ position' = position + 1
  /\ cacheData' = [s \in Sectors |-> IF s = sector[w] THEN buffer[w]
                                     ELSE IF s \in gone THEN Absent ELSE cacheData[s]]
  /\ newer' = ToFront(Without(newer, gone), Cached \ gone, sector[w])
  /\ dirty' = dirty \ gone
  /\ out' = Result(sector[w], buffer[w])
  /\ UNCHANGED <<enabled, maxEntries, volume, sector, buffer>>

\* The shell's next command waits until fsck's workers are done.
ThreadsNext ==
  \/ (\A w \in Workers : step[w] = "idle") /\ Next /\ UNCHANGED threadVars
  \/ \E w \in Workers :
       \/ \E s \in Sectors : Get(w, s)
       \/ Seek(w) \/ Read(w) \/ PutRead(w) \/ WriteVictim(w)

ThreadsSpec == ThreadsInit /\ [][ThreadsNext]_<<vars, threadVars>>

\* README, "Multi-threaded I/O: Thread pool for parallel file operations": whatever the
\* workers do in parallel, a cached sector that is not dirty is what the volume holds.
ParallelReadsAreClean == CleanMatchesDevice
=============================================================================
