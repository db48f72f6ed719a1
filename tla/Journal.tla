------------------------------ MODULE Journal ------------------------------
(***************************************************************************)
(* The journal of LevelFS (journal.hpp): a ring of entries on the volume,  *)
(* written through the sector cache, so that a crash leaves on the medium  *)
(* whatever mix of old and new sectors had been written back.  The shell   *)
(* logs an operation before a file's clusters are written and commits it   *)
(* after; every mount starts at the head of the ring again and replays it. *)
(*                                                                         *)
(* An entry's checksum is whether it matches the entry.  Only OP_WRITE is  *)
(* ever logged, so an entry has no operation type.                         *)
(***************************************************************************)
EXTENDS Integers, FiniteSets

CONSTANTS JournalSectors,     \* journalSectors
          EntriesPerSector,   \* SECTOR_SIZE / sizeof(JournalEntry)
          MaxTx               \* bound: the transactions that are logged

ASSUME JournalAssumption ==
  /\ JournalSectors \in Nat \ {0}
  /\ EntriesPerSector \in Nat \ {0}
  /\ MaxTx \in Nat

Ring == JournalSectors * EntriesPerSector
Slots == 0 .. Ring - 1
SectorOf(s) == s \div EntriesPerSector

J_PENDING == "pending"
J_COMMITTED == "committed"
Entries == [txId : Nat, status : {J_PENDING, J_COMMITTED}, valid : BOOLEAN]
Entry(tx, status) == [txId |-> tx, status |-> status, valid |-> TRUE]
NoEntry == [txId |-> 0, status |-> J_PENDING, valid |-> FALSE]

VARIABLES mounted,
          journal,      \* the ring as read through the cache
          lastTxId,     \* the superblock's lastTxId, in memory and in the cache
          medium,       \* [journal, lastTxId]: what is on the device
          currentTxId,  \* currentTxId
          journalHead,  \* journalHead
          open,         \* the transaction an operation has logged and not finished, or 0
          fresh         \* the slots written since the mount (ghost)

vars == <<mounted, journal, lastTxId, medium, currentTxId, journalHead, open, fresh>>

\* performFormat.
Init ==
  /\ mounted = FALSE
  /\ journal = [s \in Slots |-> NoEntry]
  /\ lastTxId = 0
  /\ medium = [journal |-> [s \in Slots |-> NoEntry], lastTxId |-> 0]
  /\ currentTxId = 0
  /\ journalHead = 0
  /\ open = 0
  /\ fresh = {}

-----------------------------------------------------------------------------

\* Mutant: a mount leaves the entries as they are.
ReplayNothing(e) == e

\* replayJournal, for one entry: the status changes, the checksum stays.
Replay(e) ==
  IF e.txId # 0 /\ e.valid /\ e.status = J_PENDING
  THEN [e EXCEPT !.status = J_COMMITTED, !.valid = FALSE]
  ELSE e

\* Mutant: the constructor does not take over lastTxId.
FirstTxAfresh == 0

\* Mutant: entries of earlier mounts are kept while there is room.
FirstHeadFree ==
  LET empty == {s \in Slots : journal[s].txId = 0} IN
  IF empty = {} THEN 0 ELSE CHOOSE s \in empty : \A t \in empty : s <= t

\* The constructor's currentTxId and journalHead.
FirstTx == lastTxId
FirstHead == 0

\* mount: the previous volume is closed, then the journal built and replayed.
Mount ==
  /\ open = 0
  /\ mounted' = TRUE
  /\ medium' = IF mounted THEN [journal |-> journal, lastTxId |-> lastTxId] ELSE medium
  /\ currentTxId' = FirstTx
  /\ journalHead' = FirstHead
  /\ journal' = [s \in Slots |-> Replay(journal[s])]
  /\ fresh' = {}
  /\ UNCHANGED <<lastTxId, open>>

\* Mutant: the ring is not closed.
HeadUnbounded(h) == h + 1

NextHead(h) == (h + 1) % Ring

logOperation ==
  /\ mounted /\ open = 0
  /\ currentTxId < MaxTx
  /\ currentTxId' = currentTxId + 1
  /\ journal' = [journal EXCEPT ![journalHead] = Entry(currentTxId', J_PENDING)]
  /\ journalHead' = NextHead(journalHead)
  /\ open' = currentTxId'
  /\ fresh' = fresh \cup {journalHead}
  /\ UNCHANGED <<mounted, lastTxId, medium>>

Matching(tx) == {s \in Slots : journal[s].txId = tx}

\* The first entry of the ring that has the transaction's number is committed.
commitOperation ==
  /\ open # 0
  /\ IF Matching(open) = {} THEN UNCHANGED <<journal, lastTxId>>
     ELSE LET s == CHOOSE t \in Matching(open) : \A u \in Matching(open) : t <= u IN
          /\ journal' = [journal EXCEPT ![s] = Entry(open, J_COMMITTED)]
          /\ lastTxId' = open
  /\ open' = 0
  /\ UNCHANGED <<mounted, medium, currentTxId, journalHead, fresh>>

\* "Disk full": the operation returns without committing.
GiveUp ==
  /\ open # 0
  /\ open' = 0
  /\ UNCHANGED <<mounted, journal, lastTxId, medium, currentTxId, journalHead, fresh>>

-----------------------------------------------------------------------------
(* The cache below, which may write back any sector at any time.           *)

WriteBack(i) ==
  /\ mounted
  /\ medium' = [medium EXCEPT !.journal =
                  [s \in Slots |-> IF SectorOf(s) = i THEN journal[s] ELSE @[s]]]
  /\ UNCHANGED <<mounted, journal, lastTxId, currentTxId, journalHead, open, fresh>>

WriteBackSuperBlock ==
  /\ mounted
  /\ medium' = [medium EXCEPT !.lastTxId = lastTxId]
  /\ UNCHANGED <<mounted, journal, lastTxId, currentTxId, journalHead, open, fresh>>

\* The process ends and its memory is gone: with the cache flushed, or not.
Forget ==
  /\ mounted' = FALSE
  /\ currentTxId' = 0
  /\ journalHead' = 0
  /\ open' = 0
  /\ fresh' = {}

Exit ==
  /\ mounted /\ open = 0
  /\ medium' = [journal |-> journal, lastTxId |-> lastTxId]
  /\ Forget
  /\ UNCHANGED <<journal, lastTxId>>

Crash ==
  /\ mounted
  /\ journal' = medium.journal
  /\ lastTxId' = medium.lastTxId
  /\ Forget
  /\ UNCHANGED medium

Next ==
  \/ Mount \/ logOperation \/ commitOperation \/ GiveUp
  \/ \E i \in 0 .. JournalSectors - 1 : WriteBack(i)
  \/ WriteBackSuperBlock \/ Exit \/ Crash

Spec == Init /\ [][Next]_vars

-----------------------------------------------------------------------------
(* Correctness.                                                            *)

\* Every variable has its type; journalHead, which is only ever moved by logOperation,
\* stays in the ring.
TypeOK ==
  /\ mounted \in BOOLEAN
  /\ journal \in [Slots -> Entries]
  /\ medium \in [journal : [Slots -> Entries], lastTxId : Nat]
  /\ lastTxId \in Nat /\ currentTxId \in Nat /\ open \in Nat
  /\ journalHead \in Slots
  /\ fresh \subseteq Slots

\* commitOperation looks an entry up by its number, and a crash makes numbers be
\* given out again while entries of earlier mounts are still in the ring: the first
\* match is always the entry the operation has logged itself, the one just behind
\* the head.
CommitFindsOwnEntry ==
  open # 0 => \E s \in Matching(open) :
                /\ NextHead(s) = journalHead
                /\ journal[s].status = J_PENDING
                /\ \A t \in Matching(open) : s <= t

\* While the volume is mounted, a valid pending entry is one logged since the mount:
\* replay has settled what earlier runs left, whichever of their sectors got to the
\* medium.
PendingIsRecent ==
  mounted => \A s \in Slots : journal[s].valid /\ journal[s].status = J_PENDING => s \in fresh

\* commitOperation writes the ring and then the superblock, and either sector may reach
\* the medium first.  A number that the superblock on the medium has reached is never
\* given to another operation, in this run or after any crash: a new number is above
\* it, and it never goes back.  A number that is committed in the ring alone is given
\* again, and then it is CommitFindsOwnEntry that keeps the two entries apart.
CommitsStay ==
  [][ /\ medium'.lastTxId >= medium.lastTxId
      /\ open' \notin {0, open} => open' > medium.lastTxId ]_vars
=============================================================================
