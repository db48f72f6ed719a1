--------------------------- MODULE JournalProofs ---------------------------
(***************************************************************************)
(* The journal's properties, for every ring and any number of transactions,*)
(* mounts and crashes.  The inductive invariant says what the slots written*)
(* since the mount hold: they are the slots below the head, or all of them *)
(* once the head has gone round, and their transactions differ.            *)
(***************************************************************************)
EXTENDS Journal, TLAPS

LEMMA RingSize == Ring \in Nat \ {0}
  BY JournalAssumption DEF Ring

\* The head moves on by one, and from the last slot to the first.
LEMMA HeadMoves ==
  ASSUME NEW h \in Slots
  PROVE  NextHead(h) = IF h + 1 = Ring THEN 0 ELSE h + 1
<1>1. h \in 0 .. Ring - 1 /\ Ring \in Nat \ {0}
  BY RingSize DEF Slots
<1> HIDE DEF Ring
<1>2. CASE h + 1 = Ring
  BY <1>1, <1>2, Ring % Ring = 0 DEF NextHead
<1>3. CASE h + 1 # Ring
  <2>1. h + 1 \in 0 .. Ring - 1
    BY <1>1, <1>3
  <2> QED BY <1>1, <1>3, <2>1 DEF NextHead
<1> QED BY <1>2, <1>3

-----------------------------------------------------------------------------

\* The slots written since the mount.
Window == fresh = {s \in Slots : s < journalHead} \/ fresh = Slots

\* Their transactions are this run's and differ.
FreshDiffer ==
  /\ \A s \in fresh : journal[s].txId <= currentTxId
  /\ \A s, t \in fresh : journal[s].txId = journal[t].txId => s = t

Counters ==
  /\ medium.lastTxId <= lastTxId
  /\ mounted => lastTxId <= currentTxId

\* The operation in progress has logged its entry last.
OpenIsLast ==
  open # 0 =>
    /\ mounted /\ open = currentTxId
    /\ \E s \in fresh : /\ NextHead(s) = journalHead
                        /\ journal[s].txId = open
                        /\ journal[s].status = J_PENDING

\* A valid entry is not an empty one.
ValidIsLogged(ring) == \A s \in Slots : ring[s].valid => ring[s].txId # 0

Inv ==
  /\ TypeOK /\ ValidIsLogged(journal) /\ ValidIsLogged(medium.journal)
  /\ Window /\ FreshDiffer /\ Counters /\ OpenIsLast /\ PendingIsRecent

-----------------------------------------------------------------------------

LEMMA OwnEntryFound == Inv => CommitFindsOwnEntry
<1> SUFFICES ASSUME Inv, open # 0  PROVE CommitFindsOwnEntry
  BY DEF CommitFindsOwnEntry
<1>1. PICK s \in fresh : /\ NextHead(s) = journalHead
                         /\ journal[s].txId = open
                         /\ journal[s].status = J_PENDING
  BY DEF Inv, OpenIsLast
<1>2. s \in Slots
  BY DEF Inv, TypeOK
<1>3. ASSUME NEW t \in Slots, journal[t].txId = open, ~(s <= t)  PROVE FALSE
  <2>1. t < s /\ s \in Nat /\ t \in Nat
    BY <1>2, <1>3, RingSize DEF Slots
  <2>2. t \in fresh
    BY <1>1, <1>2, <1>3, <2>1, RingSize DEF Inv, Window, TypeOK, Slots
  <2> QED BY <1>1, <1>3, <2>1, <2>2 DEF Inv, FreshDiffer
<1> QED BY <1>1, <1>2, <1>3 DEF CommitFindsOwnEntry, Matching

LEMMA InitHolds == Init => Inv
<1> SUFFICES ASSUME Init  PROVE Inv
  OBVIOUS
<1>1. 0 \in Slots
  BY RingSize DEF Slots
<1>2. NoEntry \in Entries
  BY DEF NoEntry, Entries
<1>3. TypeOK
  BY <1>1, <1>2 DEF Init, TypeOK
<1>4. ValidIsLogged(journal) /\ ValidIsLogged(medium.journal)
  BY DEF Init, ValidIsLogged, NoEntry
<1>5. Window
  BY RingSize DEF Init, Window, Slots
<1> QED
  BY <1>3, <1>4, <1>5 DEF Init, Inv, FreshDiffer, Counters, OpenIsLast, PendingIsRecent

LEMMA MountKeeps == Inv /\ Mount => Inv'
<1> SUFFICES ASSUME Inv, Mount  PROVE Inv'
  OBVIOUS
<1>1. \A s \in Slots : Replay(journal[s]) \in Entries
  BY DEF Inv, TypeOK, Replay, Entries
<1>2. 0 \in Slots
  BY RingSize DEF Slots
<1>3. TypeOK'
  BY <1>1, <1>2 DEF Inv, Mount, TypeOK, FirstTx, FirstHead
<1>4. ASSUME NEW s \in Slots
      PROVE  /\ Replay(journal[s]).valid => journal[s].txId # 0
             /\ Replay(journal[s]).txId = journal[s].txId
             /\ ~(Replay(journal[s]).valid /\ Replay(journal[s]).status = J_PENDING)
  BY DEF Replay, Inv, TypeOK, ValidIsLogged, Entries, J_PENDING, J_COMMITTED
<1>5. ValidIsLogged(journal)' /\ ValidIsLogged(medium.journal)'
  BY <1>4 DEF Mount, Inv, ValidIsLogged
<1>6. PendingIsRecent'
  BY <1>4 DEF Mount, PendingIsRecent
<1>7. Window'
  BY RingSize DEF Mount, Window, FirstHead, Slots
<1> QED
  BY <1>3, <1>5, <1>6, <1>7
  DEF Inv, Mount, FreshDiffer, Counters, OpenIsLast, FirstTx, TypeOK

LEMMA LogKeeps == Inv /\ logOperation => Inv'
<1> SUFFICES ASSUME Inv, logOperation  PROVE Inv'
  OBVIOUS
<1> DEFINE e == Entry(currentTxId + 1, J_PENDING)
<1>1. /\ e \in Entries /\ e.txId = currentTxId + 1 /\ e.status = J_PENDING
      /\ currentTxId \in Nat /\ journalHead \in Slots /\ journal \in [Slots -> Entries]
      /\ fresh \subseteq Slots /\ medium.lastTxId \in Nat /\ lastTxId \in Nat
  BY DEF Inv, TypeOK, Entries, Entry
<1>2. /\ journal' = [journal EXCEPT ![journalHead] = e]
      /\ currentTxId' = currentTxId + 1 /\ open' = currentTxId + 1
      /\ fresh' = fresh \cup {journalHead} /\ journalHead' = NextHead(journalHead)
      /\ mounted /\ mounted' = mounted /\ lastTxId' = lastTxId /\ medium' = medium
  BY DEF logOperation
<1>3. journalHead' = IF journalHead + 1 = Ring THEN 0 ELSE journalHead + 1
  BY <1>1, <1>2, HeadMoves
<1>4. journalHead' \in Slots
  BY <1>1, <1>3, RingSize DEF Slots
<1>5. TypeOK'
  BY <1>1, <1>2, <1>4 DEF Inv, TypeOK
<1>6. \A s \in Slots : journal'[s] = IF s = journalHead THEN e ELSE journal[s]
  BY <1>1, <1>2
<1> HIDE DEF e
<1>7. ValidIsLogged(journal)' /\ ValidIsLogged(medium.journal)'
  BY <1>1, <1>2, <1>6 DEF Inv, ValidIsLogged
<1>8. Window'
  BY <1>1, <1>2, <1>3, RingSize DEF Inv, Window, Slots
<1>9. FreshDiffer'
  <2>1. \A s \in fresh : journal[s].txId \in Nat /\ journal[s].txId <= currentTxId
    BY <1>1 DEF Inv, FreshDiffer, Entries
  <2> QED BY <1>1, <1>2, <1>6, <2>1 DEF Inv, FreshDiffer
<1>10. Counters'
  BY <1>1, <1>2 DEF Inv, Counters
<1>11. OpenIsLast'
  BY <1>1, <1>2, <1>6 DEF OpenIsLast
<1>12. PendingIsRecent'
  BY <1>1, <1>2, <1>6 DEF Inv, PendingIsRecent
<1> QED BY <1>5, <1>7, <1>8, <1>9, <1>10, <1>11, <1>12 DEF Inv

\* The commit changes the entry the operation has logged.
LEMMA CommitWhere ==
  ASSUME Inv, commitOperation
  PROVE  \E s \in fresh :
           /\ journal[s].txId = open
           /\ journal' = [journal EXCEPT ![s] = Entry(open, J_COMMITTED)]
           /\ lastTxId' = open
<1>1. CommitFindsOwnEntry /\ open # 0
  BY OwnEntryFound DEF commitOperation
<1>2. PICK s \in Matching(open) : \A t \in Matching(open) : s <= t
  BY <1>1 DEF CommitFindsOwnEntry
<1>3. \A u \in Matching(open) : (\A t \in Matching(open) : u <= t) => u = s
  BY <1>2, RingSize DEF Matching, Slots
<1>4. s = CHOOSE u \in Matching(open) : \A t \in Matching(open) : u <= t
  BY <1>2, <1>3
<1>5. s \in fresh
  <2>1. PICK r \in fresh : journal[r].txId = open /\ NextHead(r) = journalHead
    BY <1>1 DEF Inv, OpenIsLast
  <2>2. PICK q \in Matching(open) : NextHead(q) = journalHead /\ \A t \in Matching(open) : q <= t
    BY <1>1 DEF CommitFindsOwnEntry
  <2>3. q = s
    BY <1>3, <2>2
  <2>4. q = r
    BY <2>1, <2>2, HeadMoves, RingSize DEF Inv, TypeOK, Matching, Slots
  <2> QED BY <2>1, <2>3, <2>4
<1> QED BY <1>1, <1>2, <1>4, <1>5 DEF commitOperation, Matching

LEMMA CommitKeeps == Inv /\ commitOperation => Inv'
<1> SUFFICES ASSUME Inv, commitOperation  PROVE Inv'
  OBVIOUS
<1>1. PICK s \in fresh :
        /\ journal[s].txId = open
        /\ journal' = [journal EXCEPT ![s] = Entry(open, J_COMMITTED)]
        /\ lastTxId' = open
  BY CommitWhere
<1>2. /\ open # 0 /\ open' = 0
      /\ UNCHANGED <<mounted, medium, currentTxId, journalHead, fresh>>
  BY DEF commitOperation
<1>3. /\ journal \in [Slots -> Entries] /\ s \in Slots /\ open \in Nat /\ currentTxId \in Nat
      /\ medium.lastTxId \in Nat /\ lastTxId \in Nat
  BY DEF Inv, TypeOK
<1> DEFINE e == Entry(open, J_COMMITTED)
<1>4. e \in Entries /\ journal' = [journal EXCEPT ![s] = e] /\ e.txId = open
      /\ e.status = J_COMMITTED
  BY <1>1, <1>3 DEF Entries, Entry
<1>5. \A t \in Slots : journal'[t] = IF t = s THEN e ELSE journal[t]
  BY <1>3, <1>4
<1>6. TypeOK'
  BY <1>1, <1>2, <1>3, <1>4 DEF Inv, TypeOK
<1> HIDE DEF e
<1>7. \A t \in Slots : journal'[t].txId = journal[t].txId
  BY <1>1, <1>4, <1>5
<1>8. ValidIsLogged(journal)' /\ ValidIsLogged(medium.journal)'
  BY <1>1, <1>2, <1>4, <1>5, <1>7 DEF Inv, ValidIsLogged
<1>9. FreshDiffer'
  BY <1>2, <1>7 DEF Inv, FreshDiffer, TypeOK
<1>10. Counters'
  BY <1>1, <1>2, <1>3 DEF Inv, Counters, OpenIsLast
<1>11. PendingIsRecent'
  BY <1>2, <1>4, <1>5 DEF Inv, PendingIsRecent, J_PENDING, J_COMMITTED
<1> QED BY <1>2, <1>6, <1>8, <1>9, <1>10, <1>11 DEF Inv, Window, OpenIsLast

LEMMA WriteBackKeeps ==
  ASSUME Inv, NEW i \in 0 .. JournalSectors - 1, WriteBack(i)
  PROVE  Inv'
<1>1. medium' = [medium EXCEPT !.journal =
                   [s \in Slots |-> IF SectorOf(s) = i THEN journal[s] ELSE medium.journal[s]]]
  BY DEF WriteBack
<1>2. UNCHANGED <<mounted, journal, lastTxId, currentTxId, journalHead, open, fresh>>
  BY DEF WriteBack
<1> DEFINE ring == [s \in Slots |-> IF SectorOf(s) = i THEN journal[s] ELSE medium.journal[s]]
<1>3. /\ medium'.journal = ring /\ medium'.lastTxId = medium.lastTxId
      /\ medium' = [journal |-> ring, lastTxId |-> medium.lastTxId]
  BY <1>1 DEF Inv, TypeOK
<1>4. ring \in [Slots -> Entries]
  BY DEF Inv, TypeOK
<1>5. ValidIsLogged(ring)
  BY DEF Inv, ValidIsLogged
<1> HIDE DEF ring
<1>6. TypeOK'
  BY <1>2, <1>3, <1>4 DEF Inv, TypeOK
<1> QED
  BY <1>2, <1>3, <1>5, <1>6
  DEF Inv, ValidIsLogged, Window, FreshDiffer, Counters, OpenIsLast, PendingIsRecent

\* The steps that leave the ring in memory as it is, or replace it by the medium's.
LEMMA OtherStepsKeep ==
  ASSUME Inv, GiveUp \/ WriteBackSuperBlock \/ Exit \/ Crash \/ UNCHANGED vars
  PROVE  Inv'
<1>1. CASE GiveUp
  BY <1>1 DEF GiveUp, Inv, TypeOK, ValidIsLogged, Window, FreshDiffer, Counters, OpenIsLast,
     PendingIsRecent
<1>2. CASE WriteBackSuperBlock
  BY <1>2 DEF WriteBackSuperBlock, Inv, TypeOK, ValidIsLogged, Window, FreshDiffer, Counters,
     OpenIsLast, PendingIsRecent
<1>3. 0 \in Slots
  BY RingSize DEF Slots
<1>4. {} = {s \in Slots : s < 0}
  BY RingSize DEF Slots
<1>5. CASE Exit
  <2>1. TypeOK' /\ ValidIsLogged(journal)' /\ ValidIsLogged(medium.journal)'
    BY <1>3, <1>5 DEF Exit, Forget, Inv, TypeOK, ValidIsLogged
  <2> QED
    BY <1>4, <1>5, <2>1
    DEF Exit, Forget, Inv, TypeOK, Window, FreshDiffer, Counters, OpenIsLast, PendingIsRecent
<1>6. CASE Crash
  <2>1. TypeOK' /\ ValidIsLogged(journal)' /\ ValidIsLogged(medium.journal)'
    BY <1>3, <1>6 DEF Crash, Forget, Inv, TypeOK, ValidIsLogged
  <2> QED
    BY <1>4, <1>6, <2>1
    DEF Crash, Forget, Inv, TypeOK, Window, FreshDiffer, Counters, OpenIsLast, PendingIsRecent
<1>7. CASE UNCHANGED vars
  BY <1>7 DEF vars, Inv, TypeOK, ValidIsLogged, Window, FreshDiffer, Counters, OpenIsLast,
     PendingIsRecent
<1> QED BY <1>1, <1>2, <1>5, <1>6, <1>7

LEMMA InvIsInductive == Inv /\ [Next]_vars => Inv'
  BY MountKeeps, LogKeeps, CommitKeeps, WriteBackKeeps, OtherStepsKeep DEF Next

-----------------------------------------------------------------------------

LEMMA InvHolds == Spec => []Inv
  BY InitHolds, InvIsInductive, PTL DEF Spec

\* The journal's variables keep their types; the head never leaves the ring.
THEOREM TypeCorrect == Spec => []TypeOK
<1>1. Inv => TypeOK
  BY DEF Inv
<1> QED BY <1>1, InvHolds, PTL

\* commitOperation, which searches the ring by number, commits what the operation has
\* logged, after any number of crashes, mounts and turns of the ring.
THEOREM CommitIsExact == Spec => []CommitFindsOwnEntry
  BY InvHolds, OwnEntryFound, PTL

\* Replay leaves no pending entry of an earlier run.
THEOREM ReplaySettles == Spec => []PendingIsRecent
<1>1. Inv => PendingIsRecent
  BY DEF Inv
<1> QED BY <1>1, InvHolds, PTL

\* A number the medium's superblock has reached is not given to another operation, and
\* the superblock on the medium never goes back, whichever sectors a crash leaves.
THEOREM CommittedNumbersStay == Spec => CommitsStay
<1> DEFINE Stay == /\ medium'.lastTxId >= medium.lastTxId
                   /\ open' \notin {0, open} => open' > medium.lastTxId
<1>1. Inv /\ [Next]_vars => [Stay]_vars
  <2> SUFFICES ASSUME Inv, [Next]_vars  PROVE Stay
    OBVIOUS
  <2>1. medium.lastTxId \in Nat /\ lastTxId \in Nat /\ medium.lastTxId <= lastTxId
        /\ medium \in [journal : [Slots -> Entries], lastTxId : Nat]
    BY DEF Inv, TypeOK, Counters
  <2>2. medium'.lastTxId \in {medium.lastTxId, lastTxId}
    BY <2>1 DEF Next, Mount, logOperation, commitOperation, GiveUp, WriteBack,
       WriteBackSuperBlock, Exit, Crash, vars
  <2>3. ASSUME open' \notin {0, open}  PROVE open' > medium.lastTxId
    <3>1. mounted /\ open' = currentTxId + 1
      BY <2>3 DEF Next, Mount, logOperation, commitOperation, GiveUp, WriteBack,
         WriteBackSuperBlock, Exit, Crash, Forget, vars
    <3>2. currentTxId \in Nat /\ lastTxId <= currentTxId
      BY <3>1 DEF Inv, TypeOK, Counters
    <3> QED BY <2>1, <3>1, <3>2
  <2> QED BY <2>1, <2>2, <2>3
<1> QED BY <1>1, InvHolds, PTL DEF Spec, CommitsStay
=============================================================================
