---------------------------- MODULE SectorCache ----------------------------
(***************************************************************************)
(* The sector cache of LevelFS and the device below it: LfsLRUCache of     *)
(* cache.hpp as DiskDevice of fs_common.hpp uses it.  All the shell's I/O  *)
(* is one sector at a time: a read fills the cache, a write only marks the *)
(* cached copy dirty, and the device is written when a dirty sector is     *)
(* evicted or when the volume is closed.                                   *)
(*                                                                         *)
(* lruList is kept as the strict order it stands for: <<s, t>> \in newer   *)
(* when s is in front of t in the list.                                    *)
(***************************************************************************)
EXTENDS Naturals, FiniteSets

CONSTANTS Volumes,     \* the volumes that can be mounted
          Sectors,     \* the sectors of a volume
          Data,        \* the contents a sector can have
          Capacity,    \* maxEntries as constructed (4096 in DiskDevice)
          Capacities,  \* the arguments setCapacity is called with
          Absent,      \* cacheData has no entry for the key
          Closed,      \* no device is open
          NoResult     \* nothing has been read yet

ASSUME CacheAssumption ==
  /\ Absent \notin Data
  /\ Closed \notin Volumes
  /\ Capacity \in Nat
  /\ Capacities \subseteq Nat
  /\ IsFiniteSet(Sectors)

VARIABLES cacheData,   \* the cached copy of each sector, or Absent
          newer,       \* lruList
          dirty,       \* the keys whose dirty bit is set
          enabled,     \* enabled
          maxEntries,  \* maxEntries
          volume,      \* the volume that is open, or Closed
          device,      \* device[v][s]: what is on the medium
          out          \* the last sector read, as the caller got it

vars == <<cacheData, newer, dirty, enabled, maxEntries, volume, device, out>>

Cached == {s \in Sectors : cacheData[s] # Absent}

Init ==
  /\ cacheData = [s \in Sectors |-> Absent]
  /\ newer = {}
  /\ dirty = {}
  /\ enabled = TRUE
  /\ maxEntries = Capacity
  /\ volume = Closed
  /\ device \in [Volumes -> [Sectors -> Data]]
  /\ out = NoResult

-----------------------------------------------------------------------------
(* The cache.                                                              *)

IsOldest(s) == s \in Cached /\ \A t \in Cached \ {s} : <<t, s>> \in newer

\* Mutant: the keys stay in the list.
WithoutForgotten(order, gone) == order

\* The list without some keys; with a key moved to the front.
Without(order, gone) == {p \in order : p[1] \notin gone /\ p[2] \notin gone}

\* Mutant: touch adds the key in front and leaves its old position in the list.
ToFrontTwice(order, keys, s) == order \cup {<<s, t>> : t \in keys \ {s}}

ToFront(order, keys, s) == Without(order, {s}) \cup {<<s, t>> : t \in keys \ {s}}

\* Sectors of S are written to the medium; nothing is while no device is open.
WriteSectorsDirect(S) ==
  device' = IF volume = Closed THEN device
            ELSE [device EXCEPT ![volume] =
                    [s \in Sectors |-> IF s \in S THEN cacheData[s] ELSE @[s]]]

\* Mutant: the test for room is off by one.
VictimsLate(key) ==
  IF cacheData[key] = Absent /\ Cardinality(Cached) > maxEntries
  THEN {s \in Cached : IsOldest(s)} ELSE {}

\* What put evicts: the oldest entry, if the key is new and the cache full.
Victims(key) ==
  IF cacheData[key] = Absent /\ Cardinality(Cached) >= maxEntries
  THEN {s \in Cached : IsOldest(s)} ELSE {}

\* Mutant: entries are evicted as if all were clean.
WriteNoVictims(gone, ok) == UNCHANGED device

\* Entries are evicted.  ok is the set of sectors whose write-back succeeds: the
\* result of the callback is ignored, a dirty entry is dropped either way.
WriteVictims(gone, ok) == WriteSectorsDirect(gone \cap dirty \cap ok)

\* Mutant: put leaves the dirty bit alone.
PutClean(key, d, isDirty, ok) ==
  LET gone == Victims(key) IN
  /\ WriteVictims(gone, ok)
  /\ cacheData' = [s \in Sectors |->
                     IF s = key THEN d ELSE IF s \in gone THEN Absent ELSE cacheData[s]]
  /\ newer' = ToFront(Without(newer, gone), Cached \ gone, key)
  /\ dirty' = dirty \ gone

Put(key, d, isDirty, ok) ==
  LET gone == Victims(key) IN
  /\ WriteVictims(gone, ok)
  /\ cacheData' = [s \in Sectors |->
                     IF s = key THEN d ELSE IF s \in gone THEN Absent ELSE cacheData[s]]
  /\ newer' = ToFront(Without(newer, gone), Cached \ gone, key)
  /\ dirty' = (dirty \ gone) \cup (IF isDirty THEN {key} ELSE {})

\* A dirty bit is cleared even when the write of its sector failed.
Flush(ok) ==
  /\ WriteSectorsDirect(dirty \cap Cached \cap ok)
  /\ dirty' = {}

-----------------------------------------------------------------------------
(* The device as the shell uses it.                                        *)

Result(s, d) == [volume |-> volume, sector |-> s, value |-> d]

\* readSector served by the cache; no device need be open.
ReadHit(s) ==
  /\ enabled /\ s \in Cached
  /\ newer' = ToFront(newer, Cached, s)
  /\ out' = Result(s, cacheData[s])
  /\ UNCHANGED <<cacheData, dirty, enabled, maxEntries, volume, device>>

\* readSector that goes to the device, and fills the cache with a clean copy.
ReadMiss(s, ok) ==
  /\ ~(enabled /\ s \in Cached)
  /\ volume # Closed
  /\ out' = Result(s, device[volume][s])
  /\ IF enabled THEN Put(s, device[volume][s], FALSE, ok)
                ELSE UNCHANGED <<cacheData, newer, dirty, device>>
  /\ UNCHANGED <<enabled, maxEntries, volume>>

\* writeSector reports success whether or not anything was stored.
WriteSector(s, d, ok) ==
  /\ IF enabled THEN Put(s, d, TRUE, ok)
                ELSE UNCHANGED <<cacheData, newer, dirty, device>>
  /\ UNCHANGED <<enabled, maxEntries, volume, out>>

\* open: close() flushes but keeps the cached sectors, then the device is opened.
Open(v, ok) ==
  /\ Flush(ok)
  /\ volume' = v
  /\ UNCHANGED <<cacheData, newer, enabled, maxEntries, out>>

\* The process ends, in order or not, and its memory is gone.
Forget ==
  /\ cacheData' = [s \in Sectors |-> Absent]
  /\ newer' = {}
  /\ dirty' = {}
  /\ enabled' = TRUE
  /\ maxEntries' = Capacity
  /\ volume' = Closed
  /\ out' = NoResult

\* ~DiskDevice at exit.
Exit(ok) == Forget /\ WriteSectorsDirect(dirty \cap Cached \cap ok)

Crash == Forget /\ UNCHANGED device

-----------------------------------------------------------------------------
(* The shell on a healthy device: every open and every write succeeds, and *)
(* a process mounts one volume, once or again and again.                   *)

Next ==
  \/ \E s \in Sectors : ReadHit(s)
  \/ \E s \in Sectors : volume # Closed /\ ReadMiss(s, Sectors)
  \/ \E s \in Sectors, d \in Data : volume # Closed /\ WriteSector(s, d, Sectors)
  \/ \E v \in Volumes : volume \in {v, Closed} /\ Open(v, Sectors)
  \/ volume # Closed /\ Exit(Sectors)
  \/ volume # Closed /\ Crash

Spec == Init /\ [][Next]_vars

\* A process that mounts a second volume, as the mount command allows.
Remount == \E v \in Volumes : volume # v /\ Open(v, Sectors)

RemountSpec == Init /\ [][Next \/ Remount]_vars

-----------------------------------------------------------------------------
(* The rest of the interface, which the shell does not call, and a device  *)
(* whose writes and opens may fail.                                        *)

\* invalidate, invalidateRange, clear: the entries go, their dirty bits stay.
Invalidate(keys) ==
  /\ cacheData' = [s \in Sectors |-> IF s \in keys THEN Absent ELSE cacheData[s]]
  /\ newer' = Without(newer, keys)
  /\ UNCHANGED <<dirty, enabled, maxEntries, volume, device, out>>

EnableCache(e) ==
  /\ enabled' = e
  /\ UNCHANGED <<cacheData, newer, dirty, maxEntries, volume, device, out>>

\* setCapacity evicts the oldest entries until the others fit.
SetCacheSize(cap, ok) ==
  \E gone \in SUBSET Cached :
    /\ \A s \in gone, t \in Cached \ gone : <<t, s>> \in newer
    /\ Cardinality(Cached \ gone) <= cap
    /\ gone # {} => Cardinality(Cached \ gone) = cap
    /\ maxEntries' = cap
    /\ WriteVictims(gone, ok)
    /\ cacheData' = [s \in Sectors |-> IF s \in gone THEN Absent ELSE cacheData[s]]
    /\ newer' = Without(newer, gone)
    /\ dirty' = dirty \ gone
    /\ UNCHANGED <<enabled, volume, out>>

MarkSectorDirty(s) ==
  /\ dirty' = IF s \in Cached THEN dirty \cup {s} ELSE dirty
  /\ UNCHANGED <<cacheData, newer, enabled, maxEntries, volume, device, out>>

MarkSectorClean(s) ==
  /\ dirty' = dirty \ {s}
  /\ UNCHANGED <<cacheData, newer, enabled, maxEntries, volume, device, out>>

FlushCache(ok) ==
  /\ Flush(ok)
  /\ UNCHANGED <<cacheData, newer, enabled, maxEntries, volume, out>>

\* readSector and writeSector with a count above one go around the cache.
ReadSectors(s) ==
  /\ volume # Closed
  /\ out' = Result(s, device[volume][s])
  /\ UNCHANGED <<cacheData, newer, dirty, enabled, maxEntries, volume, device>>

WriteSectors(S, d) ==
  /\ volume # Closed
  /\ device' = [device EXCEPT ![volume] =
                  [s \in Sectors |-> IF s \in S THEN d ELSE @[s]]]
  /\ UNCHANGED <<cacheData, newer, dirty, enabled, maxEntries, volume, out>>

ApiNext ==
  \/ \E s \in Sectors : ReadHit(s) \/ ReadSectors(s)
  \/ \E s \in Sectors : MarkSectorDirty(s) \/ MarkSectorClean(s)
  \/ \E s \in Sectors, ok \in SUBSET Sectors : ReadMiss(s, ok)
  \/ \E s \in Sectors, d \in Data, ok \in SUBSET Sectors : WriteSector(s, d, ok)
  \/ \E v \in Volumes \cup {Closed}, ok \in SUBSET Sectors : Open(v, ok)
  \/ \E keys \in SUBSET Sectors : Invalidate(keys)
  \/ \E e \in BOOLEAN : EnableCache(e)
  \/ \E cap \in Capacities, ok \in SUBSET Sectors : SetCacheSize(cap, ok)
  \/ \E ok \in SUBSET Sectors : FlushCache(ok) \/ Exit(ok)
  \/ \E S \in SUBSET Sectors, d \in Data : WriteSectors(S, d)
  \/ Crash

ApiSpec == Init /\ [][ApiNext]_vars

-----------------------------------------------------------------------------
(* Correctness.                                                            *)

\* The variables have their types, and the list holds no key that has left the
\* cache (lruList and lruMap against cacheData, which every eviction and every
\* invalidation must update together).
TypeOK ==
  /\ cacheData \in [Sectors -> Data \cup {Absent}]
  /\ newer \subseteq Cached \X Cached
  /\ dirty \subseteq Sectors
  /\ enabled \in BOOLEAN
  /\ maxEntries \in Nat
  /\ volume \in Volumes \cup {Closed}
  /\ device \in [Volumes -> [Sectors -> Data]]
  /\ out \in [volume : Volumes \cup {Closed}, sector : Sectors, value : Data] \cup {NoResult}

\* The list orders the cached sectors totally: however hits, fills, evictions and
\* invalidations follow each other, put never finds two candidates to evict, or
\* none.
LruIsTotalOrder ==
  /\ \A s, t \in Cached : s # t => (<<s, t>> \in newer <=> <<t, s>> \notin newer)
  /\ \A s \in Cached : <<s, s>> \notin newer
  /\ \A r, s, t \in Cached :
       <<r, s>> \in newer /\ <<s, t>> \in newer => <<r, t>> \in newer

\* The cache never outgrows its capacity; put does not check for a capacity of
\* zero and then keeps the one entry it has just stored.
WithinCapacity ==
  \/ Cardinality(Cached) <= maxEntries
  \/ maxEntries = 0 /\ Cardinality(Cached) = 1

\* A cached sector whose dirty bit is not set is what the open volume holds, so
\* dropping it loses nothing and serving it is serving the volume.
CleanMatchesDevice ==
  \A s \in Cached \ dirty : volume # Closed /\ cacheData[s] = device[volume][s]

\* What a read of sector s of volume v returns.
Visible == [v \in Volumes |-> [s \in Sectors |->
              IF v = volume /\ s \in Cached THEN cacheData[s] ELSE device[v][s]]]

Store == INSTANCE BlockStore WITH store <- Visible, stable <- device

\* Reads return the last value written, through any number of evictions and
\* remounts; an orderly exit leaves all of it on the medium, and a crash loses
\* exactly the writes that were still dirty.
StoreSpec == Store!Spec

\* README.md:43, "Mount drive D or any drive letter": right after a mount, every
\* read returns what the mounted volume holds.
MountShowsVolume ==
  [][volume' # volume /\ volume' # Closed => Visible'[volume'] = device'[volume']]_vars
=============================================================================
