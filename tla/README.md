# A TLA+ model of LevelFS

LevelFS is a file system for a raw volume or an image file, with a shell around
it.  A folder has *levels*, each a directory content of its own, and a level can be
linked between folders.  The program formats volumes (`src/src/fs.cpp`), and mounts
one and works on it from a shell (`src/src/mount.cpp` and the headers beside it).
These modules model the parts of it that keep state others depend on, TLC checks
them on small instances, and TLAPS proves every safety property the runs check, and the refinements,
for every instance.

Line numbers and ranges of what each definition models are in `PROJECT.json` under
`map`.

## The system

### Components, their state and what makes them correct

| Component | State | Operations | Correct when |
| --- | --- | --- | --- |
| Sector cache (`cache.hpp`) and `DiskDevice` (`fs_common.hpp`) | LRU list and map, cached sectors, dirty bits, capacity; the device handle and its file pointer | read, write, open, close, flush, invalidate, set capacity, enable | a read returns the last write; the list, the map and the data agree; nothing dirty is dropped unwritten |
| Cluster allocator (`mount.cpp`: `getLABEntry`, `setLABEntry`, `setLATEntry`, `allocCluster`, `freeChain`, `getChain`) | superblock counters and hint, LIT, pool of LABs | allocate, link, cut, free | as long as no name of a freed chain is used, chains are disjoint and end, counters are the numbers they stand for, a cluster is free, used or known to be lost; always, LABs are not shared |
| Journal (`journal.hpp`) | ring of entries, head, last number; the number in the superblock | log, commit, replay | a commit finds its own entry after any crash; replay settles what is left over; a number that the superblock on the medium has reached is not given out again |
| Directory structure (`mount.cpp`) | entries of directory contents, version tables with their levels, the current content and directory | the shell's commands | references lead to what they say; nothing is freed that is still referred to, or left allocated that nothing refers to |
| Levels (`mount.cpp`, `fs_context.hpp`) | registry of level descriptors, version tables, next level ID in memory and on the volume, level mounts, navigation context | add, branch, link, remove, rename, delete, mount a level; nav; mount | an ID in a version table is not given out again; a level mount keeps its level; levels descend from older ones |
| Thread pool (`utils/handler.hpp`) | queue, stop flag, condition variable, workers | enqueue, wait for the future, destroy | every task runs once; nobody sleeps on work; the destructor returns |
| Process scheduler (`scheduler.hpp`) | table of managed processes, detached monitor threads, startup file | job start, list, kill, cleanup; mount, exit | a stopped process has ended; a handle leads to its own process and is not lost; an end is noticed; nothing runs on after the shell |
| Formatter (`fs.cpp`) | the new volume | format | leaves the initial states of the above |
| File and range locks (`concurrent.hpp`) | locks per cluster, owner ids | acquire, release, stale locks | owners exclude each other |
| `TaskHandler`, `ParallelExecutor` (`utils/handler.hpp`) | optimizer thread with its flag and condition variable; background tasks | start and stop the optimizer; submit, poll | stopping returns, and the optimizer's thread has ended by then |
| Defragmenter (`defrag.hpp`) | none of its own; links, entries and data on the volume | analyse, find space, move a chain | every file reads the same after as before |
| Permissions and their cache (`permissions.hpp`) | permission bits in entries; a cache nothing fills | check, change | the bits that are checked are the entry's |
| Entry reader, writer, finder (`fs_entry.hpp`) | none | scan and rewrite entries | as the shell's own scans |
| Navigation (`fs_context.hpp`) | current directory, content, level, root level, path text | nav | directory, content and path agree |
| Variables, import, export, program execution (`mount.cpp`) | `/data/var.dat`, host files | set, get, import, export, run | import's clusters and entry agree |
| Console streams, command parser, progress, partition manager | text, the terminal, the host's volumes | | not a matter of state the others read |

### How they interact

Everything reads and writes sectors through one `DiskDevice`, and that through one
cache.  The shell calls the allocator, the journal and the directory code in one
thread, a command at a time, so between commands these are sequential; what makes
them hard is that each command is many sector writes, any subset of which may be on
the medium when the process dies, and that the same fact is kept in several places
(a free count, a hint, a LIT count and the entries themselves; a file's data and its
several names; a level and the two folders that share it).  `fsck` is the
exception: it hands ranges of clusters to the thread pool, whose workers read through the
`DiskDevice` in parallel.  The scheduler adds one detached thread for every process
started, which meets the shell at `processMutex` and, without it, at a copied handle.
`mount` starts the optimizer thread; at the end the shell's members are destroyed in
reverse order: the scheduler, whose detached threads nobody waits for, the optimizer's owner, the pool.  `defrag` works on the same volume as the
shell with its own idea of where a cluster's link is.

### What is hard here

- *Order and crashes*: write-back in any order, lost caches, replay of a ring that
  other runs have written to.
- *Threads*: workers between a predicate and a wait; notifications after the mutex
  is released; seek and read as two steps on one handle; handle values that are used
  again.
- *Partial failure*: a full disk in the middle of a command, failed write-backs,
  a process that cannot be created.
- *Stale copies*: a cache kept over a remount, a sector image written back over a
  newer one, a current directory that has been deleted, LABs over old bytes.
- *Long legal sequences*: links, moves and deletions of levels; IDs that outlive the level they
  were given to, and a next ID that is ahead of the one on the volume.
- *Two readers of one structure*: descriptors counted by sector and by cluster, links found
  through the LIT and through an address of its own.

`PROJECT.json` lists each at its line under `hazards`, with the properties that
would catch it going wrong or the reason why none does yet.

## The modules

| Module | Models | Composition |
| --- | --- | --- |
| `BlockStore` | what a buffered disk promises (abstract) | |
| `SectorCache` | `LfsLRUCache` and `DiskDevice` | implements `BlockStore` by `Store == INSTANCE BlockStore WITH store <- Visible, stable <- device` |
| `DiskThreads` | `fsck`'s workers on one `DiskDevice` | extends `SectorCache` |
| `ClusterPool` | what the allocator promises: sets of clusters (abstract) | |
| `ClusterAlloc` | the allocator and the way commands use it | implements `ClusterPool` by `Promise == INSTANCE ClusterPool WITH held <- Held, free <- Allocatable(vol), count <- vol.totalFreeClusters` |
| `Journal` | the journal over a cache that writes back in any order | |
| `Volume` | directory contents, version tables, levels and the commands on them | |
| `Levels` | level IDs: registry, version tables, level mounts, the context, mount | |
| `ThreadPool` | workers, client, destructor | |
| `TaskHandler` | the optimizer thread, its start and its stop | |
| `ShellThreads` | the shell's thread with the pool and the optimizer, up to its end | extends `ThreadPool`, `TH == INSTANCE TaskHandler` |
| `Processes` | the scheduler, its monitor threads, the startup file | |
| `Defrag` | the defragmenter on a volume the shell has written | |
| `MCSectorCache`, `MCClusterAlloc`, `MCVolume`, `MCProcesses`, `MCLevels` | instances for TLC | extend their component |
| `SectorCacheProofs`, `ClusterAllocProofs`, `JournalProofs`, `LevelsProofs`, `ProcessesProofs`, `ShellThreadsProofs`, `VolumeProofs` | theorems | extend their component; `SectorCacheProofs` extends `DiskThreads`, which extends `SectorCache` |
| `VolumeLemmas` | what `Volume`'s operators return, and the graph that a directory structure is | extends `Volume`; `VolumeProofs` extends it |

Operators whose comment starts with `Mutant:` are plausible mistakes in the operator that
follows; no specification uses them.  They serve to see that a property notices such a
mistake: `PROJECT.json` lists one for every property of every run that passes.

### SectorCache

`cacheData`, `dirty`, `enabled`, `maxEntries` are the fields of those names.  `lruList`
with `lruMap` is kept as the order it stands for: `<<s, t>> \in newer` when `s` is
in front of `t`.  `device` is the medium of each volume, `volume` the open one, `out`
the last sector a caller got.  `Put` is `put` with the eviction and the write-back
callback in it; `ok` is the set of sectors whose write succeeds.

`Next` is what the shell does on a healthy device.  `ApiNext` is all that
`DiskDevice` offers, with writes that fail and opens that fail.  `Remount` is a second
`mount` of another volume in one process.

`Visible` (what a read would return) and `device` are the refinement mapping to
`BlockStore`: a crash there makes the store what was stable, so the refinement says
that a crash loses exactly the dirty writes, an orderly exit none, and that evictions
cannot be seen.

### ClusterAlloc

`vol` is the volume: the superblock's counters, the LIT, the pool of LABs with whatever
was on the disk before (`Stale`).  The functions of the code are operators from a volume to a
volume, so that a command that allocates twice is their composition.  `blocks`,
`leaked` and `importing` are ghosts or the local state of an import: which clusters
each file, directory or version table should have, and which ones no
one has any more.

A chain may have more names than one: hard links, linked levels, the shell's current folder.  An owner is
the chain, and `del` and `deleteLevel` free it whichever name they are given (`Delete`).  The other names keep its
first cluster, which is then in `stale`, and commands may use it: `DeleteStale` frees what is
there by now, for a second time or under another owner; `ExtendStale` and `TruncateStale` link and cut it.  What such a use
does to the owners' later clusters is described by the links alone, so from then on `blocks` has every owner's first cluster only, which its directory entry has.
`uses` counts the uses; `MaxStaleUses` bounds them and with them how long `stale` is kept.  Four of the properties are about volumes on
which no stale name has been used, and say so (`uses = 0`); that LABs are not shared, that the counters do not wrap and that
the free count is never too *small* holds of all.  What a stale version table or directory content is read as, its garbage, is left out: chains
here are what commands do to their clusters.

The commands appear as what they do to clusters: `Create` (file, level, branch, link,
first write), `CreateFolder`, `CreateFolderFull`, `Extend` (a write or a directory that
grows, behind `End`, the last cluster `getChain` returns), `Truncate` (a shorter write, which frees nothing), `Reimport`, `BeginImport` / `EndImport`
/ `ImportFull`, `ExtendRoot` and `AllocLost` (entries that a full root directory does not
lead to, a branch without a slot), `Delete`.

`Chain` is `getChain` as a set, defined as what every closed set with the first
cluster has (`Walk`); this is what makes `freeChain` provable without recursion.  It ends also when
links lead back, which they may after a stale name was used.

`ClusterPool` knows no links, LABs, hint or LIT: each owner has a set of clusters, some are free, and
a number says how many.  The mapping is `Held` (what `getChain` returns for an owner's first cluster),
the clusters the scan would hand out, and the superblock's counter.  `Create`, `BeginImport` and `Extend` are its
`Take`, `CreateFolder` `TakeBoth`, `Reimport` `Replace`, `Truncate` and `ImportFull` `Drop` (clusters leave their
owner and do not become free), `CreateFolderFull`, `ExtendRoot` and `AllocLost` `Waste`, `Delete` `Free`,
and `EndImport` a stutter.  So a step changes no chain but those of the owners it is about, and
what is lost never comes back, until a stale name is used: the second freeing of a chain is no step of a pool.

The model is
of volumes with at most 170 groups: beyond that the code reads LIT entries at
positions that do not exist, see "Not modelled".

### Journal

`journal` is the ring as read through the cache, `medium` what the device has;
`WriteBack(i)` and `WriteBackSuperBlock` may happen whenever the volume is mounted, so a
`Crash` finds every mix.  An entry's checksum is a Boolean: whether it matches.
`open` is the operation that has logged and not finished; `GiveUp` is an import that
returns on a full disk.  `fresh` is a ghost.

`CommitsStay` is about the superblock: a number it has reached on the medium is not given out again.  A commit whose
ring sector alone has reached the medium does not count: after a crash its number is given out again, with the committed entry still in the
ring, and `CommitFindsOwnEntry` is what keeps the two apart.

### Volume

A chain is one model value with the content of its clusters; `role` says what it is
allocated for.  A directory content is a sequence of entries, a version table one of levels.
`Find` and `FreeSlot` take the first match, as the scans do, which matters: names are not unique
anywhere.  `PerCluster` is there because `del` and `delete level` look for
entries in the first cluster only.  Freeing a chain leaves its bytes, since `add level` does not
clear the content it takes.

One action per command: `CreateFile`, `CreateFolder`, `Symlink`, `Hardlink` (and
`HardlinkNoPath`, whose link has an invalid path but which has raised the target's
attributes by then), `Write`, `Move`, `Rename`, `Del`, `DeleteLevel`, `LevelRemove`, `LevelRename`,
`AddLevel`, `BranchLevel`, `LinkLevel`, `Nav`, `NavNew` (the level offered to a folder without one), `NavLevel` (`.:level`), `NavUp`.  The paths a
command may be given are the contents its `resolvePath` can reach: `Paths`, or
`PlainPaths` for the commands that refuse a colon.

The context is `cwd`, `dir` and `rootVersion`: the current content, the version table of the current directory, the level of the root that `nav ..` goes
back to.  In level commands `.` (`Dot`) names `dir`, whatever has become of it; `RootDir` is the root's own table, whose levels `.`
makes, removes and renames in the root.  `Del` writes back the sector with the entry as it was read before the counts
were lowered (`Sector`): only the root's other sectors keep the lower counts.

`Sound` says that what the root and the current directory lead to is allocated for
what the references say, the current directory's table (`dir`) among them.  When it is false the next read would interpret arbitrary bytes, so the
model stops there; the properties speak about the step that gets there.

`Acyclic` says that no content is below itself by way of the folders and levels that are
reached.  It is not an invariant, since `move` does not look at where its destination is;
`OnlyMovesMakeCycles` says that no other command breaks it, in particular `link`, which gives two
folders one content but always a new and empty one.

`Exclusive` is not an invariant either.  `add level` takes a cluster as it is, and in it may be the directory
of an earlier life: create a folder and a file in it, make a hard link to the file from outside, delete the
folder with what is in it (the file's data stays allocated), delete the link, create the folder again and a file, which gets the cluster of the old file's
data, and add a level that gets the old content: the new file's data has a second entry.  No session of six commands is long enough
for this; the attempt to prove the invariant found it.  So `ExclusiveStays` says which step may break it
(`OldContent`, a level added over directory data that is not empty), and the other action properties name the same step.

### Levels

`tables` has the version tables of the root and of the two folders that every volume has.
`registry` is the chain of descriptors.  `registerNewLevel` and `findLevelByID` read it a sector at
a time, with four descriptors of 104 bytes to a sector and bytes left over; `branchLevel` and `updateLevelDescriptor`
read a cluster and count 39 across the sectors' ends.  The first four of a cluster are at the
same bytes in both, later ones are not: there a descriptor of one way lies across several of the other's, a parent is taken for an
ID, and a level mount's count is written over somebody else's descriptor.  So the model has the `Agreed` first places exactly, which come first in every
scan and which nothing written beyond them reaches, and of what is beyond only the IDs that `registerNewLevel` has given to levels there
(`beyond`).  `findLevelByID` may find one of these with any content (`NavMount` to any content or to a cluster that is none) or not at all, and `updateLevelDescriptor`
may change anything beyond.  The properties are of the agreed descriptors, whatever happens beyond.

`nextLevelID` is the number in memory, `savedID` the one in the superblock on the volume.  Allocating or freeing
a cluster writes the superblock, and so does a command that has given out an ID and gets to its end;
`branchLevel` with a full table does not (`SavedByBranch`).  `Mount` reads the number back.
`Linked` takes a slot as it is, with the ID and parent of the level that was removed from it.

`context` is `currentDirCluster`, `currentContentCluster`, `currentLevelID`, whether the path is
`/`, and `rootVersion`.  The branches of `nav` are `NavUp` (`..`), `NavLevel` (`.:level`), `NavFolder`,
`NavNew` (the prompt for a first level) and `NavMount`, each with the fields it leaves alone: entering a
folder leaves the level, entering a level mount leaves the directory.

### ThreadPool

What happens under `queueMutex` is one step (`Look`, `Enqueue`, `Stop`); `notify_one`
and `notify_all` are steps after it.  A worker that finds nothing sleeps in the same step
in which it looked, since `wait` releases the mutex and sleeps atomically.
`SpuriousWakeup` is what the standard allows.

### TaskHandler and ShellThreads

The optimizer's thread is at one of the places between which the flag may change: before the loop's
test, in `wait_for`'s predicate, about to block, asleep, awake, in the callback.  `stopOptimizer`
takes no mutex, so `ClearFlag` and `Notify` may both come while the thread is about to block; only the end of
its interval (`Interval`) then wakes it.  `ShellThreads` puts the pool and this thread together with
the shell: `Mount` starts the thread once, `Exit` begins `~TaskHandler`, and `EndThreadPool` is `~ThreadPool`,
which follows.  The scheduler is destroyed before both, and what its threads do then is in `Processes`.

### Processes

Each call of `startProcess` is `Create` (a pid, `CreateProcess`, which may fail) and
`Insert` (table, monitor thread, startup file).  A monitor is `Copy`, `BeginWait`, `EndWait`,
`MarkStopped`; `Copy` and `MarkStopped` hold `processMutex`, the wait does not, and the handle
it waits on may by then be closed and its value be another process's.  The i-th process that the
operating system has created is the number i, so that a handle that leads to the
wrong one can be told apart.  `Insert` is one step although `processMutex` is released between the table and the thread: what
comes between is read by no thread.

`Exit` is `~ProcessScheduler`, which terminates what runs.  The monitors are detached and go on: they are woken by these ends while the
shell's other members are still being destroyed, lock the mutex and search the table that are gone (`UseDestroyed`).  That is undefined, and
a thread that has done it does nothing more here ("astray"); no property speaks of what comes of it.

### DiskThreads

A read is `Get`, `Seek`, `Read`, `PutRead`, and `WriteVictim` when the put evicts a
dirty sector.  `get` and `put` hold the cache's mutex; `SetFilePointerEx` and `ReadFile` do not.

### Defrag

`entries` is what the sectors from the volume's start to the pool's end hold, read as LAB entries:
the superblock, the LIT's words (three to an entry, two to a LAB entry), the LABs.  `Link` is where the shell finds a
cluster's link, `Reads` and `Written` where the `Defragmenter` reads and writes it.  It reads one sector into a
buffer for a cluster: an entry behind the sector's end is whatever the stack held, so
`Reads` is a set.  `Chains` are the chains `getChain` may return: a cluster past the volume's end is one of them and is where the
chain's clusters cannot be read (`Fail`), before anything is written.  The steps are those of `defragFile` and `moveClusterChain`, write by write.
The run's property is about the files when nothing is being moved; a crash between two writes and a hard link
to the file, which would break it too, are not in it, since it is violated without them.

## The runs

Symmetry is used where no definition tells the values apart, and in no run with a
liveness property.

| Run | Checks | Shows | Bounds, and why they are enough |
| --- | --- | --- | --- |
| `cache_shell` | `TypeOK`, `CleanMatchesDevice`, `StoreSpec` | clean copies are the volume's; the cache implements the store through evictions, remounts of the same volume, exits, crashes | 2 volumes, 3 sectors, 2 data, capacity 2: three sectors compete for two entries, so each order of hit, fill and eviction occurs; 42816 states, all of them |
| `cache_api` | `LruIsTotalOrder`, `WithinCapacity` | the list and the capacity survive invalidation, changed capacities (0 to 3) and failed writes | 1 volume, 3 sectors; 35360 states, all of them |
| `cluster_alloc` | `TypeOK`, `ChainsExact`, `AccountingExact`, `LabsDistinct`, `NothingLost`, `PoolSpec` | chains, counters, LABs and lost clusters under all commands, to the full disk, until the name of a freed chain is used; that all of it implements sets of clusters; and what holds in spite of such a use | 7 clusters of which 4 are data, LABs of two entries: a group of reserved clusters, two of data, and one with the backup superblock alone; 3 owners, a pool of stale entries, 1 use of a stale name and anything after it.  One use frees or cuts what another owner has; 172300 states, all of them |
| `journal` | `TypeOK`, `CommitFindsOwnEntry`, `PendingIsRecent`, `CommitsStay` | the ring after any crash | 2 sectors of 2 entries, 6 transactions: the ring wraps, entries of two earlier runs are in it, and every mix of sectors is met; 1735425 states, all of them |
| `volume` | `TypeOK`, `ExclusiveStays`, `DanglesOnlyIfShared`, `OnlyTheseLose`, `OnlyMovesMakeCycles` | references, chains and cycles | sessions of 5 commands, 5 chains, 2 names and `.`, 2 level names, contents of 1 or 2 clusters of one entry, a root of two sectors of one entry.  Five commands are enough for a folder, a second one, a link between them, a `nav`, and a deletion or a move after it, which is when `.` dangles or a cycle is made; 56989 states.  With `MaxCommands = 6` TLC finds no error either in 308786 states, in more time than a run should take.  Longer sessions are what the theorems are for |
| `levels` | `TypeOK`, `TableIdsSaved`, `DuplicatesAreLost`, `LineageDescends`, `MountsAreCounted`, `MountStaysHome` | what an ID stands for, through exits and mounts | sessions of 6 commands, 3 new contents, 2 level names, version tables of 1 or 2 clusters of 2 sectors of one entry, 3 agreed descriptors and any beyond, IDs up to 5, 2 mounts of a level.  A table is full after one more level, the agreed places after two more descriptors, so six commands get to a full table, a lost branch, a mount, the ID given out again and a level registered beyond; 2975405 states |
| `shell_threads` | `ShellTypeOK`, `EveryTaskOnce`, `NobodySleepsOnWork`, `NoneOutlivesTheShell`, `EveryTaskRuns`, `ExitEnds` | no lost wake-up, no lost task, the optimizer's thread ends before the pool is stopped, the pool ends empty, the program ends | 3 workers, 3 tasks: more workers than tasks, as many, and fewer while others run; 45988 states, all of them |
| `processes` | `TypeOK`, `StoppedHasEnded`, `HandlesLeadHome`, `NoHandleLost`, `NothingRunsOn`, `EndIsNoticed` | handles and ends, and that exit leaves nothing running | 2 handle values, 2 pids, 2 names one of which occurs in the other's definition: a value is used again as soon as one is closed; 114897 states, all of them |
| `cache_remount` | `MountShowsVolume`, violated | the cache of the first volume is served as the second's | as `cache_shell` |
| `links_preserved` | `LinksPreserved`, violated | `del` of one name frees the data of the other | as `volume` |
| `disk_threads` | `ParallelReadsAreClean`, violated | two workers move each other's file pointer.  While workers take turns it holds: `TurnsAreReads` | |
| `defrag` | `FilesKeepTheirData`, violated | `defrag` moves a file away from under its directory entry | a small layout: 4 groups of 4 clusters, sectors of 2 entries, two files of two clusters given in turn |

`CHECK_DEADLOCK FALSE` is set where the system stops: a full disk, the end of a session
or of the bounds, a pool that is destroyed, a shell that has exited.

### Fairness

`ShellThreads`: weak fairness for each worker's `Look` and `Finish` and for what the client has
begun (`NotifyOne`, `GetAll`, `NotifyAll`, `Join`).  The operating system schedules
threads, and fsck's tasks are loops over a range of clusters, which end.  None for
`Enqueue`, `Wait`, `Stop`: a client need not do anything.  None for spurious wake-ups:
nothing may rely on them.  For the optimizer: weak fairness for the thread's own steps, of which `Interval` is
`wait_for`'s promise to return when its time is over, and `Callback` ends, since the one the shell passes is empty;
and for `Notify`, `JoinOptimizer` and `EndThreadPool`, since a destructor that has begun goes on.
Without `Interval` `ExitEnds` fails: the end of the program may be as late as the interval, 60 s.

`Processes`: weak fairness for `Insert` (the shell is in the middle of a function) and
each monitor's steps (a thread that is ready runs, and `EndWait` is enabled
only when what it waits for has happened).  None for the end of a process: it may run for ever.

The other modules have no fairness: their properties are about safety, and the shell need not go on.

### Findings

1. `mount` of a second volume keeps the cache of the first (`fs_common.hpp:339`), although the
   README offers to mount any drive.
2. `del` of one of a file's names frees the data of all (`mount.cpp:2783`), where the help
   text says "links preserved".
3. Parallel reads through one handle (`fs_common.hpp:393`) cache sectors with
   another one's content.
4. `defrag` (`defrag.hpp:123`) takes sector `cluster / 256` of the volume for the LAB of a cluster.  Superblock, LIT and other
   groups' LABs are read as links and written; in the run a file of two clusters is moved by
   what was read, and the shell, which finds the links in the pool, no longer reads what was in it.

Also seen, and part of the models without a run of their own: `create folder` on a disk with one free
cluster loses that cluster, since `setLATEntry(.., LAT_FREE)` leaves the used flag
(`CreateFolderFull`); replay marks entries committed and leaves a checksum that
no longer matches (`Replay`); `cache.hpp`'s heading says write-through and the
cache is write-back; `updateProcessStatuses` takes a process that has ended with
code 259 for running, and only its monitor thread corrects that; the
scheduler's detached threads use its members after they are destroyed (`UseDestroyed`); the second `del` of a chain with two names
raises the free count above what is free, or frees what another file has by then (`DeleteStale`); after deleting the folder it is in, the
shell keeps its table, and `level add . y` writes into a freed cluster (`Folder(Dot)`, where `Sound` is false).

`move` does not look at where the destination is: with a linked level, plain paths are enough to
make a cycle in what the README of LevelFS calls a DAG (`mount.cpp:2872`), and `dir-tree` does not end on it.  `onReboot` is
"saved to /data/startup.prc", which `rootfsInit` does not create and `writeFileContent` does not either
(`mount.cpp:4013`): it works once somebody has made the file (`CreateStartupFile` in `Processes`).

In `Levels`: a branch in a full version table registers a level with an ID that is not saved, the ID is given out
again after another mount, and `mount-level` with it finds the lost level, not the one that the
version table shows (`DuplicatesAreLost` is as strong as the code allows: a stale level of the current directory, whose table was freed, can
free a content that a later level of the same ID then gets again); beyond the fourth descriptor of a cluster a level
may not be found by `levels` and `mount-level`, or the count of a mount is written over another descriptor; levels in the second cluster of a version table can be listed and branched from, not removed, renamed, deleted or entered
by `nav folder:level`; `nav ..` keeps the content of the place it leaves when the root level it came from is gone;
`level rename` of the root's `master` leaves a volume on which the next mount finds no root; `del` of a level mount
leaves the level's reference count, and frees the cluster whose number is the level's ID, unless that is a reserved one.

## What is proved

All proofs are checked by TLAPS to the last leaf, from these assumptions on the
constants and no other:

- `CacheAssumption`: `Absent` is no content and `Closed` no volume, capacities are natural
  numbers, there are finitely many sectors.
- `AllocAssumption`: the reserved area is not empty and smaller than the volume, a LAB has at
  least one entry, the pool holds some entries or other, the bound on uses of stale names is a number.
- `JournalAssumption`: at least one sector and one entry in it.
- `LevelsAssumption`: the sizes and bounds are positive and there is room for a second ID, `Master` and `Main`
  are names, the three tables are different.
- `PoolAssumption`: finitely many workers, at least one, and `NoTask` is no task.
- `ProcessesAssumption` and `NoProcessAssumption`: values that stand for nothing are none of the
  others.
- `VolumeAssumption`: finitely many chains, `Master` is a name for a level and `NoName` no name, `Dot` no name of an entry, `Root`, `RootDir` and
  `NoChain` are no chains and differ, all sizes are positive, and the bound on attributes leaves room for a new entry's.

**SectorCacheProofs.**  `ListStaysTotal` and `TypeCorrect` are stated for the whole
interface with a failing device (`ApiSpec`), `TypeCorrect` for the shell's operations (`Spec`) too.  The lemmas about the operators say that dropping keys from a strict
total order and moving one to its front leave one.  `CacheStaysWithinCapacity` needs that:
only because the list is total over *the cached sectors* does `put` find a victim when the
cache is full, and only because there is exactly one does it make room for one.
The induction is over list order, typing and capacity together.
`CleanCopiesAreTheVolumes` is about the shell's use; it is not true of
the whole interface (a failed write-back, `MarkSectorClean` and multi-sector writes
break it).  Its invariant adds that the cache is enabled and that nothing is cached
while no volume is open.  `CacheImplementsStore` is the step simulation: reads and writes
map to the store's own with the set of evicted dirty sectors as the witness of `WriteBack`, `Open` and
`Exit` map to `Sync`, `Crash` to `Crash`; clean copies being the device's is what makes an eviction invisible.

`TurnsAreReads` is about `DiskThreads`, which `SectorCacheProofs` extends: if no worker is between the steps of a read while
another one is (`OneBusy`), the threads' steps are stutters and one `ReadMiss`, so all that is proved of `Spec` holds under `fsck`, and
what is cached clean is the volume's.  The assumption is what a lock around `readSector` would give, which the
code does not have; with one worker it is true.  The invariant is what a worker knows at each step (`ReaderInv`).
TLC has checked the same with two workers.

**ClusterAllocProofs.**  The inductive invariant has two parts.  `Sane(vol)` holds always: types, `nextFreeLAB` is the *number of groups that
have a LAB* (so the pool, with a place for every group, cannot be overrun), no two groups share one, a group without one has count 0, and
the free count is at least the number of free clusters (`Covered`).  `Exact` holds while `uses = 0`, and collects in `Good(vol, blocks, leaked)` what
the other properties say.  None of the five is
inductive alone: exact chains need that allocation hands out only clusters
nobody has, which is the partition `NothingLost`; the partition needs that a
new LAB changes no entry, which is `LabsDistinct`; the superblock's counter does not wrap because it covers what is free, the LIT's because
`freeChain` compares first.  A step that uses a stale name has to keep `Sane` alone (`StaleStep`, and `StrayStep` for the steps
after it): `FreeChainSane` says that `freeChain` frees every cluster its walk meets, whatever the links, and counts them all, those that were free already included.
First come lemmas about the functions (`CreateLABWorks` ...
`FreeChainWorks`), then about what they do to a good state (`Lose`, `Give`, `Take`, `Cut`, `Attach`,
`Drop`, `Aside`, `Free`), of which every action is a composition.  `ChainIsBlocks`, that
`getChain` returns exactly the clusters an owner has, is the heart of deletion, and `End` is the last of them.

`ChainsImplementPool` is the refinement.  Under `Inv` what `ClusterPool` sees is a function of the ghosts alone (`Viewed`):
`Held` is the members of each owner's sequence, the free clusters are the data clusters that are in no sequence
and not lost.  This is shown of every step after which `uses` is still 0.  A step that gives an owner another sequence takes from the free clusters what the new sequence
and the new lost clusters have beyond the old ones (`Moved`), and each action is then set algebra.

**JournalProofs.**  `CommitIsExact` rests on how the slots written since the mount lie: from the
first slot up to the head, or all of them (`Window`), with numbers that differ from each
other (`FreshDiffer`).  An entry of an earlier run may have the same number, but only in a slot
from the head on, and the scan starts at slot 0.  `ReplaySettles` and `CommittedNumbersStay` follow from
what the same invariant says about the medium and the superblock: the number in memory is never behind the one on the medium, which is never ahead of the superblock's.

**LevelsProofs.**  `Inv` is typing with bounds: IDs in version tables are *below* the saved one, those in the
registry and the context *at most* the saved one.  The difference is the lost branch, whose descriptor has the ID that is
not saved and to which a level mount can lead the shell; so a level may be added under a parent with its own
ID, and under none that is younger, which is why `LineageDescends` says `<=`.  Bounds on both sides
are needed for it: a new level's parent is the context's level or one of a version table.
`MountInv` adds that descriptors are appended (`Appended`: none at an agreed place is free while a later one is used, and no level is
beyond them before they are full), so that a scan that finds one there finds the same one for ever, and that a mount's ID is found or has been
registered beyond (`MountsLead`).  `MountsStayHome` follows, for any number of agreed places and whatever is overwritten beyond: a new level goes behind every agreed one, and a
mount's count is raised at the place the scan returned.  First come lemmas about the scans (`First` returns the least, `Find`, `findLevelByID`), from
the well-foundedness of the naturals.

`OnlyLostAreDouble` (`DuplicatesAreLost`) needs no history of mounts, but `IdsInv`: two slots of version tables have one ID only if they are
copies of one version in later clusters (`VersionsAgree`).  What adds a cluster to a full table writes the
new version at the start of every sector of it, and no command removes, renames or links what is there (`SlotsChange`); otherwise
an ID is given to one slot, since IDs in tables are below the saved one.  `RootIsFirst` and `savedID > 1`
keep the root's ID apart.  TLC has checked `IdsInv` and `MountInv` on the
instance of `levels`, in sessions of five commands.

**ProcessesProofs.**  The i-th monitor is the thread of the i-th process (`Numbered`), which is what `startProcess` makes
by inserting the entry and then starting the thread.  While that process runs, it is in the
table (`RunningIsListed`), its handle is open and its own, and its thread has copied that one and waits for it
(`ThreadsWait`); so a thread that has been woken up by another process's end, through a value that was used again, is one of a
process that has ended before.  None of `StoppedHasEnded`, `HandlesLeadHome`, `NoHandleLost` is inductive without this.  `ExitEndsAll` follows: what runs is in the table, not
marked as stopped, and its handle is there, so the destructor ends it; after that nothing but undefined steps of threads is left.

**ShellThreadsProofs.**  `NobodySleepsOnWork` needs `Noticed`, which says how far behind the notifications may be:
one task, while `enqueue` is between releasing the mutex and `notify_one`.  The step of a
worker that takes a task removes one from both sides of the inequality; one that goes to sleep has seen an empty queue.
`NoneOutlivesTheShell` needs `Ending`, that only a stopped pool with an empty queue lets a worker go,
and `InOrder`, that the pool is stopped only when the optimizer has been joined.

**VolumeLemmas and VolumeProofs.**  A command's effect on `data` is an expression with scans, slots and freed
chains in it, and the properties are about what is reached; the proofs meet at a graph.
`EntryAt(data, d, i, y, s)` is an edge from a content to what an entry leads to, `LevelAt` one from a version table to a content.
First come the operators: `SelectInSeq` returns the first match (`SelectEntry`, `SelectFree`,
`SelectLevel`), and `Closure`, a recursive function, returns the least set that has the start and
is closed under `next` (`ClosureReaches`: the function exists by the induction of
the naturals, and `Cardinality(DOMAIN next)` rounds are enough because a set that still grows has that many members).  Then come
the properties in terms of the graph (`SoundAt`, `ExclusiveAt`, `LostAt`), and what a graph that `Grows` (at
most one entry and the levels of new contents are new, and the entry is to what was free, a hard
link, or one that has moved) or `Shrinks` (nothing is new, and what is freed has lost an edge) keeps.
`VolumeProofs` shows of each action that it keeps the types, that it is one or the
other, and that it loses nothing outside the cases of `Loses` (`StepOK`); only `move` is neither, and has
`MoveStep` and `MoveAcyclic`.

`TypeOK` is inductive as it is, because a command only starts in a `Sound` state: a scan of a chain that holds something
else is not described.  The four action properties need `TypeOK` and `Sound` in the state before.  `OnlySharedDangle` is the
argument that freeing what has one reference and takes that reference away leaves none, for which
`Refs` counts entries and levels of everything live; `NoOtherCycles` that a new edge leads to what had no way out, or, for a
move, to what does not lead back.  Two things in the model were not right and have been changed: `Exclusive`, see above, and
`Loses`, which did not have the second hard link of a name: it takes over the first one's
entry, and with it the last name of data whose other name is gone.

`CarefulSessions` and `TidySessions` put them together: a session of any length that frees nothing shared and adds no
level over old data keeps every reference right (`Sound`, the context's included: freeing the current content, or the current folder's table, counts as freeing
what is shared) and every entry the only one (`Exclusive`); if besides no
folder is moved below itself, levels and contents are the DAG that LevelFS's README speaks of.

**Only model-checked**: `EveryTaskRuns`, `ExitEnds` and `EndIsNoticed`, which are about liveness, and the four
violations.  Liveness under fairness and `ENABLED` are out of the prover's reach, and so is
induction by the library's theorems, which take an operator.  What a recursive function computes is proved where it is
needed (`Closure`): its counterexamples would be a set of naturals, which has a least member (`LeastNumber`).  No module here declares a recursive operator.

## Not modelled

- *In `Volume`*: clusters one by one (they are in `ClusterAlloc`) and the full disk; version tables
  of more than one cluster and level IDs (they are in `Levels`); permission bits other than write, and `perms`,
  which sets and clears them; `create symlink` and `create hardlink`, whose entries lead nowhere.
- *In `ClusterAlloc`*: what is in a directory content or a version table that was freed and is read
  again by a stale name, and so further names that only such garbage has.
- *In `Levels`*: which descriptor beyond the agreed ones overwrites which; a full registry, after which levels have the ID 0; sizes, child counts and
  times of levels; folders other than the two of a new volume; a root without `master`.
- *Volumes of more than 170 groups* (170 MB).  `updateLITAllocatedCount` counts 512 LIT entries to a cluster, which holds
  170 (`mount.cpp:538`): from there on it reads and writes outside its buffer.  The formatter gives the LIT
  too few clusters for 341 groups, and for any number beyond 43350 (43 GB), so that the last
  groups' entries are in the pool's first LAB (`fs.cpp:622`).
- *Crashes between the sector writes of one command.*  The journal logs
  before and commits after, but replay redoes nothing, so what is on the medium is what
  happened to be written back.  The store's `Crash` states what the device guarantees, and nothing says what
  a recovered volume should be.
- *Locks* (`concurrent.hpp`): all are taken and released by the shell's thread inside a command, for the process's id as
  the owner.  None is ever waited for or refused, and none is held between commands.
- *Background tasks*: `main` recognises a `&`, sets a flag nothing reads and runs the command in the foreground; nothing else
  calls `runBackground`.
- *The permission cache*: only `resolvePathPermissions` fills it, and nothing calls that.  `perms` reads a directory's
  chain with the defragmenter's address and finds no entry of the second cluster.
- *`EntryReader`, `EntryWriter`, `EntryFinder`*: made by `mount`, called by nothing.
- *The defragmenter's walk over folders, its flags and its report.*
- *`LfsClusterCache`, `freeCluster`, `clearOldEntries`, `getRunningCount`, the context stack and the like*: nothing calls them.
- *The startup file under commands other than `create`*, and thread handles, which are closed with
  the process's.
- *Console, parsing, partitions*: wording, the terminal and the host's own volumes.

## Plan

Done in this order: cache, allocator, journal, directory structure, threads, scheduler, the shell's threads
together, levels, the defragmenter, and the proofs of each.  What would come next:

1. A crash model of one `write` and one `create folder` as their sector writes over `BlockStore`, once there is a
   statement of what recovery promises.
2. `Volume` and `Levels` in one state, for folders below folders with level mounts in them; TLC's bounds are
   too small for both today.
3. More proofs: the safety half of the liveness properties (what a waiting thread or client is owed); the
   journal as an implementation of a set of pending operations.
4. A repaired `Defrag` (links through the LIT) that implements "a file's data is the same before and after", with the
   hard links that the code does not look for.
