----------------------------- MODULE BlockStore -----------------------------
(***************************************************************************)
(* The ledger's blocks on disk: a ledger (Ledger.cpp) over a store of      *)
(* directories (DirDirStore.cpp), each a store of files                    *)
(* (FileDirStore.cpp), each a header and a list of blocks (FileStore.cpp). *)
(* A store starts with one directory in its own place, the root; when that *)
(* is full it becomes subdirectory 1 and others follow.                    *)
(*                                                                         *)
(* One process owns a store.  What happens to it is the end of the         *)
(* process: in order, when the destructors write everything back, or       *)
(* between any two of its writes to the disk, which is why addBlock is     *)
(* cut at those writes.  A single write is all or nothing: a process that  *)
(* is killed leaves no torn write behind, a loss of power is not modelled. *)
(***************************************************************************)
EXTENDS FiniteSetsExt, SequencesExt, Integers

CONSTANTS
    Sizes,          \* sizes of blocks
    HeaderSize, PrefixSize, MaxFileSize, MaxFiles, MaxDirs,
    MaxLevel,       \* may the store go deeper than one level of directories
    CrashAt,        \* the points of addBlock at which the process may be killed
    MaxTries,       \* bound: calls of addBlock
    MaxCrashes      \* bound: kills

\* A block of the ledger fits in a fresh file (10 MB).
ASSUME SizesAssumption ==
    \A s \in Sizes : s \in Nat /\ HeaderSize + PrefixSize + s <= MaxFileSize
ASSUME LimitsAssumption == MaxFiles \in Nat \ {0} /\ MaxDirs \in Nat \ {0}

VARIABLES
    disk,     \* the directories: their index file and their block files
    top,      \* the index file of the store of directories
    up,       \* is there a process that has mounted the ledger
    mem,      \* its stores
    cache,    \* its last block (latestBlockCache_)
    op,       \* the call of addBlock it is in
    tries, crashes,
    acked,    \* history: the block of each id whose addBlock has succeeded
    misses    \* history: failed calls since the mount or the last success

diskVars == <<disk, top>>
vars == <<disk, top, up, mem, cache, op, tries, crashes, acked, misses>>

None     == [n |-> 0, size |-> 0]
Idle     == [pc |-> "idle", blk |-> None, dir |-> 0]
NoStore  == [root |-> TRUE, cur |-> 0, total |-> 0, dirs |-> <<>>]
Root     == 0

\* An index file: written in place, so that it is empty for a while.
Index(starts) == [whole |-> TRUE, starts |-> starts]
Torn          == [whole |-> FALSE, starts |-> <<>>]

Starts(m) == [i \in DOMAIN m |-> m[i].start]
IdsOf(f)  == DOMAIN f

\* A map with one entry, and a map with one entry more.
Only(k, v)    == [i \in {k} |-> v]
With(f, k, v) == [i \in IdsOf(f) \cup {k} |-> IF i = k THEN v ELSE f[i]]

\* mistake: a mount leaves the current id alone.
HighestForgotten(ids) == 0

\* The current file or directory is the one with the largest id.
Highest(ids) == Max(ids \cup {0})

----------------------------------------------------------------------------
(* FileStore.  In memory a file has a count of blocks, from its header,    *)
(* and an index of offsets, built by a scan at the first read.  The index  *)
(* is of the blocks after the first `skip`.                                *)

SizeOf(file) == FoldLeft(LAMBDA n, b : n + PrefixSize + b.size, HeaderSize, file.recs)
Fits(file, size) == SizeOf(file) + PrefixSize + size <= MaxFileSize

\* mistake: a new file does not know how many blocks come before it.
NewFileFromZero(start) == [start |-> 0, count |-> 0, built |-> FALSE, skip |-> 0]

NewFile(start) == [start |-> start, count |-> 0, built |-> FALSE, skip |-> 0]
MountFile(file, start) == [NewFile(start) EXCEPT !.count = file.hdr]

BuildBlockIndex(m, file) ==
    IF m.built THEN m
    ELSE [m EXCEPT !.built = TRUE, !.skip = 0, !.count = Len(file.recs)]

\* A write adds its entry to the index, built or not.
Written(m, file) ==
    [m EXCEPT !.count = @ + 1, !.built = TRUE,
              !.skip = IF m.built THEN @ ELSE Len(file.recs)]

BlockAt(m, file, i) ==
    LET pos == BuildBlockIndex(m, file).skip + i + 1
    IN  IF pos \in DOMAIN file.recs THEN file.recs[pos] ELSE None

----------------------------------------------------------------------------
(* FileDirStore and DirDirStore: opening, closing, finding a block.        *)

\* mistake: only the blocks of the file in use are counted.
CountBlocksLast(dir, ids) == IF ids = {} THEN 0 ELSE dir.files[Highest(ids)].hdr

CountBlocks(dir, ids) == SumFunction([f \in ids |-> dir.files[f].hdr])

MountDir(dir, start) ==
    LET ids == IdsOf(dir.idx.starts)
    IN  [start |-> start, cur |-> Highest(ids),
         total |-> CountBlocks(dir, ids),
         files |-> [f \in ids |-> MountFile(dir.files[f], dir.idx.starts[f])]]

\* Files write their count to their header as they close.
CloseDir(m, dir) ==
    [idx   |-> Index(Starts(m.files)),
     files |-> [f \in IdsOf(dir.files) |->
                  IF f \in IdsOf(m.files)
                  THEN [dir.files[f] EXCEPT !.hdr = m.files[f].count]
                  ELSE dir.files[f]]]

\* The last file may have room left: a full set of files is a full directory.
DirFits(d) ==
    d \in IdsOf(mem.dirs) /\ Cardinality(IdsOf(mem.dirs[d].files)) < MaxFiles

InRange(i, m, count) == m.start <= i /\ i < m.start + count

\* The files that claim block i; the maps are unordered, any may be met first.
Claims(m, i) ==
    {c \in UNION {{d} \X IdsOf(m.dirs[d].files) : d \in IdsOf(m.dirs)} :
        LET dir  == m.dirs[c[1]]
            file == dir.files[c[2]]
        IN  InRange(i, dir, dir.total) /\ InRange(i - dir.start, file, file.count)}

ReadIn(m, i, c) ==
    LET dir == m.dirs[c[1]]
    IN  BlockAt(dir.files[c[2]], disk[c[1]].files[c[2]],
                i - dir.start - dir.files[c[2]].start)

\* Reading a block builds the index of its file, which may change its count.
Touch(m, c) ==
    [m EXCEPT !.dirs[c[1]].files[c[2]] = BuildBlockIndex(@, disk[c[1]].files[c[2]])]

\* What readBlock may answer: None is an error.
Answers(i) ==
    IF i >= mem.total THEN {None}
    ELSE IF i = mem.total - 1 /\ cache # None THEN {cache}
    ELSE IF Claims(mem, i) = {} THEN {None}
    ELSE {ReadIn(mem, i, c) : c \in Claims(mem, i)}

----------------------------------------------------------------------------
(* addBlock, from write to write.                                          *)

At(pc)     == up /\ op.pc = pc
Go(pc)     == op' = [op EXCEPT !.pc = pc]
GoTo(d)    == op' = [op EXCEPT !.pc = "open", !.dir = d]
Fail       == op' = Idle /\ misses' = misses + 1
History    == <<tries, crashes, acked>>
Process    == <<up, cache, History>>

activeDir  == mem.dirs[op.dir]
activeFile == disk[op.dir].files[activeDir.cur]

AddBlock(size) ==
    /\ At("idle") /\ tries < MaxTries
    /\ tries' = tries + 1
    /\ op' = [Idle EXCEPT !.pc = "route", !.blk = [n |-> tries + 1, size |-> size]]
    /\ UNCHANGED <<disk, top, up, mem, cache, crashes, acked, misses>>

\* The directory in use has room.
UseCurrentDir ==
    LET d == IF mem.root THEN Root ELSE mem.cur
    IN  /\ At("route") /\ DirFits(d)
        /\ GoTo(d)
        /\ UNCHANGED <<disk, top, mem, Process, misses>>

\* The root is full: files are closed, the directory is moved to a temporary
\* name and then below a new one, the files are opened again.  From the first
\* move on, no ledger can be mounted before the index is saved.
RelocateRootStore ==
    LET closed == CloseDir(mem.dirs[Root], disk[Root])
        opened == [mem.dirs[Root] EXCEPT !.files =
                     [f \in IdsOf(@) |-> MountFile(closed.files[f], @[f].start)]]
    IN  /\ At("route") /\ mem.root /\ ~DirFits(Root)
        /\ disk' = Only(1, closed)
        /\ mem' = [mem EXCEPT !.root = FALSE, !.cur = 1, !.dirs = Only(1, opened)]
        /\ Go("relocated")
        /\ UNCHANGED <<top, Process, misses>>

\* mistake: the index is left for the next append to save.
SaveRelocationForgotten ==
    /\ At("relocated")
    /\ Go("route")
    /\ UNCHANGED <<disk, top, mem, Process, misses>>

SaveRelocation ==
    /\ At("relocated")
    /\ top' = Index(Starts(mem.dirs))
    /\ Go("route")
    /\ UNCHANGED <<disk, mem, Process, misses>>

\* A FileDirStore that cannot be initialised, because there is an index file,
\* writes its own empty index over it as it is destroyed.
Clobber(d) == disk' = [disk EXCEPT ![d].idx = Index(<<>>)]

NeedsDir == At("route") /\ ~mem.root /\ ~DirFits(mem.cur)

CreateFileDirStore ==
    LET d == mem.cur + 1
    IN  /\ NeedsDir /\ Cardinality(IdsOf(mem.dirs)) < MaxDirs
        /\ IF d \in IdsOf(disk)
           THEN /\ Clobber(d) /\ Fail
                /\ mem' = [mem EXCEPT !.cur = d]
           ELSE /\ disk' = With(disk, d, [idx |-> Index(<<>>), files |-> <<>>])
                /\ mem' = [mem EXCEPT !.cur = d, !.dirs = With(@, d,
                       [start |-> mem.total, cur |-> 0, total |-> 0, files |-> <<>>])]
                /\ GoTo(d) /\ UNCHANGED misses
        /\ UNCHANGED <<top, Process>>

\* The store is full.  Going deeper fails: the directory that is to become a
\* store of directories has the index file of a store of files in it.
StoreFull ==
    /\ NeedsDir /\ Cardinality(IdsOf(mem.dirs)) >= MaxDirs
    /\ IF MaxLevel > 0 THEN Clobber(mem.cur) ELSE UNCHANGED disk
    /\ Fail
    /\ UNCHANGED <<top, mem, Process>>

UseCurrentFile ==
    /\ At("open") /\ activeDir.cur \in IdsOf(activeDir.files) /\ Fits(activeFile, op.blk.size)
    /\ Go("write")
    /\ UNCHANGED <<disk, top, mem, Process, misses>>

CreateBlockFile ==
    LET f == activeDir.cur + 1
    IN  /\ At("open")
        /\ activeDir.cur \in IdsOf(activeDir.files) => ~Fits(activeFile, op.blk.size)
        /\ IF f \in IdsOf(disk[op.dir].files)
           THEN /\ mem' = [mem EXCEPT !.dirs[op.dir].cur = f]
                /\ Fail /\ UNCHANGED disk
           ELSE /\ disk' = [disk EXCEPT ![op.dir].files =
                              With(@, f, [hdr |-> 0, recs |-> <<>>])]
                /\ mem' = [mem EXCEPT !.dirs[op.dir].cur = f,
                              !.dirs[op.dir].files = With(@, f, NewFile(activeDir.total))]
                /\ Go("write") /\ UNCHANGED misses
        /\ UNCHANGED <<top, Process>>

\* FileStore::write as far as the flush of the block.
WriteBlock ==
    /\ At("write")
    /\ mem' = [mem EXCEPT !.dirs[op.dir].files[activeDir.cur] = Written(@, activeFile)]
    /\ disk' = [disk EXCEPT ![op.dir].files[activeDir.cur].recs = Append(@, op.blk)]
    /\ Go("header")
    /\ UNCHANGED <<top, Process, misses>>

UpdateHeaderBlockCount ==
    /\ At("header")
    /\ disk' = [disk EXCEPT ![op.dir].files[activeDir.cur].hdr = activeDir.files[activeDir.cur].count]
    /\ mem' = [mem EXCEPT !.dirs[op.dir].total = @ + 1]
    /\ Go("index")
    /\ UNCHANGED <<top, Process, misses>>

\* FileDirStore::saveIndex opens the index file, which empties it, and writes.
OpenIndex ==
    /\ At("index")
    /\ disk' = [disk EXCEPT ![op.dir].idx = Torn]
    /\ Go("emptied")
    /\ UNCHANGED <<top, mem, Process, misses>>

SaveIndex ==
    /\ At("emptied")
    /\ disk' = [disk EXCEPT ![op.dir].idx = Index(Starts(activeDir.files))]
    /\ mem' = [mem EXCEPT !.total = @ + 1]
    /\ Go(IF mem.root THEN "stored" ELSE "topindex")
    /\ UNCHANGED <<top, Process, misses>>

\* DirDirStore::saveIndex, once the root has moved.
OpenTopIndex ==
    /\ At("topindex")
    /\ top' = Torn
    /\ Go("topemptied")
    /\ UNCHANGED <<disk, mem, Process, misses>>

SaveTopIndex ==
    /\ At("topemptied")
    /\ top' = Index(Starts(mem.dirs))
    /\ Go("stored")
    /\ UNCHANGED <<disk, mem, Process, misses>>

\* The ledger replaces its own index in one rename, and answers.
FinishAddBlock ==
    /\ At("stored")
    /\ acked' = With(acked, mem.total - 1, op.blk)
    /\ cache' = op.blk
    /\ op' = Idle /\ misses' = 0
    /\ UNCHANGED <<disk, top, up, mem, tries, crashes>>

----------------------------------------------------------------------------
(* Reading, and the life of the process.                                   *)

ReadBlock(i) ==
    /\ At("idle") /\ i < mem.total
    /\ i = mem.total - 1 => cache = None
    /\ \E c \in Claims(mem, i) :
         /\ mem' = Touch(mem, c)
         /\ cache' = IF i = mem.total - 1 THEN ReadIn(mem, i, c) ELSE cache
    /\ UNCHANGED <<disk, top, up, op, tries, crashes, acked, misses>>

Ended == up' = FALSE /\ mem' = NoStore /\ cache' = None /\ op' = Idle

Close ==
    /\ At("idle")
    /\ disk' = [d \in IdsOf(disk) |->
                  IF d \in IdsOf(mem.dirs) THEN CloseDir(mem.dirs[d], disk[d])
                  ELSE disk[d]]
    /\ top' = IF mem.root THEN top ELSE Index(Starts(mem.dirs))
    /\ Ended
    /\ UNCHANGED <<tries, crashes, acked, misses>>

Crash ==
    /\ up /\ op.pc \in CrashAt /\ crashes < MaxCrashes
    /\ crashes' = crashes + 1
    /\ Ended
    /\ UNCHANGED <<disk, top, tries, acked, misses>>

Dirs == IF IdsOf(top.starts) = {} THEN Only(Root, 0) ELSE top.starts

Mountable ==
    top.whole /\ \A d \in IdsOf(Dirs) : d \in IdsOf(disk) /\ disk[d].idx.whole

Mounted ==
    LET dirs == [d \in IdsOf(Dirs) |-> MountDir(disk[d], Dirs[d])]
    IN  [root |-> IdsOf(top.starts) = {}, cur |-> Highest(IdsOf(Dirs)), dirs |-> dirs,
         total |-> SumFunction([d \in IdsOf(Dirs) |-> dirs[d].total])]

\* mistake: a mount leaves the reading for later.
ReadLastLazily(m) == mem' = m /\ cache' = None

\* The last block is read at once, and so the index is there when the next one
\* is written to the same file.
ReadLast(m) ==
    LET last == m.total - 1
    IN  IF Claims(m, last) = {} THEN mem' = m /\ cache' = None
        ELSE \E c \in Claims(m, last) :
               mem' = Touch(m, c) /\ cache' = ReadIn(m, last, c)

Mount ==
    /\ ~up /\ Mountable
    /\ up' = TRUE /\ misses' = 0
    /\ ReadLast(Mounted)
    /\ UNCHANGED <<disk, top, op, tries, crashes, acked>>

----------------------------------------------------------------------------

\* A ledger that has just been initialised.
Init ==
    /\ disk = Only(Root, [idx |-> Index(<<>>), files |-> <<>>])
    /\ top = Index(<<>>)
    /\ up = TRUE
    /\ mem = [NoStore EXCEPT !.dirs =
                Only(Root, [start |-> 0, cur |-> 0, total |-> 0, files |-> <<>>])]
    /\ cache = None /\ op = Idle
    /\ tries = 0 /\ crashes = 0 /\ acked = <<>> /\ misses = 0

Next ==
    \/ \E s \in Sizes : AddBlock(s)
    \/ UseCurrentDir \/ RelocateRootStore \/ SaveRelocation
    \/ CreateFileDirStore \/ StoreFull
    \/ UseCurrentFile \/ CreateBlockFile
    \/ WriteBlock \/ UpdateHeaderBlockCount
    \/ OpenIndex \/ SaveIndex \/ OpenTopIndex \/ SaveTopIndex \/ FinishAddBlock
    \/ \E i \in 0..MaxTries : ReadBlock(i)
    \/ Close \/ Crash \/ Mount

Spec == Init /\ [][Next]_vars

----------------------------------------------------------------------------
(* Properties.                                                             *)

Ready == At("idle")

\* A block that addBlock reported stored is what readBlock answers for its id
\* from then on, whatever restarts, moves of the root and reads come between.
AckedReadable == Ready => \A i \in DOMAIN acked : Answers(i) = {acked[i]}

\* An id is given out once: the block stored at it is never replaced.
IdsFresh == [][\A i \in DOMAIN acked : acked'[i] = acked[i]]_vars

\* Every id below the next one has a block, which a node needs to load its
\* ledger; a call that was cut short may have left one block, in its place.
NoHoles == Ready => \A i \in 0..mem.total - 1 : None \notin Answers(i)

\* After a kill at any of the points CrashAt names there is a ledger to mount:
\* every index file is whole and every directory it names is in its place.
Restartable == ~up => Mountable

\* What a killed call left behind is stepped over: a retry fails at most once
\* for every kill, unless the store is full.
RetrySucceeds ==
    Ready => \/ misses <= crashes
             \/ /\ ~DirFits(mem.cur)
                /\ Cardinality(IdsOf(mem.dirs)) >= MaxDirs
=============================================================================
