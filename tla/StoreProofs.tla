------------------------------ MODULE StoreProofs ------------------------------
(***************************************************************************)
(* What BlockStore promises for every size of blocks, files and            *)
(* directories, and any number of calls and kills.                         *)
(*                                                                         *)
(* First, that there is a ledger to mount, if the process is not killed    *)
(* between the two writes of an index file, nor between the moves of the   *)
(* root and the save that names its new place.  The inductive invariant    *)
(* says which index file may be empty at which point of addBlock, and that *)
(* an index names only directories that are there.                         *)
(*                                                                         *)
(* Then what blocks are: one that addBlock reported stored stays readable  *)
(* under its id, ids are given out once and have no holes.  The kills      *)
(* above, and one between a block and the count of its file, are excluded: *)
(* after those it is not so.  Nor does the store go deeper than its        *)
(* directories.  The invariant speaks of layouts: while there is a         *)
(* process, of the one in its memory, and of how much of that the index    *)
(* files name; when there is none, of the one on the disk.                 *)
(*                                                                         *)
(* Last, that what kills leave behind costs a failed call each at most.    *)
(***************************************************************************)
EXTENDS BlockStore, DataLemmas, TLAPS

\* The points at which the ledger on disk is not whole.
Windows == {"relocated", "emptied", "topemptied"}

\* The points of addBlock at which there is an active directory.
Active == {"open", "write", "header", "index", "emptied", "topindex", "topemptied", "stored"}

\* The fields of what a step changes in part.
Fields ==
    /\ DOMAIN mem = {"root", "cur", "total", "dirs"}
    /\ DOMAIN op = {"pc", "blk", "dir"}
    /\ \A d \in IdsOf(disk) : DOMAIN disk[d] = {"idx", "files"}

\* A process works on directories that are on the disk.
Holds ==
    /\ IdsOf(mem.dirs) \subseteq IdsOf(disk)
    /\ op.pc \in Active => op.dir \in IdsOf(mem.dirs)
    /\ mem.root => IdsOf(top.starts) = {} /\ Root \in IdsOf(disk)
    /\ ~mem.root => IdsOf(mem.dirs) # {}
    /\ op.pc \in {"topindex", "topemptied", "relocated"} => ~mem.root

\* Index files are whole, but for one that is being written.
Whole ==
    /\ \A d \in IdsOf(disk) :
          disk[d].idx.whole \/ (up /\ op.pc = "emptied" /\ d = op.dir)
    /\ top.whole \/ (up /\ op.pc = "topemptied")

\* The directories to mount are there, but while the root is moved.
Named == IdsOf(Dirs) \subseteq IdsOf(disk) \/ (up /\ op.pc \in {"relocated", "topemptied"})

\* No process, no call.
Rests == ~up => op.pc = "idle"

Inv == Fields /\ Rests /\ (up => Holds) /\ Whole /\ Named

----------------------------------------------------------------------------
(* Every step keeps the invariant.                                         *)

\* A ledger that has just been initialised can be mounted.
LEMMA InitInv == Init => Inv
BY DEF Init, Inv, Fields, Rests, Holds, Whole, Named, Index, NoStore, Idle, Active, IdsOf, Dirs, Root, Only

\* Steps of addBlock that write no index file and make no directory.
LEMMA QuietInv ==
    ASSUME Inv, up, up' = up, UNCHANGED top, IdsOf(disk') = IdsOf(disk),
           \A d \in IdsOf(disk) : disk'[d].idx = disk[d].idx,
           mem'.root = mem.root, IdsOf(mem'.dirs) = IdsOf(mem.dirs),
           DOMAIN mem' = DOMAIN mem, DOMAIN op' = DOMAIN op,
           \A d \in IdsOf(disk) : DOMAIN disk'[d] = DOMAIN disk[d],
           op.pc \notin Windows, op'.pc \notin Windows,
           op'.pc \in Active => op'.dir \in IdsOf(mem.dirs),
           op'.pc = "topindex" => op.pc = "topindex"
    PROVE  Inv'
<1>1. Rests' /\ Holds'
  BY DEF Inv, Rests, Holds, Windows
<1>0. Fields'
  BY DEF Inv, Fields
<1>2. Whole'
  BY DEF Inv, Whole, Windows
<1>3. Named'
  BY DEF Inv, Named, Windows, Dirs
<1>. QED BY <1>0, <1>1, <1>2, <1>3 DEF Inv

\* addBlock, but for what makes directories and writes indexes.
LEMMA AddBlockInv ==
    ASSUME Inv,
           \/ \E s \in Sizes : AddBlock(s)
           \/ UseCurrentDir \/ UseCurrentFile \/ CreateBlockFile
           \/ WriteBlock \/ UpdateHeaderBlockCount \/ FinishAddBlock
    PROVE  Inv'
<1>1. CASE \E s \in Sizes : AddBlock(s)
  BY <1>1, QuietInv DEF AddBlock, At, Idle, Inv, Fields, Windows, Active
<1>2. CASE UseCurrentDir
  BY <1>2, QuietInv DEF UseCurrentDir, At, GoTo, Windows, Active, DirFits, Process, Inv, Fields
<1>3. CASE UseCurrentFile
  BY <1>3, QuietInv DEF UseCurrentFile, At, Go, Windows, Active, Process, Inv, Fields, Holds
<1>4. CASE CreateBlockFile
  <2> DEFINE f     == activeDir.cur + 1
             blank == [hdr |-> 0, recs |-> <<>>]
             fresh == NewFile(activeDir.total)
  <2>1. /\ up /\ op.pc = "open" /\ UNCHANGED <<top, up>>
        /\ op.dir \in IdsOf(mem.dirs) /\ op.dir \in IdsOf(disk)
        /\ Fields
    BY <1>4 DEF CreateBlockFile, Process, At, Inv, Holds, Active
  <2>2. CASE f \in IdsOf(disk[op.dir].files)
    <3>1. /\ mem' = [mem EXCEPT !.dirs[op.dir].cur = f]
          /\ op' = Idle /\ UNCHANGED disk
      BY <1>4, <2>2 DEF CreateBlockFile, Fail
    <3>. HIDE DEF f
    <3>2. /\ mem'.root = mem.root /\ IdsOf(mem'.dirs) = IdsOf(mem.dirs)
          /\ DOMAIN mem' = DOMAIN mem
      BY <3>1, <2>1 DEF Fields, IdsOf
    <3>3. op'.pc = "idle" /\ DOMAIN op' = DOMAIN op
      BY <3>1, <2>1 DEF Fields, Idle
    <3>. QED BY <2>1, <3>1, <3>2, <3>3, QuietInv DEF Windows, Active
  <2>3. CASE f \notin IdsOf(disk[op.dir].files)
    <3>1. /\ disk' = [disk EXCEPT ![op.dir].files = With(@, f, blank)]
          /\ mem' = [mem EXCEPT !.dirs[op.dir].cur = f,
                        !.dirs[op.dir].files = With(@, f, fresh)]
          /\ op' = [op EXCEPT !.pc = "write"]
      BY <1>4, <2>3 DEF CreateBlockFile, Go
    <3>. HIDE DEF f, blank, fresh
    <3>2. /\ op'.pc = "write" /\ op'.dir = op.dir /\ DOMAIN op' = DOMAIN op
      BY <3>1, <2>1 DEF Fields
    <3>3. /\ IdsOf(disk') = IdsOf(disk)
          /\ \A d \in IdsOf(disk) : /\ disk'[d].idx = disk[d].idx
                                    /\ DOMAIN disk'[d] = DOMAIN disk[d]
      BY <3>1, <2>1 DEF Fields, IdsOf
    <3>4. /\ mem'.root = mem.root /\ IdsOf(mem'.dirs) = IdsOf(mem.dirs)
          /\ DOMAIN mem' = DOMAIN mem
      BY <3>1, <2>1 DEF Fields, IdsOf
    <3>. QED BY <2>1, <3>2, <3>3, <3>4, QuietInv DEF Windows, Active
  <2>. QED BY <2>2, <2>3
<1>5. CASE WriteBlock
  BY <1>5, QuietInv
     DEF WriteBlock, At, Go, Windows, Active, Process, Inv, Fields, Holds, IdsOf
<1>6. CASE UpdateHeaderBlockCount
  BY <1>6, QuietInv
     DEF UpdateHeaderBlockCount, At, Go, Windows, Active, Process, Inv, Fields, Holds, IdsOf
<1>7. CASE FinishAddBlock
  BY <1>7, QuietInv DEF FinishAddBlock, At, Idle, Inv, Fields, Windows, Active
<1>. QED BY <1>1, <1>2, <1>3, <1>4, <1>5, <1>6, <1>7

\* While the root is moved the index names nothing that is in its place.
LEMMA RelocateInv ==
    ASSUME Inv, RelocateRootStore \/ SaveRelocation
    PROVE  Inv'
<1>1. CASE RelocateRootStore
  BY <1>1 DEF RelocateRootStore, At, Go, Process, Only, CloseDir, Index, IdsOf, Active,
              Inv, Fields, Rests, Holds, Whole, Named
<1>2. CASE SaveRelocation
  BY <1>2 DEF SaveRelocation, At, Go, Process, Index, Starts, IdsOf, Dirs, Active,
              Inv, Fields, Rests, Holds, Whole, Named
<1>. QED BY <1>1, <1>2

\* A directory is made before an index names it.
LEMMA DirectoryInv ==
    ASSUME Inv, CreateFileDirStore \/ StoreFull
    PROVE  Inv'
<1>0. up /\ up' /\ UNCHANGED top /\ op.pc = "route" /\ ~mem.root /\ Holds /\ Fields
  BY DEF CreateFileDirStore, StoreFull, NeedsDir, At, Process, Inv
\* An index that is emptied is written whole.
<1>1. ASSUME UNCHANGED <<mem>> \/ mem' = [mem EXCEPT !.cur = mem.cur + 1], op' = Idle,
             NEW d, UNCHANGED disk \/ Clobber(d)
      PROVE  Inv'
  <2>1. /\ IdsOf(disk') = IdsOf(disk)
        /\ \A e \in IdsOf(disk) : disk'[e].idx.whole /\ DOMAIN disk'[e] = DOMAIN disk[e]
    BY <1>0, <1>1 DEF Clobber, Index, IdsOf, Inv, Whole, Fields
  <2>2. mem'.root = mem.root /\ mem'.dirs = mem.dirs /\ DOMAIN mem' = DOMAIN mem
    BY <1>0, <1>1 DEF Fields
  <2>3. op'.pc = "idle" /\ DOMAIN op' = {"pc", "blk", "dir"}
    BY <1>1 DEF Idle
  <2>. QED BY <1>0, <2>1, <2>2, <2>3 DEF Dirs, Active, Inv, Fields, Rests, Holds, Whole, Named
<1>2. CASE StoreFull
  BY <1>1, <1>2 DEF StoreFull, Fail
<1>3. CASE CreateFileDirStore
  <2> DEFINE d    == mem.cur + 1
             new  == [idx |-> Index(<<>>), files |-> <<>>]
             open == [start |-> mem.total, cur |-> 0, total |-> 0, files |-> <<>>]
  <2>1. CASE d \in IdsOf(disk)
    BY <1>1, <1>3, <2>1 DEF CreateFileDirStore, Fail
  <2>2. CASE d \notin IdsOf(disk)
    <3>1. /\ disk' = With(disk, d, new)
          /\ mem' = [mem EXCEPT !.cur = d, !.dirs = With(@, d, open)]
          /\ op' = [op EXCEPT !.pc = "open", !.dir = d]
      BY <1>3, <2>2 DEF CreateFileDirStore, GoTo
    <3>2. new.idx.whole /\ DOMAIN new = {"idx", "files"}
      BY DEF Index
    <3>. HIDE DEF d, new, open
    <3>3. /\ IdsOf(disk') = IdsOf(disk) \cup {d}
          /\ \A e \in IdsOf(disk') : disk'[e] = new \/ (e \in IdsOf(disk) /\ disk'[e] = disk[e])
      BY <3>1 DEF IdsOf, With
    <3>4. \A e \in IdsOf(disk') : disk'[e].idx.whole /\ DOMAIN disk'[e] = {"idx", "files"}
      BY <1>0, <3>2, <3>3 DEF Inv, Whole, Fields
    <3>5. /\ mem'.root = mem.root /\ DOMAIN mem' = {"root", "cur", "total", "dirs"}
          /\ mem'.dirs = With(mem.dirs, d, open)
      BY <1>0, <3>1 DEF Fields
    <3>6. IdsOf(mem'.dirs) = IdsOf(mem.dirs) \cup {d}
      BY <3>5 DEF IdsOf, With
    <3>7. op'.pc = "open" /\ op'.dir = d /\ DOMAIN op' = {"pc", "blk", "dir"}
      BY <1>0, <3>1 DEF Fields
    <3>8. Fields' /\ Rests' /\ Holds'
      BY <1>0, <3>3, <3>4, <3>5, <3>6, <3>7 DEF Active, Fields, Rests, Holds
    <3>9. Whole' /\ Named'
      BY <1>0, <3>3, <3>4 DEF Dirs, Inv, Whole, Named
    <3>. QED BY <3>8, <3>9 DEF Inv
  <2>. QED BY <2>1, <2>2
<1>. QED BY <1>2, <1>3

\* An index file is emptied, then whole again.
LEMMA IndexInv ==
    ASSUME Inv, OpenIndex \/ SaveIndex \/ OpenTopIndex \/ SaveTopIndex
    PROVE  Inv'
<1>1. CASE OpenIndex
  BY <1>1 DEF OpenIndex, At, Go, Process, Torn, IdsOf, Dirs, Active, Inv, Fields, Rests, Holds, Whole, Named
<1>2. CASE SaveIndex
  BY <1>2 DEF SaveIndex, At, Go, Process, Index, IdsOf, Dirs, Active, Inv, Fields, Rests, Holds, Whole, Named
<1>3. CASE OpenTopIndex
  BY <1>3 DEF OpenTopIndex, At, Go, Process, Torn, IdsOf, Active, Inv, Fields, Rests, Holds, Whole, Named
<1>4. CASE SaveTopIndex
  BY <1>4 DEF SaveTopIndex, At, Go, Process, Index, Starts, IdsOf, Dirs, Active,
              Inv, Fields, Rests, Holds, Whole, Named
<1>. QED BY <1>1, <1>2, <1>3, <1>4

\* Reading changes what the process remembers of one file.
LEMMA ReadInv ==
    ASSUME Inv, NEW i, ReadBlock(i)
    PROVE  Inv'
<1>1. /\ up /\ UNCHANGED <<disk, top, up, op>> /\ op.pc = "idle"
      /\ \E c : mem' = Touch(mem, c)
  BY DEF ReadBlock, At
<1>2. PICK c : mem' = Touch(mem, c)
  BY <1>1
<1>3. /\ mem'.root = mem.root /\ IdsOf(mem'.dirs) = IdsOf(mem.dirs)
      /\ DOMAIN mem' = DOMAIN mem
  BY <1>2 DEF Touch, Inv, Fields, IdsOf
<1>. QED BY <1>1, <1>3, QuietInv DEF Inv, Windows, Active

\* Closing writes every index whole.
LEMMA CloseInv ==
    ASSUME Inv, Close
    PROVE  Inv'
<1>1. /\ up /\ op.pc = "idle"
      /\ ~up' /\ mem' = NoStore /\ op' = Idle
      /\ top' = IF mem.root THEN top ELSE Index(Starts(mem.dirs))
      /\ disk' = [d \in IdsOf(disk) |->
                    IF d \in IdsOf(mem.dirs) THEN CloseDir(mem.dirs[d], disk[d])
                    ELSE disk[d]]
  BY DEF Close, At, Ended
<1>2. /\ IdsOf(disk') = IdsOf(disk)
      /\ \A d \in IdsOf(disk) : disk'[d].idx.whole /\ DOMAIN disk'[d] = {"idx", "files"}
  BY <1>1 DEF CloseDir, Index, IdsOf, Inv, Fields, Whole
<1>3. top'.whole /\ IdsOf(Dirs') \subseteq IdsOf(disk)
  <2>1. CASE mem.root
    BY <1>1, <2>1 DEF Inv, Whole, Named, Dirs
  <2>2. CASE ~mem.root
    BY <1>1, <2>2 DEF Inv, Holds, Dirs, Index, Starts, IdsOf
  <2>. QED BY <2>1, <2>2
<1>4. Fields' /\ Rests'
  BY <1>1, <1>2 DEF NoStore, Idle, Fields, Rests
<1>. QED BY <1>1, <1>2, <1>3, <1>4 DEF Inv, Whole, Named

\* The process is killed outside the windows, with whole indexes.
LEMMA CrashInv ==
    ASSUME Inv, Crash, CrashAt \cap Windows = {}
    PROVE  Inv'
<1>1. /\ up /\ op.pc \notin Windows /\ UNCHANGED <<disk, top>>
      /\ ~up' /\ mem' = NoStore /\ op' = Idle
  BY DEF Crash, Ended
<1>. QED BY <1>1 DEF NoStore, Idle, Windows, Dirs, Inv, Fields, Rests, Whole, Named

\* A mount holds the directories that the indexes name.
LEMMA MountInv ==
    ASSUME Inv, Mount
    PROVE  Inv'
<1>1. /\ ~up /\ up' /\ UNCHANGED <<disk, top, op>> /\ op.pc = "idle"
      /\ mem' = Mounted \/ \E c : mem' = Touch(Mounted, c)
  BY DEF Mount, ReadLast, Inv, Rests
<1>2. /\ Mounted.root = (IdsOf(top.starts) = {})
      /\ IdsOf(Mounted.dirs) = IdsOf(Dirs)
      /\ DOMAIN Mounted = {"root", "cur", "total", "dirs"}
  BY DEF Mounted, IdsOf
<1>3. /\ mem'.root = (IdsOf(top.starts) = {}) /\ IdsOf(mem'.dirs) = IdsOf(Dirs)
      /\ DOMAIN mem' = {"root", "cur", "total", "dirs"}
  <2>1. CASE mem' = Mounted
    BY <1>2, <2>1
  <2>2. CASE \E c : mem' = Touch(Mounted, c)
    <3>1. PICK c : mem' = Touch(Mounted, c)
      BY <2>2
    <3>. QED BY <1>2, <3>1 DEF Touch, IdsOf
  <2>. QED BY <1>1, <2>1, <2>2
<1>4. IdsOf(Dirs) \subseteq IdsOf(disk)
  BY <1>1 DEF Inv, Named
<1>5. Holds'
  BY <1>1, <1>3, <1>4 DEF Dirs, Only, IdsOf, Active, Holds
<1>. QED BY <1>1, <1>3, <1>4, <1>5 DEF Dirs, Inv, Fields, Rests, Whole, Named

\* Every step keeps the invariant.
LEMMA StepInv ==
    ASSUME Inv, [Next]_vars, CrashAt \cap Windows = {}
    PROVE  Inv'
<1>1. CASE UNCHANGED vars
  BY <1>1 DEF vars, Dirs, Inv, Fields, Rests, Holds, Whole, Named
<1>. QED BY <1>1, AddBlockInv, RelocateInv, DirectoryInv, IndexInv, ReadInv, CloseInv,
            CrashInv, MountInv DEF Next

\* A ledger can be mounted whenever its process has ended (Restartable), for every
\* size of blocks, files and directories, as many calls and kills as there are, if
\* none of the kills falls between the two writes of an index file or between the
\* move of the root and the save of its new place.
THEOREM LedgerRestartable ==
    ASSUME CrashAt \cap Windows = {}
    PROVE  Spec => []Restartable
<1>1. Inv => Restartable
  BY DEF Inv, Whole, Named, Restartable, Mountable
<1>. QED BY <1>1, InitInv, StepInv, PTL DEF Spec

----------------------------------------------------------------------------
(* Where the blocks of a ledger lie: directories of files of blocks, laid  *)
(* out so that every id below the total has one place.  What the steps of  *)
(* BlockStore do to such a layout, on disk or in memory, is one of the     *)
(* changes the lemmas below speak of.                                      *)

Blocks == {b \in [n : Nat, size : Sizes] : b.n > 0}

\* A directory: its first id, the number of its blocks, where its files begin,
\* counted from its first id, and what they hold.
Lens(dir) == [f \in DOMAIN dir.starts |-> Len(dir.recs[f])]

DirLaidOut(dir) ==
    /\ dir.start \in Nat /\ dir.total \in Nat
    /\ DOMAIN dir.starts \in SUBSET Nat /\ IsFiniteSet(DOMAIN dir.starts)
    /\ dir.starts \in [DOMAIN dir.starts -> Nat]
    /\ \A f \in DOMAIN dir.starts : dir.recs[f] \in Seq(Blocks)
    /\ Tiles(DOMAIN dir.starts, dir.starts, Lens(dir), dir.total)

DirStarts(lay) == [d \in DOMAIN lay |-> lay[d].start]
DirTotals(lay) == [d \in DOMAIN lay |-> lay[d].total]

LaidOut(lay, total) ==
    /\ total \in Nat /\ DOMAIN lay \in SUBSET Nat /\ IsFiniteSet(DOMAIN lay)
    /\ \A d \in DOMAIN lay : DirLaidOut(lay[d])
    /\ Tiles(DOMAIN lay, DirStarts(lay), DirTotals(lay), total)

\* The id of the k-th block of a file.
Place(lay, d, f, k) == lay[d].start + lay[d].starts[f] + k - 1

HasBlock(lay, i, b) ==
    \E d \in DOMAIN lay : \E f \in DOMAIN lay[d].starts :
        \E k \in 1 .. Len(lay[d].recs[f]) :
            i = Place(lay, d, f, k) /\ lay[d].recs[f][k] = b

\* The ids of a directory and, among these, those of one of its files.
InDir(lay, d, i) == lay[d].start <= i /\ i < lay[d].start + lay[d].total
InFile(lay, d, f, i) ==
    LET j == i - lay[d].start
    IN  lay[d].starts[f] <= j /\ j < lay[d].starts[f] + Len(lay[d].recs[f])

----------------------------------------------------------------------------
(* Every id has one place.                                                 *)

\* The place of a block is within its file, its directory and the ledger.
LEMMA PlaceInRange ==
    ASSUME NEW lay, NEW total, LaidOut(lay, total),
           NEW d \in DOMAIN lay, NEW f \in DOMAIN lay[d].starts,
           NEW k \in 1 .. Len(lay[d].recs[f])
    PROVE  /\ Place(lay, d, f, k) \in Nat /\ Place(lay, d, f, k) < total
           /\ InDir(lay, d, Place(lay, d, f, k)) /\ InFile(lay, d, f, Place(lay, d, f, k))
           /\ lay[d].starts[f] \in Nat /\ Len(lay[d].recs[f]) \in Nat
<1> DEFINE dir == lay[d]
<1>1. DirLaidOut(dir) /\ dir.starts[f] \in Nat /\ Len(dir.recs[f]) \in Nat
      /\ dir.start \in Nat /\ dir.total \in Nat
  BY DEF LaidOut, DirLaidOut
<1>2. dir.starts[f] + Len(dir.recs[f]) <= dir.total
  <2>1. Lens(dir) \in [DOMAIN dir.starts -> Nat] /\ Lens(dir)[f] = Len(dir.recs[f])
    BY <1>1 DEF DirLaidOut, Lens
  <2>. QED BY <1>1, <2>1, TilesBound DEF DirLaidOut
<1>3. dir.start + dir.total <= total /\ total \in Nat
  <2>1. /\ DirStarts(lay) \in [DOMAIN lay -> Nat] /\ DirStarts(lay)[d] = dir.start
        /\ DirTotals(lay) \in [DOMAIN lay -> Nat] /\ DirTotals(lay)[d] = dir.total
    BY DEF LaidOut, DirLaidOut, DirStarts, DirTotals
  <2>. QED BY <2>1, TilesBound DEF LaidOut
<1> DEFINE p == Place(lay, d, f, k)
<1>4. p = dir.start + dir.starts[f] + k - 1
  BY DEF Place
<1>5. k \in Nat /\ 1 <= k /\ k <= Len(dir.recs[f])
  BY <1>1
<1> DEFINE s == dir.start
           t == dir.starts[f]
           n == Len(dir.recs[f])
           u == dir.total
<1>6. /\ p \in Nat /\ p < total /\ s <= p /\ p < s + u
      /\ t <= p - s /\ p - s < t + n
  <2>1. s \in Nat /\ t \in Nat /\ n \in Nat /\ u \in Nat /\ total \in Nat
    BY <1>1, <1>3
  <2>2. p = s + t + k - 1 /\ 1 <= k /\ k <= n /\ k \in Nat /\ t + n <= u /\ s + u <= total
    BY <1>2, <1>3, <1>4, <1>5
  <2> HIDE DEF p, s, t, n, u
  <2>. QED BY <2>1, <2>2
<1>7. InDir(lay, d, p) /\ InFile(lay, d, f, p)
  BY <1>6 DEF InDir, InFile
<1>. QED BY <1>1, <1>6, <1>7

\* No id has two places.
LEMMA PlaceUnique ==
    ASSUME NEW lay, NEW total, LaidOut(lay, total), NEW i \in Nat,
           NEW d \in DOMAIN lay, NEW f \in DOMAIN lay[d].starts,
           InDir(lay, d, i), InFile(lay, d, f, i),
           NEW e \in DOMAIN lay, NEW g \in DOMAIN lay[e].starts,
           InDir(lay, e, i), InFile(lay, e, g, i)
    PROVE  d = e /\ f = g
<1>1. d = e
  <2>1. /\ DirStarts(lay) \in [DOMAIN lay -> Nat] /\ DirTotals(lay) \in [DOMAIN lay -> Nat]
        /\ \A c \in DOMAIN lay : /\ DirStarts(lay)[c] = lay[c].start
                                 /\ DirTotals(lay)[c] = lay[c].total
    BY DEF LaidOut, DirLaidOut, DirStarts, DirTotals
  <2>. QED BY <2>1, TilesUnique DEF LaidOut, InDir
<1> DEFINE dir == lay[d]
           j   == i - dir.start
<1>2. DirLaidOut(dir)
  BY DEF LaidOut
<1>3. /\ Lens(dir) \in [DOMAIN dir.starts -> Nat]
      /\ \A h \in DOMAIN dir.starts : Lens(dir)[h] = Len(dir.recs[h])
  BY <1>2 DEF DirLaidOut, Lens
<1>4. /\ dir.starts[f] <= j /\ j < dir.starts[f] + Lens(dir)[f]
      /\ dir.starts[g] <= j /\ j < dir.starts[g] + Lens(dir)[g]
      /\ f \in DOMAIN dir.starts /\ g \in DOMAIN dir.starts
  BY <1>1, <1>3 DEF InFile
<1>5. j \in Nat
  BY <1>2 DEF InDir, DirLaidOut
<1> HIDE DEF dir, j
<1>6. f = g
  BY <1>2, <1>3, <1>4, <1>5, TilesUnique DEF DirLaidOut
<1>. QED BY <1>1, <1>6

\* Every id below the total has a place, and a block in it.
LEMMA PlaceExists ==
    ASSUME NEW lay, NEW total, LaidOut(lay, total), NEW i \in Nat, i < total
    PROVE  \E d \in DOMAIN lay : \E f \in DOMAIN lay[d].starts :
              InDir(lay, d, i) /\ InFile(lay, d, f, i)
<1>1. PICK d \in DOMAIN lay : DirStarts(lay)[d] <= i /\ i < DirStarts(lay)[d] + DirTotals(lay)[d]
  BY DEF LaidOut, Tiles
<1>2. InDir(lay, d, i)
  BY <1>1 DEF InDir, DirStarts, DirTotals
<1> DEFINE dir == lay[d]
           j   == i - dir.start
<1>3. DirLaidOut(dir)
  BY DEF LaidOut
<1>4. j \in 0 .. dir.total - 1
  BY <1>2, <1>3 DEF InDir, DirLaidOut
<1>5. PICK f \in DOMAIN dir.starts : dir.starts[f] <= j /\ j < dir.starts[f] + Lens(dir)[f]
  <2> HIDE DEF dir, j
  <2>. QED BY <1>3, <1>4 DEF DirLaidOut, Tiles
<1>6. InFile(lay, d, f, i)
  BY <1>5 DEF InFile, Lens
<1>. QED BY <1>2, <1>6

\* The place of an id in a file, as a position.
LEMMA InFileHas ==
    ASSUME NEW lay, NEW total, LaidOut(lay, total), NEW i \in Nat,
           NEW d \in DOMAIN lay, NEW f \in DOMAIN lay[d].starts, InFile(lay, d, f, i)
    PROVE  LET k == i - lay[d].start - lay[d].starts[f] + 1
           IN  /\ k \in 1 .. Len(lay[d].recs[f]) /\ i = Place(lay, d, f, k)
               /\ lay[d].recs[f][k] \in Blocks
               /\ HasBlock(lay, i, lay[d].recs[f][k])
<1> DEFINE k == i - lay[d].start - lay[d].starts[f] + 1
<1>1. /\ lay[d].start \in Nat /\ lay[d].starts[f] \in Nat
      /\ lay[d].recs[f] \in Seq(Blocks)
  BY DEF LaidOut, DirLaidOut
<1>2. k \in 1 .. Len(lay[d].recs[f]) /\ i = Place(lay, d, f, k)
  BY <1>1 DEF InFile, Place
<1>. QED BY <1>1, <1>2 DEF HasBlock

\* What an id has is determined.
LEMMA HasOne ==
    ASSUME NEW lay, NEW total, LaidOut(lay, total), NEW i, NEW b, HasBlock(lay, i, b),
           NEW d \in DOMAIN lay, NEW f \in DOMAIN lay[d].starts,
           i \in Nat, InDir(lay, d, i), InFile(lay, d, f, i)
    PROVE  lay[d].recs[f][i - lay[d].start - lay[d].starts[f] + 1] = b
<1>0. PICK e \in DOMAIN lay : \E g \in DOMAIN lay[e].starts :
          \E k \in 1 .. Len(lay[e].recs[g]) : i = Place(lay, e, g, k) /\ lay[e].recs[g][k] = b
  BY DEF HasBlock
<1>1. PICK g \in DOMAIN lay[e].starts : \E k \in 1 .. Len(lay[e].recs[g]) :
          i = Place(lay, e, g, k) /\ lay[e].recs[g][k] = b
  BY <1>0
<1>5. PICK k \in 1 .. Len(lay[e].recs[g]) : i = Place(lay, e, g, k) /\ lay[e].recs[g][k] = b
  BY <1>1
<1>2. d = e /\ f = g
  BY <1>5, PlaceInRange, PlaceUnique
<1>3. lay[d].start \in Nat /\ lay[d].starts[f] \in Nat /\ k \in Int
  BY <1>2 DEF LaidOut, DirLaidOut
<1>4. i - lay[d].start - lay[d].starts[f] + 1 = k
  BY <1>2, <1>3, <1>5 DEF Place
<1>. QED BY <1>2, <1>4, <1>5

\* Two answers to one id are one block.
LEMMA HasSame ==
    ASSUME NEW lay, NEW total, LaidOut(lay, total), NEW i, NEW b, HasBlock(lay, i, b),
           NEW c, HasBlock(lay, i, c)
    PROVE  b = c /\ i \in Nat /\ i < total
<1>0. PICK d \in DOMAIN lay : \E f \in DOMAIN lay[d].starts :
          \E k \in 1 .. Len(lay[d].recs[f]) : i = Place(lay, d, f, k)
  BY DEF HasBlock
<1>1. PICK f \in DOMAIN lay[d].starts :
          \E k \in 1 .. Len(lay[d].recs[f]) : i = Place(lay, d, f, k)
  BY <1>0
<1>2. PICK k \in 1 .. Len(lay[d].recs[f]) : i = Place(lay, d, f, k)
  BY <1>1
<1>3. i \in Nat /\ i < total /\ InDir(lay, d, i) /\ InFile(lay, d, f, i)
  BY <1>2, PlaceInRange
<1>. QED BY <1>3, HasOne

----------------------------------------------------------------------------
(* Layouts that grow and shrink.                                           *)

\* What is in the first layout is in the second, at the same place.
Extends(lay, more) ==
    \A d \in DOMAIN lay :
        /\ d \in DOMAIN more /\ more[d].start = lay[d].start
        /\ \A f \in DOMAIN lay[d].starts :
              /\ f \in DOMAIN more[d].starts /\ more[d].starts[f] = lay[d].starts[f]
              /\ \A k \in 1 .. Len(lay[d].recs[f]) :
                    k \in 1 .. Len(more[d].recs[f]) /\ more[d].recs[f][k] = lay[d].recs[f][k]

\* A block of a layout is in every layout that extends it.
LEMMA HasMore ==
    ASSUME NEW lay, NEW more, Extends(lay, more), NEW i, NEW b, HasBlock(lay, i, b)
    PROVE  HasBlock(more, i, b)
<1>0. PICK d \in DOMAIN lay : \E f \in DOMAIN lay[d].starts :
          \E k \in 1 .. Len(lay[d].recs[f]) : i = Place(lay, d, f, k) /\ lay[d].recs[f][k] = b
  BY DEF HasBlock
<1>1. PICK f \in DOMAIN lay[d].starts :
          \E k \in 1 .. Len(lay[d].recs[f]) : i = Place(lay, d, f, k) /\ lay[d].recs[f][k] = b
  BY <1>0
<1>2. PICK k \in 1 .. Len(lay[d].recs[f]) : i = Place(lay, d, f, k) /\ lay[d].recs[f][k] = b
  BY <1>1
<1>3. /\ d \in DOMAIN more /\ f \in DOMAIN more[d].starts /\ k \in 1 .. Len(more[d].recs[f])
      /\ i = Place(more, d, f, k) /\ more[d].recs[f][k] = b
  BY <1>2 DEF Extends, Place
<1>. QED BY <1>3 DEF HasBlock

\* An id that a smaller layout has too has the same block there.
LEMMA HasLess ==
    ASSUME NEW lay, NEW total, LaidOut(lay, total), NEW less, NEW low, LaidOut(less, low),
           Extends(less, lay), NEW i, i < low, NEW b, HasBlock(lay, i, b)
    PROVE  HasBlock(less, i, b)
<1>1. i \in Nat
  BY HasSame
<1>2. PICK d \in DOMAIN less : \E f \in DOMAIN less[d].starts :
          InDir(less, d, i) /\ InFile(less, d, f, i)
  BY <1>1, PlaceExists
<1>3. PICK f \in DOMAIN less[d].starts : InDir(less, d, i) /\ InFile(less, d, f, i)
  BY <1>2
<1>4. PICK c : HasBlock(less, i, c)
  BY <1>1, <1>3, InFileHas
<1>5. HasBlock(lay, i, c)
  BY <1>4, HasMore
<1>. QED BY <1>4, <1>5, HasSame

\* The last directory changes.
LEMMA LastDirChanges ==
    ASSUME NEW lay, NEW total, LaidOut(lay, total),
           NEW d \in DOMAIN lay, \A e \in DOMAIN lay : e <= d,
           NEW new, DOMAIN new = DOMAIN lay, \A e \in DOMAIN lay \ {d} : new[e] = lay[e],
           DirLaidOut(new[d]), new[d].start = lay[d].start
    PROVE  /\ LaidOut(new, lay[d].start + new[d].total)
           /\ lay[d].start + lay[d].total = total
<1> DEFINE D == DOMAIN lay
           st == DirStarts(lay)
           ln == DirTotals(lay)
           st2 == DirStarts(new)
           ln2 == DirTotals(new)
<1>1. /\ \A a \in D : st[a] \in Nat /\ ln[a] \in Nat
      /\ st[d] = lay[d].start /\ ln[d] = lay[d].total
      /\ \A a \in D : st2[a] = st[a]
      /\ \A a \in D \ {d} : ln2[a] = ln[a]
      /\ ln2[d] \in Nat /\ ln2[d] = new[d].total
  BY DEF LaidOut, DirLaidOut, DirStarts, DirTotals
<1>2. D \in SUBSET Nat /\ total \in Nat /\ Tiles(D, st, ln, total)
  BY DEF LaidOut
<1> HIDE DEF D, st, ln, st2, ln2
<1>3. Tiles(D, st2, ln2, st[d] + ln2[d])
  BY <1>1, <1>2, TilesEnd, ZenonT(60) DEF D
<1>4. st[d] + ln[d] = total
  BY <1>2 DEF Tiles, D
<1>5. \A e \in DOMAIN new : DirLaidOut(new[e])
  BY DEF LaidOut
<1>6. lay[d].start + new[d].total \in Nat
  BY DEF LaidOut, DirLaidOut
<1>. QED BY <1>1, <1>2, <1>3, <1>4, <1>5, <1>6 DEF LaidOut, D, st2, ln2

\* An empty directory after the last.
LEMMA AddDir ==
    ASSUME NEW lay, NEW total, LaidOut(lay, total),
           NEW c \in Nat, \A e \in DOMAIN lay : e < c,
           NEW new, DOMAIN new = DOMAIN lay \cup {c}, \A e \in DOMAIN lay : new[e] = lay[e],
           new[c].start = total, new[c].total = 0, new[c].starts = [x \in {} |-> 0]
    PROVE  LaidOut(new, total) /\ Extends(lay, new)
<1>1. DirLaidOut(new[c])
  <2>1. DOMAIN new[c].starts = {} /\ total \in Nat
    BY DEF LaidOut
  <2>2. new[c].starts \in [DOMAIN new[c].starts -> Nat]
    BY <2>1
  <2>3. Tiles({}, new[c].starts, Lens(new[c]), 0)
    BY DEF Tiles
  <2>. QED BY <2>1, <2>2, <2>3, FS_EmptySet DEF DirLaidOut
<1>2. \A e \in DOMAIN new : DirLaidOut(new[e])
  BY <1>1 DEF LaidOut
<1> DEFINE D == DOMAIN lay
           st == DirStarts(lay)
           ln == DirTotals(lay)
           st2 == DirStarts(new)
           ln2 == DirTotals(new)
           E == DOMAIN new
<1>3. st2 \in [E -> Nat] /\ ln2 \in [E -> Nat] /\ st2[c] = total /\ ln2[c] = 0
  BY <1>2 DEF LaidOut, DirLaidOut, DirStarts, DirTotals
<1>4. D \in SUBSET Nat /\ IsFiniteSet(D) /\ total \in Nat /\ Tiles(D, st, ln, total)
  BY DEF LaidOut
<1>5. (\A a \in D : st2[a] = st[a] /\ ln2[a] = ln[a]) /\ D = E \ {c}
  <2>1. c \notin D
    BY <1>4
  <2>2. D = E \ {c}
    BY <2>1
  <2>3. \A a \in D : st2[a] = st[a] /\ ln2[a] = ln[a]
    BY DEF DirStarts, DirTotals
  <2>. QED BY <2>2, <2>3
<1>6. Tiles(E \ {c}, st2, ln2, total)
  <2> HIDE DEF st, ln, st2, ln2, D, E
  <2>. QED BY <1>4, <1>5 DEF Tiles
<1>7. IsFiniteSet(E) /\ E \in SUBSET Nat /\ c \in E /\ \A a \in E : a <= c
  BY <1>4, FS_AddElement
<1>9. Tiles(E, st2, ln2, total)
  <2> HIDE DEF st, ln, st2, ln2, D, E
  <2>. QED BY <1>3, <1>4, <1>6, <1>7, TilesAdd
<1>8. Extends(lay, new)
  BY DEF Extends
<1>. QED BY <1>2, <1>4, <1>7, <1>8, <1>9 DEF LaidOut

\* The last directory goes.
LEMMA DropDir ==
    ASSUME NEW lay, NEW total, LaidOut(lay, total),
           NEW c \in DOMAIN lay, \A e \in DOMAIN lay : e <= c,
           NEW new, DOMAIN new = DOMAIN lay \ {c}, \A e \in DOMAIN new : new[e] = lay[e]
    PROVE  LaidOut(new, lay[c].start) /\ Extends(new, lay)
<1> DEFINE D == DOMAIN lay
           st == DirStarts(lay)
           ln == DirTotals(lay)
           st2 == DirStarts(new)
           ln2 == DirTotals(new)
<1>1. /\ D \in SUBSET Nat /\ IsFiniteSet(D) /\ total \in Nat /\ Tiles(D, st, ln, total)
      /\ st \in [D -> Nat] /\ ln \in [D -> Nat] /\ st[c] = lay[c].start
      /\ \A a \in D \ {c} : st2[a] = st[a] /\ ln2[a] = ln[a]
  BY DEF LaidOut, DirLaidOut, DirStarts, DirTotals
<1>2. (\A a \in D : a <= c) /\ c \in D
  OBVIOUS
<1> HIDE DEF st, ln, st2, ln2
<1>3. Tiles(D \ {c}, st, ln, st[c])
  <2> HIDE DEF D
  <2>. QED BY <1>1, <1>2, TilesDrop
<1>4. Tiles(D \ {c}, st2, ln2, st[c])
  <2> HIDE DEF D
  <2>. QED BY <1>1, <1>3 DEF Tiles
<1>5. IsFiniteSet(D \ {c}) /\ st[c] \in Nat
  BY <1>1, FS_RemoveElement
<1>6. Extends(new, lay)
  BY DEF Extends
<1>7. \A e \in DOMAIN new : DirLaidOut(new[e])
  BY DEF LaidOut
<1>. QED BY <1>1, <1>4, <1>5, <1>6, <1>7 DEF LaidOut, st2, ln2

\* An empty file after the last of the last directory.
LEMMA AddFile ==
    ASSUME NEW lay, NEW total, LaidOut(lay, total),
           NEW d \in DOMAIN lay, \A e \in DOMAIN lay : e <= d,
           NEW f \in Nat, \A g \in DOMAIN lay[d].starts : g < f,
           NEW new, DOMAIN new = DOMAIN lay, \A e \in DOMAIN lay \ {d} : new[e] = lay[e],
           new[d].start = lay[d].start, new[d].total = lay[d].total,
           new[d].starts = With(lay[d].starts, f, lay[d].total),
           \A g \in DOMAIN lay[d].starts : new[d].recs[g] = lay[d].recs[g],
           new[d].recs[f] = <<>>
    PROVE  LaidOut(new, total) /\ Extends(lay, new)
<1> DEFINE dir == lay[d]
           nxt == new[d]
           D   == DOMAIN dir.starts
           E   == DOMAIN nxt.starts
<1>1. DirLaidOut(dir)
  BY DEF LaidOut
<1>2. /\ E = D \cup {f} /\ f \notin D /\ D = E \ {f}
      /\ \A g \in D : nxt.starts[g] = dir.starts[g]
      /\ nxt.starts[f] = dir.total
  <2>1. f \notin D /\ D \in SUBSET Nat
    BY <1>1 DEF DirLaidOut
  <2>2. nxt.starts = With(dir.starts, f, dir.total)
    OBVIOUS
  <2>3. E = D \cup {f}
    BY <2>2 DEF With, IdsOf
  <2>4. nxt.starts[f] = dir.total /\ \A g \in D : g # f => nxt.starts[g] = dir.starts[g]
    BY <2>2 DEF With, IdsOf
  <2> HIDE DEF D, E
  <2>. QED BY <2>1, <2>3, <2>4
<1>3. /\ E \in SUBSET Nat /\ IsFiniteSet(E) /\ nxt.start \in Nat /\ nxt.total \in Nat
      /\ f \in E /\ \A g \in E : g <= f
  <2>1. IsFiniteSet(D) /\ D \in SUBSET Nat /\ \A g \in D : g < f
    BY <1>1 DEF DirLaidOut
  <2>2. IsFiniteSet(E)
    <3> HIDE DEF D, E
    <3>1. IsFiniteSet(D \cup {f})
      BY <2>1, FS_AddElement
    <3>. QED BY <1>2, <3>1
  <2>3. nxt.start \in Nat /\ nxt.total \in Nat
    BY <1>1 DEF DirLaidOut
  <2>4. E \in SUBSET Nat /\ f \in E /\ \A g \in E : g <= f
    <3> HIDE DEF D, E
    <3>. QED BY <1>2, <2>1
  <2>. QED BY <2>2, <2>3, <2>4
<1>4. nxt.starts \in [E -> Nat]
  BY <1>1, <1>2 DEF DirLaidOut, With, IdsOf
<1>5. \A g \in E : nxt.recs[g] \in Seq(Blocks)
  <2>1. (\A g \in D : nxt.recs[g] \in Seq(Blocks)) /\ nxt.recs[f] = <<>>
    BY <1>1 DEF DirLaidOut
  <2>2. <<>> \in Seq(Blocks)
    OBVIOUS
  <2> HIDE DEF D, E, nxt
  <2>. QED BY <1>2, <2>1, <2>2
<1>6. /\ Lens(nxt) \in [E -> Nat] /\ Lens(nxt)[f] = 0
      /\ \A g \in D : Lens(nxt)[g] = Lens(dir)[g]
  BY <1>2, <1>5 DEF Lens
<1>7. Tiles(D, dir.starts, Lens(dir), dir.total)
  BY <1>1 DEF DirLaidOut
<1>8. Tiles(E \ {f}, nxt.starts, Lens(nxt), nxt.total)
  <2> HIDE DEF D, E
  <2>. QED BY <1>2, <1>6, <1>7 DEF Tiles
<1>9. Tiles(E, nxt.starts, Lens(nxt), nxt.total)
  <2> HIDE DEF D, E
  <2>. QED BY <1>2, <1>3, <1>4, <1>6, <1>8, TilesAdd
<1>10. DirLaidOut(nxt)
  BY <1>3, <1>4, <1>5, <1>9 DEF DirLaidOut
<1>11. LaidOut(new, total)
  <2>1. /\ LaidOut(new, lay[d].start + new[d].total)
        /\ lay[d].start + lay[d].total = total
    BY <1>10, LastDirChanges
  <2>. QED BY <2>1
<1>12. Extends(lay, new)
  BY <1>2 DEF Extends
<1>. QED BY <1>11, <1>12

\* What Append does to a sequence, in one place for the provers.
LEMMA AppendFacts ==
    ASSUME NEW S, NEW seq \in Seq(S), NEW b \in S
    PROVE  /\ Append(seq, b) \in Seq(S) /\ Len(seq) \in Nat
           /\ Len(Append(seq, b)) = Len(seq) + 1
           /\ Append(seq, b)[Len(seq) + 1] = b
           /\ \A k \in 1 .. Len(seq) : Append(seq, b)[k] = seq[k]
OBVIOUS

\* Where the last file ends when it grows by a record.
LEMMA EndMoves ==
    ASSUME NEW s \in Nat, NEW n \in Nat, NEW t \in Nat, NEW len, NEW t2,
           s + n = t, len = n + 1, t2 = t + 1
    PROVE  s + len = t2
OBVIOUS

\* A block at the end of the last file.
LEMMA AppendBlock ==
    ASSUME NEW lay, NEW total, LaidOut(lay, total),
           NEW d \in DOMAIN lay, \A e \in DOMAIN lay : e <= d,
           NEW f \in DOMAIN lay[d].starts, \A g \in DOMAIN lay[d].starts : g <= f,
           NEW new, DOMAIN new = DOMAIN lay, \A e \in DOMAIN lay \ {d} : new[e] = lay[e],
           new[d].start = lay[d].start, new[d].total = lay[d].total + 1,
           new[d].starts = lay[d].starts,
           \A g \in DOMAIN lay[d].starts \ {f} : new[d].recs[g] = lay[d].recs[g],
           NEW b \in Blocks, new[d].recs[f] = Append(lay[d].recs[f], b)
    PROVE  LaidOut(new, total + 1) /\ Extends(lay, new) /\ HasBlock(new, total, b)
<1> DEFINE dir == lay[d]
           nxt == new[d]
           D   == DOMAIN dir.starts
           n   == Len(dir.recs[f])
<1>1. DirLaidOut(dir)
  BY DEF LaidOut
<1>2. /\ D \in SUBSET Nat /\ nxt.start \in Nat /\ nxt.total \in Nat /\ dir.total \in Nat
      /\ nxt.starts = dir.starts /\ dir.starts \in [D -> Nat]
      /\ f \in D /\ (\A g \in D : g <= f)
  BY <1>1 DEF DirLaidOut
<1>3. /\ \A g \in D : nxt.recs[g] \in Seq(Blocks)
      /\ n \in Nat /\ Len(nxt.recs[f]) = n + 1 /\ nxt.recs[f][n + 1] = b
      /\ \A k \in 1 .. n : nxt.recs[f][k] = dir.recs[f][k]
  <2>1. /\ \A g \in D : dir.recs[g] \in Seq(Blocks)
        /\ nxt.recs[f] = Append(dir.recs[f], b)
        /\ \A g \in D \ {f} : nxt.recs[g] = dir.recs[g]
    BY <1>1 DEF DirLaidOut
  <2>2. dir.recs[f] \in Seq(Blocks) /\ b \in Blocks
    BY <1>2, <2>1
  <2> DEFINE old == dir.recs[f]
             rec == nxt.recs[f]
  <2>3. /\ rec \in Seq(Blocks) /\ Len(old) \in Nat /\ Len(rec) = Len(old) + 1
        /\ rec[Len(old) + 1] = b /\ \A k \in 1 .. Len(old) : rec[k] = old[k]
    <3>1. rec = Append(old, b) /\ old \in Seq(Blocks)
      BY <2>1, <2>2
    <3> HIDE DEF old, rec
    <3>. QED BY <3>1, AppendFacts
  <2>4. \A g \in D : nxt.recs[g] \in Seq(Blocks)
    <3> HIDE DEF D, dir, nxt
    <3>. QED BY <2>1, <2>3
  <2>. QED BY <2>3, <2>4
<1>4. /\ \A g \in D : Lens(dir)[g] \in Nat
      /\ \A g \in D \ {f} : Lens(nxt)[g] = Lens(dir)[g]
      /\ Lens(nxt)[f] = n + 1 /\ Lens(dir)[f] = n
  <2>1. /\ \A g \in D : Lens(dir)[g] = Len(dir.recs[g])
        /\ \A g \in D : Lens(nxt)[g] = Len(nxt.recs[g])
    BY <1>2 DEF Lens
  <2>2. /\ \A g \in D : dir.recs[g] \in Seq(Blocks)
        /\ \A g \in D \ {f} : nxt.recs[g] = dir.recs[g]
    BY <1>1 DEF DirLaidOut
  <2>3. Lens(nxt)[f] = n + 1 /\ Lens(dir)[f] = n
    BY <1>2, <1>3, <2>1
  <2> HIDE DEF D, dir, nxt, n
  <2>4. \A g \in D \ {f} : Lens(nxt)[g] = Lens(dir)[g]
    BY <2>1, <2>2
  <2>5. \A g \in D : Lens(dir)[g] \in Nat
    BY <2>1, <2>2
  <2>. QED BY <2>3, <2>4, <2>5
<1>5. Tiles(D, dir.starts, Lens(dir), dir.total)
  BY <1>1 DEF DirLaidOut
<1>6. dir.starts[f] + n = dir.total
  BY <1>2, <1>4, <1>5 DEF Tiles
<1>7. Tiles(D, nxt.starts, Lens(nxt), nxt.total)
  <2>1. \A g \in D : dir.starts[g] \in Nat /\ Lens(dir)[g] \in Nat
    BY <1>2, <1>4
  <2>2. (\A g \in D : nxt.starts[g] = dir.starts[g]) /\ Lens(nxt)[f] \in Nat
    BY <1>2, <1>3, <1>4
  <2>3. dir.starts[f] + Lens(nxt)[f] = nxt.total
    <3>1. /\ nxt.total = dir.total + 1 /\ Lens(nxt)[f] = n + 1
          /\ dir.starts[f] + n = dir.total
          /\ n \in Nat /\ dir.total \in Nat /\ dir.starts[f] \in Nat
      BY <1>2, <1>3, <1>4, <1>6, <2>1
    <3> DEFINE s   == dir.starts[f]
               len == Lens(nxt)[f]
               t   == dir.total
               t2  == nxt.total
    <3>2. /\ s \in Nat /\ n \in Nat /\ t \in Nat
          /\ s + n = t /\ len = n + 1 /\ t2 = t + 1
      BY <3>1
    <3> HIDE DEF dir, nxt, D, n, s, len, t, t2
    <3>3. s + len = t2
      BY <3>2, EndMoves
    <3>. QED BY <3>3 DEF s, len, t2
  <2>4. Tiles(D, nxt.starts, Lens(nxt), dir.starts[f] + Lens(nxt)[f])
    <3> DEFINE st  == dir.starts
               ln  == Lens(dir)
               st2 == nxt.starts
               ln2 == Lens(nxt)
               t   == dir.total
    <3>1. /\ D \in SUBSET Nat /\ t \in Nat /\ Tiles(D, st, ln, t)
          /\ f \in D /\ (\A g \in D : g <= f)
          /\ \A g \in D : st[g] \in Nat /\ ln[g] \in Nat
          /\ \A g \in D : st2[g] = st[g]
          /\ \A g \in D \ {f} : ln2[g] = ln[g]
          /\ ln2[f] \in Nat
      BY <1>2, <1>4, <1>5, <2>1, <2>2
    <3> HIDE DEF D, n, st, ln, st2, ln2, t
    <3>2. Tiles(D, st2, ln2, st[f] + ln2[f])
      BY <3>1, TilesEnd, ZenonT(60)
    <3>. QED BY <3>2 DEF st, ln2, st2
  <2>. QED BY <2>3, <2>4
<1>8. DirLaidOut(nxt)
  BY <1>1, <1>2, <1>3, <1>7 DEF DirLaidOut
<1>9. /\ LaidOut(new, dir.start + nxt.total)
      /\ dir.start + dir.total = total
  BY <1>8, LastDirChanges
<1>10. LaidOut(new, total + 1)
  <2>1. dir.start + (dir.total + 1) = total + 1
    BY <1>1, <1>9 DEF DirLaidOut
  <2>. QED BY <1>9, <2>1
<1>11. Extends(lay, new)
  <2>1. Len(new[d].recs[f]) = Len(lay[d].recs[f]) + 1 /\ Len(lay[d].recs[f]) \in Nat
    BY <1>3
  <2>2. ASSUME NEW k \in 1 .. Len(lay[d].recs[f])
        PROVE  k \in 1 .. Len(new[d].recs[f]) /\ new[d].recs[f][k] = lay[d].recs[f][k]
    BY <1>3, <2>1
  <2>3. \A g \in DOMAIN lay[d].starts : g = f \/ new[d].recs[g] = lay[d].recs[g]
    OBVIOUS
  <2> HIDE DEF D, n, dir, nxt
  <2>. QED BY <2>2, <2>3 DEF Extends
<1>12. HasBlock(new, total, b)
  <2>1. Place(new, d, f, n + 1) = total
    BY <1>1, <1>2, <1>3, <1>6, <1>9, SMTT(30) DEF Place, DirLaidOut
  <2>2. n + 1 \in 1 .. Len(new[d].recs[f]) /\ d \in DOMAIN new /\ f \in DOMAIN new[d].starts
    BY <1>3
  <2>. QED BY <1>3, <2>1, <2>2 DEF HasBlock
<1>. QED BY <1>10, <1>11, <1>12

\* The last file of the last directory goes.
LEMMA DropFile ==
    ASSUME NEW lay, NEW total, LaidOut(lay, total),
           NEW d \in DOMAIN lay, \A e \in DOMAIN lay : e <= d,
           NEW f \in DOMAIN lay[d].starts, \A g \in DOMAIN lay[d].starts : g <= f,
           NEW new, DOMAIN new = DOMAIN lay, \A e \in DOMAIN lay \ {d} : new[e] = lay[e],
           new[d].start = lay[d].start, new[d].total = lay[d].starts[f],
           new[d].starts = [g \in DOMAIN lay[d].starts \ {f} |-> lay[d].starts[g]],
           \A g \in DOMAIN lay[d].starts \ {f} : new[d].recs[g] = lay[d].recs[g]
    PROVE  LaidOut(new, lay[d].start + lay[d].starts[f]) /\ Extends(new, lay)
<1> DEFINE dir == lay[d]
           nxt == new[d]
           D   == DOMAIN dir.starts
           E   == DOMAIN nxt.starts
<1>1. DirLaidOut(dir)
  BY DEF LaidOut
<1>2. /\ E = D \ {f}
      /\ \A g \in E : nxt.starts[g] = dir.starts[g]
      /\ nxt.starts \in [E -> Nat]
  BY <1>1 DEF DirLaidOut
<1>3. /\ E \in SUBSET Nat /\ IsFiniteSet(E) /\ nxt.start \in Nat /\ nxt.total \in Nat
  <2>1. IsFiniteSet(D) /\ D \in SUBSET Nat
    BY <1>1 DEF DirLaidOut
  <2>2. IsFiniteSet(E)
    BY <1>2, <2>1, FS_RemoveElement
  <2>. QED BY <1>1, <1>2, <2>1, <2>2 DEF DirLaidOut
<1>4. /\ \A g \in E : nxt.recs[g] \in Seq(Blocks)
      /\ \A g \in E : Lens(nxt)[g] = Lens(dir)[g]
      /\ Lens(dir) \in [D -> Nat] /\ f \in D /\ \A g \in D : g <= f
  BY <1>1, <1>2, SMTT(30) DEF DirLaidOut, Lens
<1>5. /\ Tiles(D, dir.starts, Lens(dir), dir.total)
      /\ D \in SUBSET Nat /\ dir.total \in Nat /\ dir.starts \in [D -> Nat]
  BY <1>1 DEF DirLaidOut
<1>6. Tiles(D \ {f}, dir.starts, Lens(dir), dir.starts[f])
  <2> HIDE DEF D
  <2>. QED BY <1>4, <1>5, TilesDrop
<1>7. Tiles(E, nxt.starts, Lens(nxt), nxt.total)
  <2>1. Tiles(E, dir.starts, Lens(dir), nxt.total)
    BY <1>2, <1>6
  <2> HIDE DEF D, E
  <2>. QED BY <1>2, <1>4, <2>1 DEF Tiles
<1>8. DirLaidOut(nxt)
  BY <1>2, <1>3, <1>4, <1>7 DEF DirLaidOut
<1>9. LaidOut(new, dir.start + nxt.total)
  BY <1>8, LastDirChanges
<1>10. Extends(new, lay)
  BY <1>2 DEF Extends
<1>. QED BY <1>9, <1>10

\* The only directory takes another number.
LEMMA RenameDir ==
    ASSUME NEW lay, NEW total, LaidOut(lay, total), NEW a, DOMAIN lay = {a},
           NEW b \in Nat, NEW new, DOMAIN new = {b}, new[b] = lay[a]
    PROVE  /\ LaidOut(new, total)
           /\ \A i, x : HasBlock(lay, i, x) => HasBlock(new, i, x)
<1>1. DirLaidOut(new[b]) /\ total \in Nat /\ a \in Nat
  BY DEF LaidOut
<1>2. Tiles({b}, DirStarts(new), DirTotals(new), total)
  <2>1. Tiles({a}, DirStarts(lay), DirTotals(lay), total)
    BY DEF LaidOut
  <2>2. /\ DirStarts(new)[b] = DirStarts(lay)[a] /\ DirTotals(new)[b] = DirTotals(lay)[a]
    BY DEF DirStarts, DirTotals
  <2>. QED BY <1>1, <2>1, <2>2 DEF Tiles
<1>3. IsFiniteSet({b})
  BY FS_Singleton
<1>4. ASSUME NEW i, NEW x, HasBlock(lay, i, x) PROVE HasBlock(new, i, x)
  BY <1>4 DEF HasBlock, Place
<1>. QED BY <1>1, <1>2, <1>3, <1>4 DEF LaidOut

----------------------------------------------------------------------------
(* The layouts of a process and of the disk.                               *)

\* The points of addBlock after the block is on the disk.
After == {"header", "index", "emptied", "topindex", "topemptied", "stored"}

\* The layout a process has in memory; a block that is on the disk counts.
MemLayout ==
    [d \in IdsOf(mem.dirs) |->
       [start  |-> mem.dirs[d].start,
        total  |-> mem.dirs[d].total + (IF op.pc = "header" /\ d = op.dir THEN 1 ELSE 0),
        starts |-> Starts(mem.dirs[d].files),
        recs   |-> [f \in IdsOf(mem.dirs[d].files) |-> disk[d].files[f].recs]]]

MemTotal == mem.total + (IF op.pc \in {"header", "index", "emptied"} THEN 1 ELSE 0)

\* The ids below are settled: the last block may be that of the call.
Settled == IF op.pc \in After THEN MemTotal - 1 ELSE MemTotal

\* The layout the next process will find on the disk.
SavedLayout ==
    [d \in IdsOf(Dirs) |->
       [start  |-> Dirs[d],
        total  |-> CountBlocks(disk[d], IdsOf(disk[d].idx.starts)),
        starts |-> disk[d].idx.starts,
        recs   |-> [f \in IdsOf(disk[d].idx.starts) |-> disk[d].files[f].recs]]]

SavedTotal == SumFunction([d \in IdsOf(Dirs) |-> SavedLayout[d].total])

Acked(lay, bound) ==
    \A i \in IdsOf(acked) : i < bound /\ HasBlock(lay, i, acked[i])

FilesOK ==
    /\ top.starts = [d \in IdsOf(top.starts) |-> top.starts[d]]
    /\ \A d \in IdsOf(disk) : \A f \in IdsOf(disk[d].files) :
          /\ DOMAIN disk[d].files[f] = {"hdr", "recs"}
          /\ disk[d].files[f].recs \in Seq(Blocks)
          /\ \/ disk[d].files[f].hdr = Len(disk[d].files[f].recs)
             \/ up /\ op.pc = "header" /\ d = op.dir /\ f = activeDir.cur

LastDir == IF mem.root THEN Root ELSE mem.cur

MemFileOK(d, f) ==
    LET m == mem.dirs[d].files[f]
    IN  /\ DOMAIN m = {"start", "count", "built", "skip"}
        /\ f <= mem.dirs[d].cur /\ f \in IdsOf(disk[d].files)
        /\ m.count = Len(disk[d].files[f].recs) /\ m.skip = 0

MemOK ==
    /\ mem.root \in BOOLEAN /\ mem.cur \in Nat /\ mem.total \in Nat
    /\ \A d \in IdsOf(mem.dirs) :
          /\ DOMAIN mem.dirs[d] = {"start", "cur", "total", "files"}
          /\ mem.dirs[d].cur \in Nat /\ mem.dirs[d].total \in Nat
          /\ \A f \in IdsOf(mem.dirs[d].files) : MemFileOK(d, f)
    /\ IF mem.root THEN IdsOf(mem.dirs) = {Root} /\ mem.dirs[Root].start = 0
       ELSE \A d \in IdsOf(mem.dirs) : d <= mem.cur

\* The file that is written to next has an index, or no blocks.
Indexed(d, f) == mem.dirs[d].files[f].built \/ disk[d].files[f].recs = <<>>

BuiltOK ==
    \A d \in IdsOf(mem.dirs) : d = LastDir /\ DirFits(d) =>
        \A f \in IdsOf(mem.dirs[d].files) :
            (\A g \in IdsOf(mem.dirs[d].files) : g <= f) => Indexed(d, f)

OpOK ==
    /\ op.pc \in {"idle", "route", "relocated"} \cup Active
    /\ op.pc # "idle" => op.blk \in Blocks
    /\ op.pc \in Active => op.dir = LastDir
    /\ op.pc \in {"write", "header", "index", "emptied"} => activeDir.cur \in IdsOf(activeDir.files)
    /\ op.pc = "open" => DirFits(op.dir)
    /\ op.pc = "write" => Indexed(op.dir, activeDir.cur)
    /\ op.pc \in After => HasBlock(MemLayout, MemTotal - 1, op.blk)

\* A file that its directory's index does not name yet.
NewFileUnsaved(d) ==
    LET s == Starts(mem.dirs[d].files)
        c == mem.dirs[d].cur
    IN  /\ op.pc \in {"write", "header", "index"} /\ d = op.dir
        /\ disk[d].idx.starts = [f \in IdsOf(s) \ {c} |-> s[f]]
        /\ Len(disk[d].files[c].recs) = IF op.pc = "write" THEN 0 ELSE 1

FileIndexOK ==
    \A d \in IdsOf(mem.dirs) :
        \/ disk[d].idx.starts = Starts(mem.dirs[d].files)
        \/ op.pc = "emptied" /\ d = op.dir
        \/ NewFileUnsaved(d)

FilesFilled ==
    \A d \in IdsOf(mem.dirs) : \A f \in IdsOf(mem.dirs[d].files) :
        \/ disk[d].files[f].recs # <<>>
        \/ op.pc = "write" /\ NewFileUnsaved(d) /\ f = mem.dirs[d].cur

NewDirUnsaved ==
    LET s == Starts(mem.dirs)
    IN  /\ op.pc \in {"open", "write", "header", "index", "emptied", "topindex"}
        /\ IdsOf(s) # {op.dir}
        /\ top.starts = [d \in IdsOf(s) \ {op.dir} |-> s[d]]
        /\ MemLayout[op.dir].total = IF op.pc \in After THEN 1 ELSE 0
        /\ op.pc = "open" => IdsOf(disk[op.dir].files) = {}

DirIndexOK ==
    ~mem.root => \/ top.starts = Starts(mem.dirs)
                 \/ op.pc \in {"relocated", "topemptied"}
                 \/ NewDirUnsaved

CacheOK == cache # None => HasBlock(MemLayout, Settled - 1, cache)

Running ==
    /\ MemOK /\ OpOK /\ BuiltOK /\ FileIndexOK /\ FilesFilled /\ DirIndexOK /\ CacheOK
    /\ LaidOut(MemLayout, MemTotal)
    /\ Acked(MemLayout, Settled)

Stopped ==
    /\ LaidOut(SavedLayout, SavedTotal)
    /\ Acked(SavedLayout, SavedTotal)
    /\ \A d \in IdsOf(Dirs) : \A f \in IdsOf(disk[d].idx.starts) :
          f \in IdsOf(disk[d].files) /\ disk[d].files[f].recs # <<>>

StoreInv == FilesOK /\ tries \in Nat /\ (up => Running) /\ (~up => Stopped)

----------------------------------------------------------------------------
(* Reading.                                                                *)

\* The parts of the layout in memory.
LEMMA MemLayoutIs ==
    /\ DOMAIN MemLayout = IdsOf(mem.dirs)
    /\ \A d \in IdsOf(mem.dirs) :
          /\ MemLayout[d].start = mem.dirs[d].start
          /\ MemLayout[d].total =
                mem.dirs[d].total + (IF op.pc = "header" /\ d = op.dir THEN 1 ELSE 0)
          /\ MemLayout[d].starts = Starts(mem.dirs[d].files)
          /\ DOMAIN MemLayout[d].starts = IdsOf(mem.dirs[d].files)
          /\ \A f \in IdsOf(mem.dirs[d].files) :
                /\ MemLayout[d].starts[f] = mem.dirs[d].files[f].start
                /\ MemLayout[d].recs[f] = disk[d].files[f].recs
BY DEF MemLayout, Starts, IdsOf

\* A claim is a pair of a directory and a file whose ids include the one asked for.
LEMMA ClaimsAre ==
    ASSUME NEW i, NEW m
    PROVE  /\ \A d \in IdsOf(m.dirs) : \A f \in IdsOf(m.dirs[d].files) :
                 InRange(i, m.dirs[d], m.dirs[d].total)
                   /\ InRange(i - m.dirs[d].start, m.dirs[d].files[f], m.dirs[d].files[f].count)
                 => <<d, f>> \in Claims(m, i)
           /\ \A c \in Claims(m, i) :
                 /\ c = <<c[1], c[2]>> /\ c[1] \in IdsOf(m.dirs)
                 /\ c[2] \in IdsOf(m.dirs[c[1]].files)
                 /\ InRange(i, m.dirs[c[1]], m.dirs[c[1]].total)
                 /\ InRange(i - m.dirs[c[1]].start, m.dirs[c[1]].files[c[2]],
                            m.dirs[c[1]].files[c[2]].count)
BY DEF Claims

\* In memory as in the layout, when no call is under way.
LEMMA RangesAgree ==
    ASSUME Running, FilesOK, op.pc = "idle", NEW i,
           NEW d \in IdsOf(mem.dirs), NEW f \in IdsOf(mem.dirs[d].files)
    PROVE  /\ InRange(i, mem.dirs[d], mem.dirs[d].total) <=> InDir(MemLayout, d, i)
           /\ InRange(i - mem.dirs[d].start, mem.dirs[d].files[f], mem.dirs[d].files[f].count)
                <=> InFile(MemLayout, d, f, i)
           /\ mem.dirs[d].total \in Nat
<1>1. mem.dirs[d].total \in Nat /\ MemLayout[d].total = mem.dirs[d].total
  BY MemLayoutIs DEF Running, MemOK
<1>2. mem.dirs[d].files[f].count = Len(MemLayout[d].recs[f])
  BY MemLayoutIs DEF Running, MemOK, MemFileOK
<1>. QED BY <1>1, <1>2, MemLayoutIs DEF InRange, InDir, InFile

\* Whatever file is read for an id, it answers with the block the layout has there.
LEMMA ReadsRight ==
    ASSUME Running, FilesOK, op.pc = "idle", NEW i \in Nat, i < mem.total
    PROVE  /\ Claims(mem, i) # {}
           /\ \A c \in Claims(mem, i) :
                 /\ HasBlock(MemLayout, i, ReadIn(mem, i, c))
                 /\ ReadIn(mem, i, c) \in Blocks
<1>1. LaidOut(MemLayout, mem.total)
  <2>1. MemTotal = mem.total
    BY DEF MemTotal, Running, MemOK
  <2>. QED BY <2>1 DEF Running
<1>2. Claims(mem, i) # {}
  <2>1. PICK d \in DOMAIN MemLayout : \E f \in DOMAIN MemLayout[d].starts :
            InDir(MemLayout, d, i) /\ InFile(MemLayout, d, f, i)
    BY <1>1, PlaceExists
  <2>2. PICK f \in DOMAIN MemLayout[d].starts :
            InDir(MemLayout, d, i) /\ InFile(MemLayout, d, f, i)
    BY <2>1
  <2>3. d \in IdsOf(mem.dirs) /\ f \in IdsOf(mem.dirs[d].files)
    BY <2>1, <2>2, MemLayoutIs
  <2>4. <<d, f>> \in Claims(mem, i)
    BY <2>2, <2>3, RangesAgree, ClaimsAre
  <2>. QED BY <2>4
<1>3. ASSUME NEW c \in Claims(mem, i)
      PROVE  /\ HasBlock(MemLayout, i, ReadIn(mem, i, c))
             /\ ReadIn(mem, i, c) \in Blocks
  <2> DEFINE d == c[1]
             f == c[2]
             k == i - MemLayout[d].start - MemLayout[d].starts[f] + 1
  <2>1. /\ d \in IdsOf(mem.dirs) /\ f \in IdsOf(mem.dirs[d].files)
        /\ InRange(i, mem.dirs[d], mem.dirs[d].total)
        /\ InRange(i - mem.dirs[d].start, mem.dirs[d].files[f], mem.dirs[d].files[f].count)
    BY ClaimsAre
  <2> HIDE DEF d, f
  <2>2. d \in DOMAIN MemLayout /\ f \in DOMAIN MemLayout[d].starts /\ InFile(MemLayout, d, f, i)
    BY <2>1, RangesAgree, MemLayoutIs
  <2>3. /\ k \in 1 .. Len(MemLayout[d].recs[f])
        /\ MemLayout[d].recs[f][k] \in Blocks
        /\ HasBlock(MemLayout, i, MemLayout[d].recs[f][k])
    BY <1>1, <2>2, InFileHas
  <2>4. ReadIn(mem, i, c) = MemLayout[d].recs[f][k]
    <3>1. mem.dirs[d].files[f].skip = 0
      BY <2>1 DEF Running, MemOK, MemFileOK
    <3>2. BuildBlockIndex(mem.dirs[d].files[f], disk[d].files[f]).skip = 0
      BY <2>1, <3>1 DEF BuildBlockIndex, Running, MemOK, MemFileOK
    <3>3. /\ MemLayout[d].recs[f] = disk[d].files[f].recs
          /\ MemLayout[d].start = mem.dirs[d].start
          /\ MemLayout[d].starts[f] = mem.dirs[d].files[f].start
      BY <2>1, MemLayoutIs
    <3>4. /\ mem.dirs[d].start \in Nat /\ mem.dirs[d].files[f].start \in Nat
          /\ disk[d].files[f].recs \in Seq(Blocks)
      BY <1>1, <2>1, <2>2, <3>3 DEF LaidOut, DirLaidOut
    <3>5. 0 + (i - mem.dirs[d].start - mem.dirs[d].files[f].start) + 1 = k
      BY <3>3, <3>4
    <3>6. k \in DOMAIN disk[d].files[f].recs
      <4>1. DOMAIN disk[d].files[f].recs = 1 .. Len(disk[d].files[f].recs)
        BY <3>4
      <4> HIDE DEF k
      <4>. QED BY <2>3, <3>3, <4>1
    <3> HIDE DEF k
    <3>. QED BY <3>2, <3>3, <3>5, <3>6 DEF ReadIn, BlockAt, d, f
  <2>. QED BY <2>3, <2>4
<1>. QED BY <1>2, <1>3

\* The invariant has the properties.
LEMMA InvReads ==
    ASSUME StoreInv
    PROVE  AckedReadable /\ NoHoles
<1> SUFFICES ASSUME up, op.pc = "idle" PROVE AckedReadable /\ NoHoles
  BY DEF AckedReadable, NoHoles, Ready, At
<1>1. /\ Running /\ FilesOK /\ MemTotal = mem.total /\ Settled = mem.total /\ mem.total \in Nat
      /\ LaidOut(MemLayout, mem.total)
      /\ \A i \in IdsOf(acked) : i < mem.total /\ HasBlock(MemLayout, i, acked[i])
      /\ cache # None => HasBlock(MemLayout, mem.total - 1, cache)
  <2>1. Running /\ FilesOK
    BY DEF StoreInv
  <2>2. mem.total \in Nat
    BY <2>1 DEF Running, MemOK
  <2>3. MemTotal = mem.total /\ Settled = mem.total
    BY <2>2 DEF MemTotal, Settled, After
  <2>. QED BY <2>1, <2>2, <2>3 DEF Running, Acked, CacheOK
<1>2. None \notin Blocks
  BY DEF None, Blocks
<1>3. ASSUME NEW i \in IdsOf(acked) PROVE Answers(i) = {acked[i]}
  <2>1. i \in Nat /\ i < mem.total /\ HasBlock(MemLayout, i, acked[i])
    BY <1>1, HasSame
  <2>2. CASE i = mem.total - 1 /\ cache # None
    <3>1. cache = acked[i]
      BY <1>1, <2>1, <2>2, HasSame
    <3>. QED BY <1>1, <2>1, <2>2, <3>1 DEF Answers
  <2>3. CASE ~(i = mem.total - 1 /\ cache # None)
    <3>1. /\ Claims(mem, i) # {}
          /\ \A c \in Claims(mem, i) : HasBlock(MemLayout, i, ReadIn(mem, i, c))
      BY <1>1, <2>1, ReadsRight
    <3>2. \A c \in Claims(mem, i) : ReadIn(mem, i, c) = acked[i]
      BY <1>1, <2>1, <3>1, HasSame
    <3>. QED BY <1>1, <2>1, <2>3, <3>1, <3>2 DEF Answers
  <2>. QED BY <2>2, <2>3
<1>4. ASSUME NEW i \in 0 .. mem.total - 1 PROVE None \notin Answers(i)
  <2>1. i \in Nat /\ i < mem.total
    BY <1>1
  <2>2. CASE i = mem.total - 1 /\ cache # None
    BY <1>1, <2>1, <2>2 DEF Answers
  <2>3. CASE ~(i = mem.total - 1 /\ cache # None)
    <3>1. /\ Claims(mem, i) # {}
          /\ \A c \in Claims(mem, i) : ReadIn(mem, i, c) \in Blocks
      BY <1>1, <2>1, ReadsRight
    <3>. QED BY <1>1, <1>2, <2>1, <2>3, <3>1 DEF Answers
  <2>. QED BY <2>2, <2>3
<1>. QED BY <1>3, <1>4 DEF AckedReadable, NoHoles, IdsOf

----------------------------------------------------------------------------
(* Steps that leave the layout alone.                                      *)

\* The files are as they were; a call goes on.
Frame ==
    /\ up /\ up' /\ Inv /\ Inv' /\ FilesOK /\ Running
    /\ mem'.dirs = mem.dirs /\ mem'.root = mem.root
    /\ IdsOf(disk') = IdsOf(disk)
    /\ \A d \in IdsOf(disk) : disk'[d].files = disk[d].files
    /\ op.pc \notin {"write", "header"} /\ op'.pc # "header"
    /\ mem'.cur \in Nat /\ mem'.cur >= mem.cur /\ mem'.total \in Nat

\* Under Frame the layout in memory is as it was.
LEMMA FrameKeeps ==
    ASSUME Frame, top'.starts = [d \in IdsOf(top'.starts) |-> top'.starts[d]]
    PROVE  FilesOK' /\ MemOK' /\ BuiltOK' /\ FilesFilled' /\ MemLayout' = MemLayout
<1>1. IdsOf(mem.dirs) \subseteq IdsOf(disk)
  BY DEF Frame, Inv, Holds
<1>2. FilesOK'
  BY DEF Frame, FilesOK
<1>3. MemOK'
  <2>1. \A d \in IdsOf(mem.dirs) : \A f \in IdsOf(mem.dirs[d].files) : MemFileOK(d, f)'
    BY <1>1 DEF Frame, Running, MemOK, MemFileOK
  <2>2. mem.root = FALSE => \A d \in IdsOf(mem.dirs) : d <= mem'.cur
    <3>1. \A d \in IdsOf(mem.dirs) : d \in Nat
      BY MemLayoutIs DEF Frame, Running, LaidOut
    <3>. QED BY <3>1 DEF Frame, Running, MemOK
  <2>. QED BY <2>1, <2>2 DEF Frame, Running, MemOK
<1>4. MemLayout' = MemLayout
  BY <1>1 DEF Frame, MemLayout
<1>5. BuiltOK'
  <2> SUFFICES ASSUME NEW d \in IdsOf(mem.dirs), d = LastDir', DirFits(d),
                      NEW f \in IdsOf(mem.dirs[d].files),
                      \A g \in IdsOf(mem.dirs[d].files) : g <= f
               PROVE  Indexed(d, f)'
    BY DEF BuiltOK, Frame, DirFits
  <2>1. d = LastDir
    <3>1. d \in Nat /\ mem.cur \in Nat
      BY MemLayoutIs DEF Frame, Running, LaidOut, MemOK
    <3>2. ~mem.root => d <= mem.cur
      BY DEF Frame, Running, MemOK
    <3>. QED BY <3>1, <3>2 DEF Frame, LastDir
  <2>2. Indexed(d, f)
    BY <2>1 DEF Frame, Running, BuiltOK
  <2>. QED BY <1>1, <2>2 DEF Indexed, Frame
<1>6. FilesFilled'
  BY <1>1 DEF Frame, Running, FilesFilled
<1>. QED BY <1>2, <1>3, <1>4, <1>5, <1>6

\* Nothing but the place in the call changes; the index files may.
LEMMA FrameRuns ==
    ASSUME Frame, top'.starts = [d \in IdsOf(top'.starts) |-> top'.starts[d]],
           MemTotal' = MemTotal, Settled' = Settled, UNCHANGED <<acked, cache>>,
           tries \in Nat, tries' \in Nat,
           OpOK', FileIndexOK', DirIndexOK'
    PROVE  StoreInv'
<1>1. FilesOK' /\ MemOK' /\ BuiltOK' /\ FilesFilled' /\ MemLayout' = MemLayout
  BY FrameKeeps
<1>2. LaidOut(MemLayout, MemTotal) /\ Acked(MemLayout, Settled) /\ CacheOK
  BY DEF Frame, Running
<1>3. LaidOut(MemLayout', MemTotal')
  BY <1>1, <1>2
<1>4. Acked(MemLayout, Settled)'
  BY <1>1, <1>2 DEF Acked
<1>6. CacheOK'
  BY <1>1, <1>2 DEF CacheOK
<1>5. Running'
  BY <1>1, <1>3, <1>4, <1>6 DEF Running
<1>. QED BY <1>1, <1>5 DEF StoreInv, Frame

\* Between calls, and while a directory is looked for, the indexes are exact.
LEMMA FrameIndexes ==
    ASSUME Frame, op.pc \notin {"index", "emptied"},
           \A d \in IdsOf(mem.dirs) : disk'[d].idx = disk[d].idx
    PROVE  FileIndexOK'
BY DEF Frame, Running, FileIndexOK, NewFileUnsaved, Starts, IdsOf

\* A call begins.
LEMMA AddBlockRuns ==
    ASSUME Inv, Inv', StoreInv, NEW size \in Sizes, AddBlock(size)
    PROVE  StoreInv'
<1>1. /\ up /\ up' /\ Running /\ FilesOK /\ op.pc = "idle" /\ UNCHANGED <<disk, top, mem, acked, cache>>
      /\ op'.pc = "route" /\ op'.blk = [n |-> tries + 1, size |-> size]
      /\ tries \in Nat /\ tries' = tries + 1
  BY DEF AddBlock, At, Idle, StoreInv
<1>2. Frame
  BY <1>1 DEF Frame, Running, MemOK
<1>3. MemTotal' = MemTotal /\ Settled' = Settled
  BY <1>1 DEF MemTotal, Settled, After
<1>4. OpOK'
  <2>1. op'.blk \in Blocks
    BY <1>1 DEF Blocks
  <2>. QED BY <1>1, <2>1 DEF OpOK, Active, After
<1>5. FileIndexOK'
  BY <1>1, <1>2, FrameIndexes
<1>6. DirIndexOK'
  BY <1>1 DEF Running, DirIndexOK, NewDirUnsaved
<1>. QED BY <1>1, <1>2, <1>3, <1>4, <1>5, <1>6, FrameRuns DEF FilesOK

\* The directory in use, or the file in use, has room.
LEMMA UseRuns ==
    ASSUME Inv, Inv', StoreInv, UseCurrentDir \/ UseCurrentFile
    PROVE  StoreInv'
<1>1. /\ up /\ up' /\ Running /\ FilesOK /\ UNCHANGED <<disk, top, mem, acked, cache, tries>>
      /\ tries \in Nat /\ op'.blk = op.blk
      /\ \/ op.pc = "route" /\ op'.pc = "open" /\ op'.dir = LastDir /\ DirFits(op'.dir)
         \/ /\ op.pc = "open" /\ op'.pc = "write" /\ op'.dir = op.dir
            /\ activeDir.cur \in IdsOf(activeDir.files)
  <2>1. DOMAIN op = {"pc", "blk", "dir"} /\ Running /\ FilesOK /\ tries \in Nat
    BY DEF Inv, Fields, StoreInv, UseCurrentDir, UseCurrentFile, At
  <2>2. CASE UseCurrentDir
    BY <2>1, <2>2 DEF UseCurrentDir, GoTo, At, Process, History, LastDir
  <2>3. CASE UseCurrentFile
    BY <2>1, <2>3 DEF UseCurrentFile, Go, At, Process, History
  <2>. QED BY <2>2, <2>3
<1>2. Frame
  BY <1>1 DEF Frame, Running, MemOK
<1>3. MemTotal' = MemTotal /\ Settled' = Settled
  BY <1>1 DEF MemTotal, Settled, After
<1>4. OpOK'
  <2>1. op'.dir = LastDir' /\ op'.blk \in Blocks
    BY <1>1 DEF LastDir, Running, OpOK, Active
  <2>2. CASE op'.pc = "open"
    BY <1>1, <2>1, <2>2 DEF OpOK, Active, After, DirFits
  <2>3. CASE op'.pc = "write"
    <3>0. PICK d, c : d = op.dir /\ c = activeDir.cur
      OBVIOUS
    <3>1. op.pc = "open" /\ op'.dir = d /\ c \in IdsOf(activeDir.files)
      BY <1>1, <2>3, <3>0
    <3>2. d = LastDir /\ DirFits(d) /\ d \in IdsOf(mem.dirs)
      BY <1>1, <3>0, <3>1 DEF Running, OpOK, Active, DirFits
    <3>3. c \in IdsOf(mem.dirs[d].files) /\ \A g \in IdsOf(mem.dirs[d].files) : g <= c
      BY <1>1, <3>0, <3>1, <3>2 DEF Running, MemOK, MemFileOK, activeDir
    <3>4. Indexed(d, c)
      BY <1>1, <3>2, <3>3 DEF Running, BuiltOK
    <3>5. activeDir'.cur = c /\ activeDir'.files = activeDir.files
      BY <1>1, <3>0, <3>1 DEF activeDir
    <3>6. Indexed(op.dir, activeDir.cur)'
      BY <1>1, <3>1, <3>4, <3>5 DEF Indexed
    <3>. QED BY <1>1, <2>1, <2>3, <3>1, <3>5, <3>6 DEF OpOK, Active, After
  <2>. QED BY <1>1, <2>2, <2>3
<1>5. FileIndexOK'
  BY <1>1, <1>2, FrameIndexes
<1>6. DirIndexOK'
  <2>1. MemLayout' = MemLayout
    BY <1>1, <1>2, FrameKeeps DEF FilesOK
  <2>. QED BY <1>1, <2>1 DEF Running, DirIndexOK, NewDirUnsaved, After
<1>. QED BY <1>1, <1>2, <1>3, <1>4, <1>5, <1>6, FrameRuns DEF FilesOK

\* An index file is emptied or written; the call goes on where it was.
LEMMA IndexRuns ==
    ASSUME Inv, Inv', StoreInv,
           \/ OpenIndex \/ SaveIndex \/ OpenTopIndex \/ SaveTopIndex \/ SaveRelocation
    PROVE  StoreInv'
<1>1. /\ up /\ up' /\ Running /\ FilesOK /\ UNCHANGED <<acked, cache, tries>>
      /\ tries \in Nat /\ op'.blk = op.blk /\ op'.dir = op.dir
      /\ mem'.root = mem.root /\ mem'.dirs = mem.dirs /\ mem'.cur = mem.cur
      /\ mem.total \in Nat /\ mem.cur \in Nat
      /\ IdsOf(disk') = IdsOf(disk)
      /\ \A d \in IdsOf(disk) : disk'[d].files = disk[d].files
      /\ \A d \in IdsOf(disk) \ {op.dir} : disk'[d] = disk[d]
  <2>1. /\ up /\ Running /\ FilesOK /\ tries \in Nat /\ mem.total \in Nat /\ mem.cur \in Nat
        /\ DOMAIN op = {"pc", "blk", "dir"} /\ DOMAIN mem = {"root", "cur", "total", "dirs"}
        /\ \A d \in IdsOf(disk) : DOMAIN disk[d] = {"idx", "files"}
    BY DEF Inv, Fields, StoreInv, OpenIndex, SaveIndex, OpenTopIndex, SaveTopIndex,
           SaveRelocation, At, Running, MemOK
  <2>2. CASE OpenIndex
    BY <2>1, <2>2 DEF OpenIndex, Go, Process, History, IdsOf
  <2>3. CASE SaveIndex
    BY <2>1, <2>3 DEF SaveIndex, Go, Process, History, IdsOf
  <2>4. CASE OpenTopIndex \/ SaveTopIndex \/ SaveRelocation
    BY <2>1, <2>4 DEF OpenTopIndex, SaveTopIndex, SaveRelocation, Go, Process, History, IdsOf
  <2>. QED BY <2>2, <2>3, <2>4
<1>2. /\ op.pc \in {"index", "emptied", "topindex", "topemptied", "relocated"}
      /\ op'.pc \in {"emptied", "topindex", "topemptied", "stored", "route"}
      /\ op.pc = "index" => op'.pc = "emptied"
      /\ op'.pc = "emptied" => op.pc = "index"
      /\ op.pc = "relocated" <=> op'.pc = "route"
      /\ mem'.total = mem.total + (IF op.pc = "emptied" THEN 1 ELSE 0)
  <2>1. DOMAIN op = {"pc", "blk", "dir"} /\ DOMAIN mem = {"root", "cur", "total", "dirs"}
    BY DEF Inv, Fields
  <2>. QED BY <1>1, <2>1 DEF OpenIndex, SaveIndex, OpenTopIndex, SaveTopIndex, SaveRelocation, At, Go
<1>3. Frame
  BY <1>1, <1>2 DEF Frame
<1>4. MemTotal' = MemTotal /\ Settled' = Settled
  BY <1>1, <1>2 DEF MemTotal, Settled, After
<1>5. top'.starts = [d \in IdsOf(top'.starts) |-> top'.starts[d]]
  <2>1. top.starts = [d \in IdsOf(top.starts) |-> top.starts[d]]
    BY <1>1 DEF FilesOK
  <2>2. CASE UNCHANGED top
    BY <2>1, <2>2
  <2>3. CASE top' = Torn
    BY <2>3 DEF Torn, IdsOf
  <2>4. CASE top' = Index(Starts(mem.dirs))
    BY <2>4 DEF Index, Starts, IdsOf
  <2>. QED BY <2>2, <2>3, <2>4 DEF OpenIndex, SaveIndex, OpenTopIndex, SaveTopIndex, SaveRelocation
<1>6. MemLayout' = MemLayout
  BY <1>3, <1>5, FrameKeeps
<1>7. OpOK'
  BY <1>1, <1>2, <1>4, <1>6 DEF Running, OpOK, Active, After, LastDir, activeDir
<1>8. FileIndexOK'
  <2>0. IdsOf(mem.dirs) \subseteq IdsOf(disk)
    BY <1>1 DEF Inv, Holds
  <2>1. CASE OpenIndex
    <3>1. op.pc = "index" /\ op'.pc = "emptied"
      BY <1>2, <2>1 DEF OpenIndex, At
    <3>2. \A d \in IdsOf(mem.dirs) : d # op.dir => disk[d].idx.starts = Starts(mem.dirs[d].files)
      BY <1>1, <3>1 DEF Running, FileIndexOK, NewFileUnsaved
    <3>. QED BY <1>1, <2>0, <3>1, <3>2 DEF FileIndexOK
  <2>2. CASE SaveIndex
    <3>1. disk'[op.dir].idx.starts = Starts(mem.dirs[op.dir].files)
      BY <2>2 DEF SaveIndex, Index, activeDir, At, Inv, Fields, Holds, Active, IdsOf
    <3>. QED BY <1>1, <2>0, <2>2, <3>1, SMTT(30) DEF Running, FileIndexOK, NewFileUnsaved, SaveIndex, At
  <2>3. CASE OpenTopIndex \/ SaveTopIndex \/ SaveRelocation
    BY <1>3, <2>3, FrameIndexes DEF OpenTopIndex, SaveTopIndex, SaveRelocation, At
  <2>. QED BY <2>1, <2>2, <2>3
<1>9. DirIndexOK'
  <2>1. CASE OpenTopIndex
    BY <1>1, <1>2, <2>1 DEF DirIndexOK, OpenTopIndex, At, Go, Inv, Fields
  <2>2. CASE SaveTopIndex \/ SaveRelocation
    BY <1>1, <2>2 DEF DirIndexOK, SaveTopIndex, SaveRelocation, Index
  <2>3. CASE OpenIndex \/ SaveIndex
    <3>1. /\ UNCHANGED top /\ op.pc \in {"index", "emptied"} /\ op'.pc # "open"
          /\ ~mem.root => op'.pc \in {"emptied", "topindex"}
      BY <1>1, <2>3 DEF OpenIndex, SaveIndex, At, Go, Inv, Fields
    <3>. QED BY <1>1, <1>6, <3>1 DEF Running, DirIndexOK, NewDirUnsaved, After
  <2>. QED BY <2>1, <2>2, <2>3
<1>. QED BY <1>1, <1>3, <1>4, <1>5, <1>7, <1>8, <1>9, FrameRuns

\* A call fails for want of a directory.
LEMMA NoDirRuns ==
    ASSUME Inv, Inv', StoreInv, MaxLevel = 0,
           \/ StoreFull
           \/ CreateFileDirStore /\ mem.cur + 1 \in IdsOf(disk)
    PROVE  StoreInv'
<1>1. /\ up /\ up' /\ Running /\ FilesOK /\ UNCHANGED <<top, acked, cache, tries>>
      /\ tries \in Nat /\ op.pc = "route" /\ op' = Idle /\ ~mem.root
      /\ mem'.root = mem.root /\ mem'.dirs = mem.dirs /\ mem'.total = mem.total
      /\ mem.total \in Nat /\ mem.cur \in Nat /\ mem'.cur \in {mem.cur, mem.cur + 1}
      /\ IdsOf(disk') = IdsOf(disk)
      /\ \A d \in IdsOf(disk) : disk'[d].files = disk[d].files
      /\ \A d \in IdsOf(disk) \ {mem.cur + 1} : disk'[d] = disk[d]
  <2>1. /\ up /\ Running /\ FilesOK /\ tries \in Nat /\ mem.total \in Nat /\ mem.cur \in Nat
        /\ DOMAIN op = {"pc", "blk", "dir"} /\ DOMAIN mem = {"root", "cur", "total", "dirs"}
        /\ \A d \in IdsOf(disk) : DOMAIN disk[d] = {"idx", "files"}
    BY DEF Inv, Fields, StoreInv, StoreFull, CreateFileDirStore, NeedsDir, At, Running, MemOK
  <2>2. CASE StoreFull
    BY <2>1, <2>2 DEF StoreFull, NeedsDir, At, Fail, Process, History
  <2>3. CASE CreateFileDirStore /\ mem.cur + 1 \in IdsOf(disk)
    BY <2>1, <2>3 DEF CreateFileDirStore, Clobber, NeedsDir, At, Fail, Process, History, IdsOf
  <2>. QED BY <2>2, <2>3
<1>2. Frame
  BY <1>1 DEF Frame, Idle
<1>3. MemTotal' = MemTotal /\ Settled' = Settled
  BY <1>1 DEF MemTotal, Settled, After, Idle
<1>4. OpOK'
  BY <1>1 DEF OpOK, Idle, Active, After
<1>5. FileIndexOK'
  <2>1. \A d \in IdsOf(mem.dirs) : d # mem.cur + 1 /\ d \in IdsOf(disk)
    <3>1. \A d \in IdsOf(mem.dirs) : d \in Nat /\ d <= mem.cur /\ d \in IdsOf(disk)
      BY <1>1, MemLayoutIs DEF Running, LaidOut, MemOK, Inv, Holds
    <3>. QED BY <1>1, <3>1
  <2>. QED BY <1>1, <1>2, <2>1, FrameIndexes
<1>6. DirIndexOK'
  BY <1>1 DEF Running, DirIndexOK, NewDirUnsaved
<1>. QED BY <1>1, <1>2, <1>3, <1>4, <1>5, <1>6, FrameRuns DEF FilesOK

\* A call is over: its block is settled, under the last id.
LEMMA FinishRuns ==
    ASSUME Inv, Inv', StoreInv, FinishAddBlock
    PROVE  /\ StoreInv'
           /\ \A i \in IdsOf(acked) : acked'[i] = acked[i]
<1>1. /\ up /\ up' /\ Running /\ FilesOK /\ UNCHANGED <<disk, top, mem, tries>>
      /\ tries \in Nat /\ op.pc = "stored" /\ op' = Idle /\ mem.total \in Nat
      /\ cache' = op.blk /\ acked' = With(acked, mem.total - 1, op.blk)
  BY DEF FinishAddBlock, At, StoreInv, Running, MemOK
<1>2. Frame
  BY <1>1 DEF Frame, Idle, Running, MemOK
<1>3. FilesOK' /\ MemOK' /\ BuiltOK' /\ FilesFilled' /\ MemLayout' = MemLayout
  BY <1>1, <1>2, FrameKeeps DEF FilesOK
<1>4. /\ MemTotal = mem.total /\ MemTotal' = mem.total
      /\ Settled = mem.total - 1 /\ Settled' = mem.total
  BY <1>1 DEF MemTotal, Settled, After, Idle
<1>5. HasBlock(MemLayout, mem.total - 1, op.blk) /\ LaidOut(MemLayout, mem.total)
  BY <1>1, <1>4 DEF Running, OpOK, After
<1>6. \A i \in IdsOf(acked) : i \in Nat /\ i < mem.total - 1 /\ HasBlock(MemLayout, i, acked[i])
  BY <1>1, <1>4, <1>5, HasSame DEF Running, Acked
<1>7. Acked(MemLayout, Settled)'
  <2>1. ASSUME NEW i \in IdsOf(acked') PROVE i < mem.total /\ HasBlock(MemLayout, i, acked'[i])
    <3>1. CASE i = mem.total - 1
      BY <1>1, <1>5, <3>1 DEF With, IdsOf
    <3>2. CASE i # mem.total - 1
      <4>1. i \in IdsOf(acked) /\ acked'[i] = acked[i]
        BY <1>1, <3>2 DEF With, IdsOf
      <4>. QED BY <1>1, <1>6, <4>1
    <3>. QED BY <3>1, <3>2
  <2>. QED BY <1>3, <1>4, <2>1 DEF Acked
<1>8. CacheOK'
  BY <1>1, <1>3, <1>4, <1>5 DEF CacheOK
<1>9. OpOK'
  BY <1>1 DEF OpOK, Idle, Active, After
<1>10. FileIndexOK'
  BY <1>1, <1>2, FrameIndexes
<1>11. DirIndexOK'
  BY <1>1 DEF Running, DirIndexOK, NewDirUnsaved
<1>12. LaidOut(MemLayout', MemTotal')
  BY <1>3, <1>4, <1>5
<1>13. StoreInv'
  BY <1>1, <1>3, <1>7, <1>8, <1>9, <1>10, <1>11, <1>12 DEF StoreInv, Running
<1>14. \A i \in IdsOf(acked) : acked'[i] = acked[i]
  BY <1>1, <1>6 DEF With, IdsOf
<1>. QED BY <1>13, <1>14

----------------------------------------------------------------------------
(* Steps that change what a process remembers, but not the layout.         *)

\* The layout is that of starts, totals and blocks; nothing else in memory matters to it.
LEMMA LayoutStays ==
    ASSUME IdsOf(mem'.dirs) = IdsOf(mem.dirs),
           \A d \in IdsOf(mem.dirs) :
              /\ mem'.dirs[d].start = mem.dirs[d].start
              /\ mem'.dirs[d].total + (IF op'.pc = "header" /\ d = op'.dir THEN 1 ELSE 0)
                    = mem.dirs[d].total + (IF op.pc = "header" /\ d = op.dir THEN 1 ELSE 0)
              /\ IdsOf(mem'.dirs[d].files) = IdsOf(mem.dirs[d].files)
              /\ \A f \in IdsOf(mem.dirs[d].files) :
                    /\ mem'.dirs[d].files[f].start = mem.dirs[d].files[f].start
                    /\ disk'[d].files[f].recs = disk[d].files[f].recs
    PROVE  /\ MemLayout' = MemLayout /\ Starts(mem'.dirs) = Starts(mem.dirs)
           /\ \A d \in IdsOf(mem.dirs) : Starts(mem'.dirs[d].files) = Starts(mem.dirs[d].files)
<1>1. \A d \in IdsOf(mem.dirs) : Starts(mem'.dirs[d].files) = Starts(mem.dirs[d].files)
  BY DEF Starts, IdsOf
<1>2. Starts(mem'.dirs) = Starts(mem.dirs)
  BY DEF Starts, IdsOf
<1>3. MemLayout' = MemLayout
  BY <1>1 DEF MemLayout
<1>. QED BY <1>1, <1>2, <1>3

\* The header of a file catches up with its blocks.
LEMMA HeaderRuns ==
    ASSUME Inv, Inv', StoreInv, UpdateHeaderBlockCount
    PROVE  StoreInv'
<1>0. PICK d, c : d = op.dir /\ c = activeDir.cur
  OBVIOUS
<1>1. /\ up /\ up' /\ Running /\ FilesOK /\ UNCHANGED <<top, acked, cache, tries>>
      /\ tries \in Nat /\ op.pc = "header" /\ op'.pc = "index" /\ op'.dir = d /\ op'.blk = op.blk
      /\ mem.total \in Nat /\ mem.cur \in Nat
      /\ d \in IdsOf(mem.dirs) /\ IdsOf(mem.dirs) \subseteq IdsOf(disk) /\ d = LastDir
      /\ c = mem.dirs[d].cur /\ c \in IdsOf(mem.dirs[d].files)
      /\ Inv
  BY <1>0 DEF UpdateHeaderBlockCount, At, Go, Process, History, StoreInv, Running, MemOK,
     OpOK, Inv, Fields, Holds, Active, activeDir
<1>2. \A e \in IdsOf(mem.dirs) : /\ DOMAIN mem.dirs[e] = {"start", "cur", "total", "files"}
                                 /\ mem.dirs[e].total \in Nat
                                 /\ \A f \in IdsOf(mem.dirs[e].files) : MemFileOK(e, f)
  BY <1>1 DEF Running, MemOK
<1>3. /\ mem'.root = mem.root /\ mem'.cur = mem.cur /\ mem'.total = mem.total
      /\ IdsOf(mem'.dirs) = IdsOf(mem.dirs)
      /\ \A e \in IdsOf(mem.dirs) : e # d => mem'.dirs[e] = mem.dirs[e]
      /\ DOMAIN mem'.dirs[d] = DOMAIN mem.dirs[d]
      /\ mem'.dirs[d].start = mem.dirs[d].start /\ mem'.dirs[d].cur = mem.dirs[d].cur
      /\ mem'.dirs[d].files = mem.dirs[d].files /\ mem'.dirs[d].total = mem.dirs[d].total + 1
  <2>1. mem' = [mem EXCEPT !.dirs[d].total = @ + 1]
    BY <1>0 DEF UpdateHeaderBlockCount
  <2>. QED BY <1>1, <1>2, <2>1 DEF Inv, Fields, IdsOf
<1>4. /\ c \in IdsOf(disk[d].files) /\ mem.dirs[d].files[c].count = Len(disk[d].files[c].recs)
      /\ DOMAIN disk[d].files[c] = {"hdr", "recs"}
  BY <1>1, <1>2 DEF MemFileOK, FilesOK
<1>5. /\ IdsOf(disk') = IdsOf(disk)
      /\ \A e \in IdsOf(disk) : /\ e # d => disk'[e] = disk[e]
                                /\ disk'[e].idx = disk[e].idx
                                /\ IdsOf(disk'[e].files) = IdsOf(disk[e].files)
      /\ \A f \in IdsOf(disk[d].files) : f # c => disk'[d].files[f] = disk[d].files[f]
      /\ DOMAIN disk'[d].files[c] = {"hdr", "recs"}
      /\ disk'[d].files[c].hdr = Len(disk[d].files[c].recs)
      /\ disk'[d].files[c].recs = disk[d].files[c].recs
  <2>1. disk' = [disk EXCEPT ![d].files[c].hdr = mem.dirs[d].files[c].count]
    BY <1>0 DEF UpdateHeaderBlockCount, activeDir
  <2>. QED BY <1>1, <1>4, <2>1 DEF Inv, Fields, IdsOf
<1>6. \A e \in IdsOf(disk) : \A f \in IdsOf(disk[e].files) : disk'[e].files[f].recs = disk[e].files[f].recs
  BY <1>5
<1>7. /\ MemLayout' = MemLayout /\ Starts(mem'.dirs) = Starts(mem.dirs)
      /\ \A e \in IdsOf(mem.dirs) : Starts(mem'.dirs[e].files) = Starts(mem.dirs[e].files)
  <2>1. \A e \in IdsOf(mem.dirs) :
              /\ mem'.dirs[e].start = mem.dirs[e].start
              /\ mem'.dirs[e].total + (IF op'.pc = "header" /\ e = op'.dir THEN 1 ELSE 0)
                    = mem.dirs[e].total + (IF op.pc = "header" /\ e = op.dir THEN 1 ELSE 0)
              /\ IdsOf(mem'.dirs[e].files) = IdsOf(mem.dirs[e].files)
              /\ \A f \in IdsOf(mem.dirs[e].files) :
                    /\ mem'.dirs[e].files[f].start = mem.dirs[e].files[f].start
                    /\ disk'[e].files[f].recs = disk[e].files[f].recs
    BY <1>0, <1>1, <1>2, <1>3, <1>6 DEF MemFileOK
  <2>. QED BY <1>3, <2>1, LayoutStays
<1>8. FilesOK'
  <2>1. ASSUME NEW e \in IdsOf(disk), NEW f \in IdsOf(disk[e].files)
        PROVE  /\ DOMAIN disk'[e].files[f] = {"hdr", "recs"}
               /\ disk'[e].files[f].recs \in Seq(Blocks)
               /\ disk'[e].files[f].hdr = Len(disk'[e].files[f].recs)
    <3>1. /\ DOMAIN disk[e].files[f] = {"hdr", "recs"} /\ disk[e].files[f].recs \in Seq(Blocks)
          /\ ~(e = d /\ f = c) => disk[e].files[f].hdr = Len(disk[e].files[f].recs)
      BY <1>0, <1>1 DEF FilesOK
    <3>2. CASE e = d /\ f = c
      BY <1>5, <3>1, <3>2
    <3>3. CASE ~(e = d /\ f = c)
      BY <1>5, <3>1, <3>3
    <3>. QED BY <3>2, <3>3
  <2>2. top'.starts = [i \in IdsOf(top'.starts) |-> top'.starts[i]]
    BY <1>1 DEF FilesOK
  <2>3. IdsOf(disk') = IdsOf(disk) /\ \A e \in IdsOf(disk) : IdsOf(disk'[e].files) = IdsOf(disk[e].files)
    BY <1>5
  <2>. QED BY <2>1, <2>2, <2>3 DEF FilesOK
<1>9. MemOK'
  <2>1. \A e \in IdsOf(mem.dirs) : \A f \in IdsOf(mem.dirs[e].files) : MemFileOK(e, f)'
    <3> TAKE e \in IdsOf(mem.dirs)
    <3> TAKE f \in IdsOf(mem.dirs[e].files)
    <3>1. mem'.dirs[e].files[f] = mem.dirs[e].files[f] /\ mem'.dirs[e].cur = mem.dirs[e].cur
      BY <1>3
    <3>2. MemFileOK(e, f) /\ e \in IdsOf(disk) /\ f \in IdsOf(disk[e].files)
      BY <1>1, <1>2 DEF MemFileOK
    <3>3. IdsOf(disk'[e].files) = IdsOf(disk[e].files) /\ disk'[e].files[f].recs = disk[e].files[f].recs
      BY <1>5, <1>6, <3>2
    <3>. QED BY <3>1, <3>2, <3>3 DEF MemFileOK
  <2>. QED BY <1>1, <1>3, <2>1 DEF Running, MemOK
<1>10. BuiltOK'
  BY <1>1, <1>2, <1>3, <1>6, SMTT(30) DEF Running, BuiltOK, LastDir, DirFits, Indexed, MemFileOK
<1>11. FileIndexOK'
  <2>1. \A e \in IdsOf(mem.dirs) : NewFileUnsaved(e) => NewFileUnsaved(e)'
    <3> SUFFICES ASSUME NEW e \in IdsOf(mem.dirs), NewFileUnsaved(e) PROVE NewFileUnsaved(e)'
      OBVIOUS
    <3>1. e = d /\ mem.dirs[e].cur = c /\ mem'.dirs[e].cur = c
      BY <1>0, <1>1, <1>3 DEF NewFileUnsaved
    <3>2. /\ disk'[d].idx = disk[d].idx /\ disk'[d].files[c].recs = disk[d].files[c].recs
          /\ Starts(mem'.dirs[d].files) = Starts(mem.dirs[d].files)
      BY <1>1, <1>5, <1>7
    <3>. QED BY <1>0, <1>1, <3>1, <3>2 DEF NewFileUnsaved
  <2>. QED BY <1>1, <1>3, <1>5, <1>7, <2>1 DEF Running, FileIndexOK
<1>12. FilesFilled'
  <2>1. \A e \in IdsOf(mem.dirs) : \A f \in IdsOf(mem.dirs[e].files) : disk[e].files[f].recs # <<>>
    BY <1>1 DEF Running, FilesFilled
  <2>2. \A e \in IdsOf(mem.dirs) : \A f \in IdsOf(mem.dirs[e].files) :
            disk'[e].files[f].recs = disk[e].files[f].recs
    BY <1>1, <1>2, <1>6 DEF MemFileOK
  <2>. QED BY <1>3, <2>1, <2>2 DEF FilesFilled
<1>13. DirIndexOK'
  BY <1>0, <1>1, <1>3, <1>7 DEF Running, DirIndexOK, NewDirUnsaved, After
<1>14. MemTotal' = MemTotal /\ Settled' = Settled
  BY <1>1, <1>3 DEF MemTotal, Settled, After
<1>15. OpOK'
  <2>1. activeDir'.files = activeDir.files /\ activeDir'.cur = activeDir.cur
    BY <1>0, <1>1, <1>3 DEF activeDir
  <2>. QED BY <1>0, <1>1, <1>3, <1>7, <1>14, <2>1 DEF Running, OpOK, Active, After, LastDir
<1>16. LaidOut(MemLayout', MemTotal') /\ Acked(MemLayout, Settled)' /\ CacheOK'
  BY <1>1, <1>7, <1>14 DEF Running, Acked, CacheOK
<1>. QED BY <1>1, <1>8, <1>9, <1>10, <1>11, <1>12, <1>13, <1>15, <1>16 DEF StoreInv, Running

\* A call fails because the file it was to create exists.
LEMMA NoFileRuns ==
    ASSUME Inv, Inv', StoreInv,
           CreateBlockFile, activeDir.cur + 1 \in IdsOf(disk[op.dir].files)
    PROVE  StoreInv'
<1>0. PICK d : d = op.dir
  OBVIOUS
<1>1. /\ up /\ up' /\ Running /\ FilesOK /\ UNCHANGED <<disk, top, acked, cache, tries>>
      /\ tries \in Nat /\ op.pc = "open" /\ op' = Idle
      /\ mem' = [mem EXCEPT !.dirs[d].cur = mem.dirs[d].cur + 1]
  BY <1>0 DEF CreateBlockFile, At, Fail, Process, History, StoreInv, activeDir
<1>2. /\ d \in IdsOf(mem.dirs) /\ IdsOf(disk[d].files) # {}
      /\ \A e \in IdsOf(mem.dirs) : /\ DOMAIN mem.dirs[e] = {"start", "cur", "total", "files"}
                                    /\ mem.dirs[e].cur \in Nat
                                    /\ \A f \in IdsOf(mem.dirs[e].files) : MemFileOK(e, f)
  BY <1>0, <1>1 DEF Running, MemOK, Inv, Holds, Active
<1>3. /\ mem'.root = mem.root /\ mem'.cur = mem.cur /\ mem'.total = mem.total
      /\ IdsOf(mem'.dirs) = IdsOf(mem.dirs)
      /\ \A e \in IdsOf(mem.dirs) :
            /\ DOMAIN mem'.dirs[e] = DOMAIN mem.dirs[e] /\ mem'.dirs[e].files = mem.dirs[e].files
            /\ mem'.dirs[e].start = mem.dirs[e].start /\ mem'.dirs[e].total = mem.dirs[e].total
            /\ mem'.dirs[e].cur \in {mem.dirs[e].cur, mem.dirs[e].cur + 1}
  BY <1>1, <1>2 DEF Inv, Fields, IdsOf
<1>4. MemLayout' = MemLayout /\ Starts(mem'.dirs) = Starts(mem.dirs)
  <2>1. op.pc # "header" /\ op'.pc # "header"
    BY <1>1 DEF Idle
  <2>. QED BY <1>1, <1>3, <2>1, LayoutStays
<1>5. FilesOK'
  BY <1>1 DEF FilesOK
<1>6. MemOK'
  <2>1. \A e \in IdsOf(mem.dirs) : \A f \in IdsOf(mem.dirs[e].files) : MemFileOK(e, f)'
    <3> TAKE e \in IdsOf(mem.dirs)
    <3> TAKE f \in IdsOf(mem.dirs[e].files)
    <3>1. f \in Nat
      BY <1>1, MemLayoutIs DEF Running, LaidOut, DirLaidOut
    <3>2. MemFileOK(e, f) /\ mem.dirs[e].cur \in Nat
      BY <1>2
    <3>. QED BY <1>1, <1>3, <3>1, <3>2 DEF MemFileOK
  <2>2. mem.root => mem'.dirs[Root].start = 0
    BY <1>1, <1>3 DEF Running, MemOK
  <2>. QED BY <1>1, <1>2, <1>3, <2>1, <2>2 DEF Running, MemOK
<1>7. BuiltOK'
  BY <1>1, <1>3, SMTT(30) DEF Running, BuiltOK, LastDir, DirFits, Indexed
<1>8. FileIndexOK'
  <2>1. \A e \in IdsOf(mem.dirs) : disk[e].idx.starts = Starts(mem.dirs[e].files)
    BY <1>1 DEF Running, FileIndexOK, NewFileUnsaved
  <2>. QED BY <1>1, <1>3, <2>1 DEF FileIndexOK
<1>9. FilesFilled'
  <2>1. \A e \in IdsOf(mem.dirs) : \A f \in IdsOf(mem.dirs[e].files) : disk[e].files[f].recs # <<>>
    BY <1>1 DEF Running, FilesFilled
  <2>. QED BY <1>1, <1>3, <2>1 DEF FilesFilled
<1>10. DirIndexOK'
  <2>1. ~NewDirUnsaved
    BY <1>0, <1>1, <1>2 DEF NewDirUnsaved
  <2>2. ~mem.root => top.starts = Starts(mem.dirs)
    BY <1>1, <2>1 DEF Running, DirIndexOK
  <2>. QED BY <1>1, <1>3, <1>4, <2>2 DEF DirIndexOK
<1>11. MemTotal' = MemTotal /\ Settled' = Settled
  BY <1>1, <1>3 DEF MemTotal, Settled, After, Idle
<1>12. OpOK'
  BY <1>1 DEF OpOK, Idle, Active, After
<1>13. LaidOut(MemLayout', MemTotal') /\ Acked(MemLayout, Settled)' /\ CacheOK'
  BY <1>1, <1>4, <1>11 DEF Running, Acked, CacheOK
<1>. QED BY <1>1, <1>5, <1>6, <1>7, <1>8, <1>9, <1>10, <1>12, <1>13 DEF StoreInv, Running

\* What is left of m when file f of directory d has been read.
Touched(t, m, d, f) ==
    /\ DOMAIN t = DOMAIN m /\ t.root = m.root /\ t.cur = m.cur /\ t.total = m.total
    /\ IdsOf(t.dirs) = IdsOf(m.dirs)
    /\ \A e \in IdsOf(m.dirs) : e # d => t.dirs[e] = m.dirs[e]
    /\ DOMAIN t.dirs[d] = DOMAIN m.dirs[d] /\ t.dirs[d].start = m.dirs[d].start
    /\ t.dirs[d].cur = m.dirs[d].cur /\ t.dirs[d].total = m.dirs[d].total
    /\ IdsOf(t.dirs[d].files) = IdsOf(m.dirs[d].files)
    /\ \A g \in IdsOf(m.dirs[d].files) : g # f => t.dirs[d].files[g] = m.dirs[d].files[g]
    /\ DOMAIN t.dirs[d].files[f] = DOMAIN m.dirs[d].files[f]
    /\ t.dirs[d].files[f].start = m.dirs[d].files[f].start
    /\ t.dirs[d].files[f].count = m.dirs[d].files[f].count
    /\ t.dirs[d].files[f].skip = 0 /\ t.dirs[d].files[f].built

\* Reading in a file whose index is exact only notes that there is an index.
LEMMA TouchIs ==
    ASSUME NEW m, DOMAIN m = {"root", "cur", "total", "dirs"},
           NEW d \in IdsOf(m.dirs), DOMAIN m.dirs[d] = {"start", "cur", "total", "files"},
           NEW f \in IdsOf(m.dirs[d].files),
           DOMAIN m.dirs[d].files[f] = {"start", "count", "built", "skip"},
           m.dirs[d].files[f].count = Len(disk[d].files[f].recs), m.dirs[d].files[f].skip = 0
    PROVE  Touched(Touch(m, <<d, f>>), m, d, f)
<1> DEFINE n == BuildBlockIndex(m.dirs[d].files[f], disk[d].files[f])
<1>1. /\ DOMAIN n = DOMAIN m.dirs[d].files[f] /\ n.start = m.dirs[d].files[f].start
      /\ n.count = m.dirs[d].files[f].count /\ n.skip = 0 /\ n.built
  BY DEF BuildBlockIndex
<1>2. Touch(m, <<d, f>>) = [m EXCEPT !.dirs[d].files[f] = n]
  BY DEF Touch
<1> HIDE DEF n
<1>. QED BY <1>1, <1>2 DEF IdsOf, Touched

\* A block is read.
LEMMA ReadRuns ==
    ASSUME Inv, Inv', StoreInv, NEW i \in Nat, ReadBlock(i)
    PROVE  StoreInv'
<1>1. /\ up /\ up' /\ Running /\ FilesOK /\ UNCHANGED <<disk, top, acked, op, tries>>
      /\ tries \in Nat /\ op.pc = "idle" /\ i < mem.total /\ mem.total \in Nat
      /\ \E c \in Claims(mem, i) :
            /\ mem' = Touch(mem, c)
            /\ cache' = IF i = mem.total - 1 THEN ReadIn(mem, i, c) ELSE cache
  BY DEF ReadBlock, At, StoreInv, Running, MemOK
<1>2. PICK c \in Claims(mem, i) :
            /\ mem' = Touch(mem, c)
            /\ cache' = IF i = mem.total - 1 THEN ReadIn(mem, i, c) ELSE cache
  BY <1>1
<1>3. PICK d, f : c = <<d, f>> /\ d \in IdsOf(mem.dirs) /\ f \in IdsOf(mem.dirs[d].files)
  BY ClaimsAre
<1>4. \A e \in IdsOf(mem.dirs) : /\ DOMAIN mem.dirs[e] = {"start", "cur", "total", "files"}
                                 /\ mem.dirs[e].cur \in Nat /\ mem.dirs[e].total \in Nat
                                 /\ \A g \in IdsOf(mem.dirs[e].files) : MemFileOK(e, g)
  BY <1>1 DEF Running, MemOK
<1>5. Touched(mem', mem, d, f)
  <2>1. MemFileOK(d, f) /\ DOMAIN mem = {"root", "cur", "total", "dirs"}
    BY <1>3, <1>4 DEF Inv, Fields
  <2>2. Touched(Touch(mem, <<d, f>>), mem, d, f)
    BY <1>3, <1>4, <2>1, TouchIs DEF MemFileOK
  <2>. QED BY <1>2, <1>3, <2>2
<1>6. \A e \in IdsOf(mem.dirs) :
         /\ mem'.dirs[e].start = mem.dirs[e].start /\ mem'.dirs[e].total = mem.dirs[e].total
         /\ mem'.dirs[e].cur = mem.dirs[e].cur /\ DOMAIN mem'.dirs[e] = DOMAIN mem.dirs[e]
         /\ IdsOf(mem'.dirs[e].files) = IdsOf(mem.dirs[e].files)
         /\ \A g \in IdsOf(mem.dirs[e].files) :
               /\ DOMAIN mem'.dirs[e].files[g] = DOMAIN mem.dirs[e].files[g]
               /\ mem'.dirs[e].files[g].start = mem.dirs[e].files[g].start
               /\ mem'.dirs[e].files[g].count = mem.dirs[e].files[g].count
               /\ mem'.dirs[e].files[g].skip = 0
               /\ mem.dirs[e].files[g].built => mem'.dirs[e].files[g].built
  <2>1. ASSUME NEW e \in IdsOf(mem.dirs), e # d PROVE mem'.dirs[e] = mem.dirs[e]
    BY <1>5, <2>1 DEF Touched
  <2>2. ASSUME NEW e \in IdsOf(mem.dirs), NEW g \in IdsOf(mem.dirs[e].files)
        PROVE  mem.dirs[e].files[g].skip = 0
    BY <1>4 DEF MemFileOK
  <2>3. ASSUME NEW g \in IdsOf(mem.dirs[d].files)
        PROVE  /\ DOMAIN mem'.dirs[d].files[g] = DOMAIN mem.dirs[d].files[g]
               /\ mem'.dirs[d].files[g].start = mem.dirs[d].files[g].start
               /\ mem'.dirs[d].files[g].count = mem.dirs[d].files[g].count
               /\ mem'.dirs[d].files[g].skip = 0
               /\ mem.dirs[d].files[g].built => mem'.dirs[d].files[g].built
    <3>1. CASE g # f
      BY <1>3, <1>5, <2>2, <3>1 DEF Touched
    <3>2. CASE g = f
      BY <1>5, <3>2 DEF Touched
    <3>. QED BY <3>1, <3>2
  <2>4. /\ mem'.dirs[d].start = mem.dirs[d].start /\ mem'.dirs[d].total = mem.dirs[d].total
        /\ mem'.dirs[d].cur = mem.dirs[d].cur /\ DOMAIN mem'.dirs[d] = DOMAIN mem.dirs[d]
        /\ IdsOf(mem'.dirs[d].files) = IdsOf(mem.dirs[d].files)
    BY <1>5 DEF Touched
  <2>. QED BY <2>1, <2>2, <2>3, <2>4
<1>7. MemLayout' = MemLayout /\ Starts(mem'.dirs) = Starts(mem.dirs)
      /\ \A e \in IdsOf(mem.dirs) : Starts(mem'.dirs[e].files) = Starts(mem.dirs[e].files)
  <2>1. op.pc # "header" /\ op'.pc # "header"
    BY <1>1
  <2>. QED BY <1>1, <1>5, <1>6, <2>1, LayoutStays DEF Touched
<1>8. FilesOK'
  BY <1>1 DEF FilesOK
<1>9. MemOK'
  <2>1. \A e \in IdsOf(mem.dirs) : \A g \in IdsOf(mem.dirs[e].files) : MemFileOK(e, g)'
    BY <1>1, <1>4, <1>6 DEF MemFileOK
  <2>. QED BY <1>1, <1>4, <1>5, <1>6, <2>1 DEF Touched, Running, MemOK
<1>10. BuiltOK'
  <2> SUFFICES ASSUME NEW e \in IdsOf(mem.dirs), e = LastDir', DirFits(e)',
                      NEW g \in IdsOf(mem.dirs[e].files),
                      \A h \in IdsOf(mem.dirs[e].files) : h <= g
               PROVE  Indexed(e, g)'
    BY <1>5, <1>6 DEF Touched, BuiltOK
  <2>1. e = LastDir /\ DirFits(e)
    BY <1>5, <1>6 DEF Touched, LastDir, DirFits
  <2>2. Indexed(e, g)
    BY <1>1, <2>1 DEF Running, BuiltOK
  <2>. QED BY <1>1, <1>6, <2>2 DEF Indexed
<1>11. FileIndexOK'
  <2>1. \A e \in IdsOf(mem.dirs) : disk[e].idx.starts = Starts(mem.dirs[e].files)
    BY <1>1 DEF Running, FileIndexOK, NewFileUnsaved
  <2>. QED BY <1>1, <1>5, <1>7, <2>1 DEF Touched, FileIndexOK
<1>12. FilesFilled'
  <2>1. \A e \in IdsOf(mem.dirs) : \A g \in IdsOf(mem.dirs[e].files) : disk[e].files[g].recs # <<>>
    BY <1>1 DEF Running, FilesFilled
  <2>. QED BY <1>1, <1>5, <1>6, <2>1 DEF Touched, FilesFilled
<1>13. DirIndexOK'
  <2>1. ~mem.root => top.starts = Starts(mem.dirs)
    BY <1>1 DEF Running, DirIndexOK, NewDirUnsaved
  <2>. QED BY <1>1, <1>5, <1>7, <2>1 DEF Touched, DirIndexOK
<1>14. MemTotal' = MemTotal /\ Settled' = Settled /\ Settled = mem.total
  BY <1>1, <1>5 DEF Touched, MemTotal, Settled, After
<1>15. OpOK'
  BY <1>1 DEF OpOK, Active, After
<1>16. CacheOK'
  <2>1. CASE i = mem.total - 1
    <3>1. cache' = ReadIn(mem, i, c) /\ HasBlock(MemLayout, i, ReadIn(mem, i, c))
      BY <1>1, <1>2, <2>1, ReadsRight
    <3>. QED BY <1>7, <1>14, <2>1, <3>1 DEF CacheOK
  <2>2. CASE i # mem.total - 1
    BY <1>1, <1>2, <1>7, <1>14, <2>2 DEF Running, CacheOK
  <2>. QED BY <2>1, <2>2
<1>17. LaidOut(MemLayout', MemTotal') /\ Acked(MemLayout, Settled)'
  BY <1>1, <1>7, <1>14 DEF Running, Acked
<1>. QED BY <1>1, <1>8, <1>9, <1>10, <1>11, <1>12, <1>13, <1>15, <1>16, <1>17 DEF StoreInv, Running

----------------------------------------------------------------------------
(* Steps that change the layout.                                           *)

\* What is settled stays so in a layout that has every block of the old one.
LEMMA GrowKeeps ==
    ASSUME Running, Settled' = Settled, UNCHANGED <<acked, cache>>,
           \A i, b : HasBlock(MemLayout, i, b) => HasBlock(MemLayout', i, b)
    PROVE  Acked(MemLayout, Settled)' /\ CacheOK'
<1>1. Acked(MemLayout, Settled) /\ CacheOK
  BY DEF Running
<1>2. \A i \in IdsOf(acked') : i < Settled' /\ HasBlock(MemLayout', i, acked'[i])
  BY <1>1 DEF Acked
<1>3. cache' # None => HasBlock(MemLayout', Settled' - 1, cache')
  BY <1>1 DEF CacheOK
<1>. QED BY <1>2, <1>3 DEF Acked, CacheOK

\* The root becomes directory 1, with the same files.
LEMMA RelocateRuns ==
    ASSUME Inv, Inv', StoreInv, RelocateRootStore
    PROVE  StoreInv'
<1> DEFINE dir    == mem.dirs[Root]
           closed == CloseDir(dir, disk[Root])
           opened == [dir EXCEPT !.files =
                        [f \in IdsOf(dir.files) |-> MountFile(closed.files[f], dir.files[f].start)]]
<1>1. /\ up /\ up' /\ Running /\ FilesOK /\ UNCHANGED <<top, acked, cache, tries>>
      /\ tries \in Nat /\ op.pc = "route" /\ op' = [op EXCEPT !.pc = "relocated"]
      /\ mem.root /\ ~DirFits(Root) /\ mem.total \in Nat
      /\ disk' = Only(1, closed)
      /\ mem' = [mem EXCEPT !.root = FALSE, !.cur = 1, !.dirs = Only(1, opened)]
  BY DEF RelocateRootStore, At, Go, Process, History, StoreInv, Running, MemOK
<1>2. /\ IdsOf(mem.dirs) = {Root} /\ dir.start = 0 /\ Root \in IdsOf(disk)
      /\ DOMAIN dir = {"start", "cur", "total", "files"} /\ dir.cur \in Nat /\ dir.total \in Nat
      /\ \A f \in IdsOf(dir.files) : MemFileOK(Root, f)
  BY <1>1 DEF Running, MemOK, Inv, Holds
<1>3. \A f \in IdsOf(disk[Root].files) :
         /\ DOMAIN disk[Root].files[f] = {"hdr", "recs"}
         /\ disk[Root].files[f].recs \in Seq(Blocks)
         /\ disk[Root].files[f].hdr = Len(disk[Root].files[f].recs)
  BY <1>1, <1>2 DEF FilesOK
<1>4. /\ closed.idx.starts = Starts(dir.files) /\ IdsOf(closed.files) = IdsOf(disk[Root].files)
      /\ \A f \in IdsOf(closed.files) :
            /\ DOMAIN closed.files[f] = {"hdr", "recs"}
            /\ closed.files[f].recs = disk[Root].files[f].recs
            /\ closed.files[f].hdr = Len(disk[Root].files[f].recs)
  <2>1. /\ closed.idx.starts = Starts(dir.files) /\ IdsOf(closed.files) = IdsOf(disk[Root].files)
        /\ \A f \in IdsOf(closed.files) : closed.files[f] =
              IF f \in IdsOf(dir.files)
              THEN [disk[Root].files[f] EXCEPT !.hdr = dir.files[f].count]
              ELSE disk[Root].files[f]
    BY DEF CloseDir, Index, IdsOf
  <2> HIDE DEF closed, dir
  <2>. QED BY <1>2, <1>3, <2>1, ZenonT(60) DEF MemFileOK, dir
<1> HIDE DEF closed
<1>5. /\ DOMAIN opened = {"start", "cur", "total", "files"}
      /\ opened.start = dir.start /\ opened.cur = dir.cur /\ opened.total = dir.total
      /\ IdsOf(opened.files) = IdsOf(dir.files)
      /\ \A f \in IdsOf(dir.files) :
            /\ DOMAIN opened.files[f] = {"start", "count", "built", "skip"}
            /\ opened.files[f].start = dir.files[f].start
            /\ opened.files[f].count = closed.files[f].hdr
            /\ opened.files[f].skip = 0
  BY <1>2 DEF IdsOf, MountFile, NewFile
<1> HIDE DEF opened
<1>6. Starts(opened.files) = Starts(dir.files)
  BY <1>5 DEF Starts, IdsOf
<1>7. /\ IdsOf(mem'.dirs) = {1} /\ mem'.dirs[1] = opened /\ mem'.root = FALSE /\ mem'.cur = 1
      /\ mem'.total = mem.total /\ IdsOf(disk') = {1} /\ disk'[1] = closed
      /\ op'.pc = "relocated" /\ op'.blk = op.blk
  BY <1>1 DEF Only, IdsOf, Inv, Fields
<1> HIDE DEF dir
<1>8. /\ DOMAIN MemLayout = {Root} /\ DOMAIN MemLayout' = {1}
      /\ MemLayout'[1] = MemLayout[Root]
  <2>1. /\ MemLayout[Root] = [start |-> dir.start, total |-> dir.total + 0, starts |-> Starts(dir.files),
                              recs |-> [f \in IdsOf(dir.files) |-> disk[Root].files[f].recs]]
        /\ DOMAIN MemLayout = {Root}
    BY <1>1, <1>2 DEF MemLayout, dir
  <2>2. /\ MemLayout'[1] = [start |-> opened.start, total |-> opened.total + 0, starts |-> Starts(opened.files),
                            recs |-> [f \in IdsOf(opened.files) |-> closed.files[f].recs]]
        /\ DOMAIN MemLayout' = {1}
    BY <1>7 DEF MemLayout
  <2>3. [f \in IdsOf(opened.files) |-> closed.files[f].recs]
           = [f \in IdsOf(dir.files) |-> disk[Root].files[f].recs]
    BY <1>2, <1>4, <1>5 DEF MemFileOK
  <2>. QED BY <1>5, <1>6, <2>1, <2>2, <2>3
<1>9. MemTotal' = MemTotal /\ Settled' = Settled
  BY <1>1, <1>7 DEF MemTotal, Settled, After
<1>10. /\ LaidOut(MemLayout', MemTotal')
       /\ \A i, b : HasBlock(MemLayout, i, b) => HasBlock(MemLayout', i, b)
  BY <1>1, <1>8, <1>9, RenameDir DEF Running
<1>11. Acked(MemLayout, Settled)' /\ CacheOK'
  BY <1>1, <1>9, <1>10, GrowKeeps
<1>12. FilesOK'
  BY <1>1, <1>3, <1>4, <1>7 DEF FilesOK
<1>13. MemOK'
  <2>1. \A f \in IdsOf(dir.files) : MemFileOK(1, f)'
    BY <1>2, <1>4, <1>5, <1>7 DEF MemFileOK, dir
  <2>. QED BY <1>1, <1>2, <1>5, <1>7, <2>1 DEF MemOK
<1>14. BuiltOK'
  <2>1. ~DirFits(1)'
    BY <1>1, <1>2, <1>5, <1>7 DEF DirFits, dir
  <2>. QED BY <1>7, <2>1 DEF BuiltOK
<1>15. FileIndexOK'
  BY <1>4, <1>6, <1>7 DEF FileIndexOK
<1>16. FilesFilled'
  <2>1. \A f \in IdsOf(dir.files) : disk[Root].files[f].recs # <<>> /\ f \in IdsOf(closed.files)
    BY <1>1, <1>2, <1>4 DEF Running, FilesFilled, MemFileOK, dir
  <2>. QED BY <1>4, <1>5, <1>7, <2>1 DEF FilesFilled
<1>17. OpOK' /\ DirIndexOK'
  BY <1>1, <1>7 DEF Running, OpOK, DirIndexOK, Active, After
<1>. QED BY <1>1, <1>10, <1>11, <1>12, <1>13, <1>14, <1>15, <1>16, <1>17 DEF StoreInv, Running

\* The last directory is the one with the largest number.
LEMMA LastIsLast ==
    ASSUME Running, op.pc \in Active
    PROVE  /\ op.dir = LastDir
           /\ \A e \in IdsOf(mem.dirs) : e <= op.dir
<1>1. \A e \in IdsOf(mem.dirs) : e \in Nat
  BY MemLayoutIs DEF Running, LaidOut
<1>2. op.dir = LastDir
  BY DEF Running, OpOK
<1>3. mem.root => \A e \in IdsOf(mem.dirs) : e <= op.dir
  BY <1>1, <1>2 DEF LastDir, Running, MemOK
<1>4. ~mem.root => \A e \in IdsOf(mem.dirs) : e <= op.dir
  BY <1>2 DEF LastDir, Running, MemOK
<1>. QED BY <1>2, <1>3, <1>4

\* A directory is made.
LEMMA NewDirRuns ==
    ASSUME Inv, Inv', StoreInv, CreateFileDirStore, mem.cur + 1 \notin IdsOf(disk)
    PROVE  StoreInv'
<1>0. PICK d : d = mem.cur + 1
  OBVIOUS
<1> DEFINE blank == [idx |-> Index(<<>>), files |-> <<>>]
           fresh == [start |-> mem.total, cur |-> 0, total |-> 0, files |-> <<>>]
<1>1. /\ up /\ up' /\ Running /\ FilesOK /\ UNCHANGED <<top, acked, cache, tries>>
      /\ tries \in Nat /\ op.pc = "route" /\ ~mem.root /\ mem.total \in Nat /\ mem.cur \in Nat
      /\ op' = [op EXCEPT !.pc = "open", !.dir = d] /\ disk' = With(disk, d, blank)
      /\ mem' = [mem EXCEPT !.cur = d, !.dirs = With(@, d, fresh)]
      /\ d \notin IdsOf(disk) /\ IdsOf(mem.dirs) \subseteq IdsOf(disk) /\ IdsOf(mem.dirs) # {}
  BY <1>0 DEF CreateFileDirStore, NeedsDir, At, GoTo, Process, History, StoreInv, Running, MemOK,
     Inv, Holds
<1>2. /\ op'.pc = "open" /\ op'.dir = d /\ op'.blk = op.blk
      /\ mem'.root = mem.root /\ mem'.cur = d /\ mem'.total = mem.total
      /\ IdsOf(mem'.dirs) = IdsOf(mem.dirs) \cup {d} /\ mem'.dirs[d] = fresh
      /\ \A e \in IdsOf(mem.dirs) : e # d /\ mem'.dirs[e] = mem.dirs[e]
      /\ IdsOf(disk') = IdsOf(disk) \cup {d} /\ disk'[d] = blank
      /\ \A e \in IdsOf(disk) : e # d /\ disk'[e] = disk[e]
  BY <1>1 DEF With, IdsOf, Inv, Fields
<1>3. /\ blank.files = <<>> /\ blank.idx.starts = <<>> /\ fresh.start = mem.total /\ fresh.cur = 0
      /\ fresh.total = 0 /\ fresh.files = <<>> /\ DOMAIN fresh = {"start", "cur", "total", "files"}
      /\ IdsOf(<<>>) = {} /\ Starts(<<>>) = <<>>
  BY DEF Index, IdsOf, Starts
<1> HIDE DEF blank, fresh
<1>4. /\ \A e \in IdsOf(mem.dirs) : /\ DOMAIN mem.dirs[e] = {"start", "cur", "total", "files"}
                                    /\ mem.dirs[e].cur \in Nat /\ mem.dirs[e].total \in Nat
                                    /\ \A f \in IdsOf(mem.dirs[e].files) : MemFileOK(e, f)
                                    /\ e \in Nat /\ e <= mem.cur /\ e < d
                                    /\ disk[e].idx.starts = Starts(mem.dirs[e].files)
      /\ d \in Nat
  <2>1. \A e \in IdsOf(mem.dirs) : e \in Nat
    BY <1>1, MemLayoutIs DEF Running, LaidOut
  <2>2. \A e \in IdsOf(mem.dirs) : disk[e].idx.starts = Starts(mem.dirs[e].files)
    BY <1>1 DEF Running, FileIndexOK, NewFileUnsaved
  <2>. QED BY <1>0, <1>1, <2>1, <2>2 DEF Running, MemOK
<1>5. /\ DOMAIN MemLayout = IdsOf(mem.dirs) /\ DOMAIN MemLayout' = DOMAIN MemLayout \cup {d}
      /\ \A e \in DOMAIN MemLayout : MemLayout'[e] = MemLayout[e]
      /\ MemLayout'[d].start = mem.total /\ MemLayout'[d].total = 0
      /\ MemLayout'[d].starts = [x \in {} |-> 0]
  <2>1. \A e \in IdsOf(mem.dirs) : MemLayout'[e] = MemLayout[e]
    BY <1>1, <1>2 DEF MemLayout
  <2>2. DOMAIN MemLayout = IdsOf(mem.dirs) /\ DOMAIN MemLayout' = IdsOf(mem'.dirs)
    BY DEF MemLayout
  <2>3. MemLayout'[d].start = mem.total /\ MemLayout'[d].total = 0 + 0
        /\ MemLayout'[d].starts = Starts(<<>>)
    BY <1>2, <1>3 DEF MemLayout
  <2>4. Starts(<<>>) = [x \in {} |-> 0]
    BY DEF Starts
  <2>. QED BY <1>2, <2>1, <2>2, <2>3, <2>4
<1>6. MemTotal = mem.total /\ MemTotal' = mem.total /\ Settled' = Settled
  BY <1>1, <1>2 DEF MemTotal, Settled, After
<1>7. LaidOut(MemLayout', MemTotal') /\ Extends(MemLayout, MemLayout')
  <2>1. LaidOut(MemLayout, mem.total)
    BY <1>1, <1>6 DEF Running
  <2>. QED BY <1>4, <1>5, <1>6, <2>1, AddDir, SMTT(30)
<1>8. Acked(MemLayout, Settled)' /\ CacheOK'
  <2>1. \A i, b : HasBlock(MemLayout, i, b) => HasBlock(MemLayout', i, b)
    BY <1>7, HasMore
  <2>. QED BY <1>1, <1>6, <2>1, GrowKeeps
<1>9. FilesOK'
  <2>1. \A e \in IdsOf(disk') : \A f \in IdsOf(disk'[e].files) :
           /\ DOMAIN disk'[e].files[f] = {"hdr", "recs"}
           /\ disk'[e].files[f].recs \in Seq(Blocks)
           /\ disk'[e].files[f].hdr = Len(disk'[e].files[f].recs)
    BY <1>1, <1>2, <1>3 DEF FilesOK
  <2>. QED BY <1>1, <2>1 DEF FilesOK
<1>10. MemOK'
  <2>1. \A e \in IdsOf(mem.dirs) : \A f \in IdsOf(mem.dirs[e].files) : MemFileOK(e, f)'
    <3> TAKE e \in IdsOf(mem.dirs)
    <3> TAKE f \in IdsOf(mem.dirs[e].files)
    <3>1. MemFileOK(e, f) /\ mem'.dirs[e] = mem.dirs[e] /\ disk'[e] = disk[e]
      BY <1>1, <1>2, <1>4
    <3>. QED BY <3>1 DEF MemFileOK
  <2>2. \A e \in IdsOf(mem'.dirs) :
           /\ DOMAIN mem'.dirs[e] = {"start", "cur", "total", "files"}
           /\ mem'.dirs[e].cur \in Nat /\ mem'.dirs[e].total \in Nat
           /\ \A f \in IdsOf(mem'.dirs[e].files) : MemFileOK(e, f)'
           /\ e <= d
    BY <1>2, <1>3, <1>4, <2>1
  <2>3. mem'.root \in BOOLEAN /\ ~mem'.root /\ mem'.cur \in Nat /\ mem'.total \in Nat
    BY <1>1, <1>2, <1>4 DEF Running, MemOK
  <2>. QED BY <1>2, <2>2, <2>3 DEF MemOK
<1>11. BuiltOK'
  BY <1>1, <1>2, <1>3 DEF BuiltOK, LastDir
<1>12. FileIndexOK'
  BY <1>1, <1>2, <1>3, <1>4, SMTT(30) DEF FileIndexOK
<1>13. FilesFilled'
  <2>1. \A e \in IdsOf(mem.dirs) : \A f \in IdsOf(mem.dirs[e].files) : disk[e].files[f].recs # <<>>
    BY <1>1 DEF Running, FilesFilled
  <2>. QED BY <1>1, <1>2, <1>3, <2>1 DEF FilesFilled
<1>14. OpOK'
  <2>1. DirFits(d)'
    <3>1. Cardinality(IdsOf(mem'.dirs[d].files)) = 0
      BY <1>2, <1>3, FS_EmptySet
    <3>. QED BY <1>2, <3>1, LimitsAssumption DEF DirFits
  <2>2. op.blk \in Blocks
    BY <1>1 DEF Running, OpOK
  <2>. QED BY <1>1, <1>2, <2>1, <2>2 DEF OpOK, Active, After, LastDir
<1>15. DirIndexOK'
  <2>1. top.starts = Starts(mem.dirs)
    BY <1>1 DEF Running, DirIndexOK, NewDirUnsaved
  <2>2. Starts(mem.dirs) = [e \in IdsOf(Starts(mem'.dirs)) \ {d} |-> Starts(mem'.dirs)[e]]
    <3>1. IdsOf(Starts(mem'.dirs)) = IdsOf(mem.dirs) \cup {d} /\ IdsOf(Starts(mem.dirs)) = IdsOf(mem.dirs)
      BY <1>2 DEF Starts, IdsOf
    <3>2. \A e \in IdsOf(mem.dirs) : Starts(mem'.dirs)[e] = Starts(mem.dirs)[e] /\ e # d
      BY <1>2 DEF Starts, IdsOf
    <3>3. Starts(mem.dirs) = [e \in IdsOf(mem.dirs) |-> Starts(mem.dirs)[e]]
      BY DEF Starts, IdsOf
    <3>4. (IdsOf(mem.dirs) \cup {d}) \ {d} = IdsOf(mem.dirs)
      BY <3>2
    <3>. QED BY <3>1, <3>2, <3>3, <3>4
  <2>3. IdsOf(Starts(mem'.dirs)) # {d}
    BY <1>1, <1>2 DEF Starts, IdsOf
  <2>. QED BY <1>1, <1>2, <1>3, <1>5, <2>1, <2>2, <2>3 DEF DirIndexOK, NewDirUnsaved, After
<1>. QED BY <1>1, <1>7, <1>8, <1>9, <1>10, <1>11, <1>12, <1>13, <1>14, <1>15 DEF StoreInv, Running

\* The entries of a map with one more.
LEMMA WithIs ==
    ASSUME NEW m, NEW k, NEW v
    PROVE  /\ IdsOf(With(m, k, v)) = IdsOf(m) \cup {k} /\ With(m, k, v)[k] = v
           /\ \A i \in IdsOf(m) : i # k => With(m, k, v)[i] = m[i]
BY DEF With, IdsOf

\* A file is made in the last directory.
LEMMA NewFileRuns ==
    ASSUME Inv, Inv', StoreInv,
           CreateBlockFile, activeDir.cur + 1 \notin IdsOf(disk[op.dir].files)
    PROVE  StoreInv'
<1>0. PICK d, c : d = op.dir /\ c = activeDir.cur + 1
  OBVIOUS
<1> DEFINE blank == [hdr |-> 0, recs |-> <<>>]
           fresh == NewFile(mem.dirs[d].total)
<1>1. /\ up /\ up' /\ Running /\ FilesOK /\ UNCHANGED <<top, acked, cache, tries>>
      /\ tries \in Nat /\ op.pc = "open" /\ op' = [op EXCEPT !.pc = "write"]
      /\ disk' = [disk EXCEPT ![d].files = With(disk[d].files, c, blank)]
      /\ mem' = [mem EXCEPT !.dirs[d].cur = c, !.dirs[d].files = With(mem.dirs[d].files, c, fresh)]
      /\ c \notin IdsOf(disk[d].files) /\ c = mem.dirs[d].cur + 1
      /\ d \in IdsOf(mem.dirs) /\ IdsOf(mem.dirs) \subseteq IdsOf(disk) /\ DirFits(d)
      /\ mem.total \in Nat /\ mem.cur \in Nat
  <2>1. up /\ Running /\ FilesOK /\ tries \in Nat /\ op.pc = "open"
    BY DEF CreateBlockFile, At, StoreInv
  <2>2. d \in IdsOf(mem.dirs) /\ IdsOf(mem.dirs) \subseteq IdsOf(disk) /\ DirFits(d)
        /\ mem.total \in Nat /\ mem.cur \in Nat
    BY <1>0, <2>1 DEF Inv, Holds, Active, Running, OpOK, MemOK
  <2>3. /\ disk' = [disk EXCEPT ![d].files = With(disk[d].files, c, blank)]
        /\ mem' = [mem EXCEPT !.dirs[d].cur = c, !.dirs[d].files = With(mem.dirs[d].files, c, fresh)]
    <3>1. mem' = [mem EXCEPT !.dirs[d].cur = c, !.dirs[d].files = With(@, c, fresh)]
      BY <1>0 DEF CreateBlockFile, activeDir
    <3>2. disk' = [disk EXCEPT ![d].files = With(@, c, blank)]
      BY <1>0 DEF CreateBlockFile, activeDir
    <3> HIDE DEF blank, fresh
    <3>. QED BY <3>1, <3>2
  <2>. QED BY <1>0, <2>1, <2>2, <2>3 DEF CreateBlockFile, Go, Process, History, activeDir
<1>2. \A e \in IdsOf(mem.dirs) : /\ DOMAIN mem.dirs[e] = {"start", "cur", "total", "files"}
                                 /\ mem.dirs[e].cur \in Nat /\ mem.dirs[e].total \in Nat
                                 /\ \A f \in IdsOf(mem.dirs[e].files) : MemFileOK(e, f)
                                 /\ e <= d
                                 /\ disk[e].idx.starts = Starts(mem.dirs[e].files)
                                 /\ \A f \in IdsOf(mem.dirs[e].files) : disk[e].files[f].recs # <<>>
  <2>1. \A e \in IdsOf(mem.dirs) : disk[e].idx.starts = Starts(mem.dirs[e].files)
    BY <1>1 DEF Running, FileIndexOK, NewFileUnsaved
  <2>2. \A e \in IdsOf(mem.dirs) : \A f \in IdsOf(mem.dirs[e].files) : disk[e].files[f].recs # <<>>
    BY <1>1 DEF Running, FilesFilled
  <2>. QED BY <1>0, <1>1, <2>1, <2>2, LastIsLast DEF Running, MemOK, Active
<1>3. /\ blank.hdr = 0 /\ blank.recs = <<>> /\ DOMAIN blank = {"hdr", "recs"}
      /\ fresh.start = mem.dirs[d].total /\ fresh.count = 0 /\ fresh.skip = 0
      /\ DOMAIN fresh = {"start", "count", "built", "skip"}
  BY DEF NewFile
<1> HIDE DEF blank, fresh
<1>4. /\ op'.pc = "write" /\ op'.dir = d /\ op'.blk = op.blk
      /\ mem'.root = mem.root /\ mem'.cur = mem.cur /\ mem'.total = mem.total
      /\ IdsOf(mem'.dirs) = IdsOf(mem.dirs)
      /\ \A e \in IdsOf(mem.dirs) : e # d => mem'.dirs[e] = mem.dirs[e]
      /\ DOMAIN mem'.dirs[d] = DOMAIN mem.dirs[d] /\ mem'.dirs[d].start = mem.dirs[d].start
      /\ mem'.dirs[d].total = mem.dirs[d].total /\ mem'.dirs[d].cur = c
      /\ mem'.dirs[d].files = With(mem.dirs[d].files, c, fresh)
  <2>1. op'.pc = "write" /\ op'.dir = d /\ op'.blk = op.blk
    BY <1>0, <1>1 DEF Inv, Fields
  <2>2. PICK w : w = With(mem.dirs[d].files, c, fresh)
    OBVIOUS
  <2>3. mem' = [mem EXCEPT !.dirs[d].cur = c, !.dirs[d].files = w]
    BY <1>1, <2>2
  <2>4. DOMAIN mem = {"root", "cur", "total", "dirs"}
    BY DEF Inv, Fields
  <2>5. DOMAIN mem.dirs[d] = {"start", "cur", "total", "files"} /\ d \in DOMAIN mem.dirs
    BY <1>1, <1>2 DEF IdsOf
  <2>6. /\ mem'.root = mem.root /\ mem'.cur = mem.cur /\ mem'.total = mem.total
        /\ IdsOf(mem'.dirs) = IdsOf(mem.dirs)
        /\ \A e \in IdsOf(mem.dirs) : e # d => mem'.dirs[e] = mem.dirs[e]
    BY <2>3, <2>4 DEF IdsOf
  <2>7. /\ DOMAIN mem'.dirs[d] = DOMAIN mem.dirs[d] /\ mem'.dirs[d].start = mem.dirs[d].start
        /\ mem'.dirs[d].total = mem.dirs[d].total /\ mem'.dirs[d].cur = c
        /\ mem'.dirs[d].files = w
    BY <2>3, <2>4, <2>5
  <2>. QED BY <2>1, <2>2, <2>6, <2>7
<1>5. /\ IdsOf(disk') = IdsOf(disk)
      /\ \A e \in IdsOf(disk) : /\ e # d => disk'[e] = disk[e]
                                /\ disk'[e].idx = disk[e].idx
      /\ disk'[d].files = With(disk[d].files, c, blank)
  BY <1>1 DEF Inv, Fields, IdsOf
<1>6. /\ c \in Nat
      /\ \A f \in IdsOf(mem.dirs[d].files) : f \in IdsOf(disk[d].files) /\ f # c /\ f \in Nat /\ f < c
  <2>1. \A f \in IdsOf(mem.dirs[d].files) : f \in Nat
    BY <1>1, MemLayoutIs DEF Running, LaidOut, DirLaidOut
  <2>2. c = mem.dirs[d].cur + 1 /\ mem.dirs[d].cur \in Nat
    BY <1>1, <1>2
  <2>3. \A f \in IdsOf(mem.dirs[d].files) : f \in IdsOf(disk[d].files) /\ f <= mem.dirs[d].cur
    BY <1>1, <1>2 DEF MemFileOK
  <2>. QED BY <2>1, <2>2, <2>3
<1>7. /\ IdsOf(mem'.dirs[d].files) = IdsOf(mem.dirs[d].files) \cup {c} /\ mem'.dirs[d].files[c] = fresh
      /\ \A f \in IdsOf(mem.dirs[d].files) : mem'.dirs[d].files[f] = mem.dirs[d].files[f]
      /\ IdsOf(disk'[d].files) = IdsOf(disk[d].files) \cup {c} /\ disk'[d].files[c] = blank
      /\ \A f \in IdsOf(disk[d].files) : disk'[d].files[f] = disk[d].files[f]
  <2>1. /\ mem'.dirs[d].files = With(mem.dirs[d].files, c, fresh)
        /\ disk'[d].files = With(disk[d].files, c, blank)
        /\ c \notin IdsOf(disk[d].files)
    BY <1>1, <1>4, <1>5
  <2>2. /\ IdsOf(mem'.dirs[d].files) = IdsOf(mem.dirs[d].files) \cup {c}
        /\ mem'.dirs[d].files[c] = fresh
        /\ \A f \in IdsOf(mem.dirs[d].files) : f # c => mem'.dirs[d].files[f] = mem.dirs[d].files[f]
    BY <2>1, WithIs
  <2>3. /\ IdsOf(disk'[d].files) = IdsOf(disk[d].files) \cup {c}
        /\ disk'[d].files[c] = blank
        /\ \A f \in IdsOf(disk[d].files) : f # c => disk'[d].files[f] = disk[d].files[f]
    BY <2>1, WithIs
  <2>. QED BY <1>6, <2>1, <2>2, <2>3
<1>8. /\ DOMAIN MemLayout' = DOMAIN MemLayout /\ DOMAIN MemLayout = IdsOf(mem.dirs)
      /\ \A e \in DOMAIN MemLayout \ {d} : MemLayout'[e] = MemLayout[e]
      /\ MemLayout'[d].start = MemLayout[d].start /\ MemLayout'[d].total = MemLayout[d].total
      /\ MemLayout[d].total = mem.dirs[d].total
      /\ MemLayout'[d].starts = With(MemLayout[d].starts, c, MemLayout[d].total)
      /\ DOMAIN MemLayout[d].starts = IdsOf(mem.dirs[d].files)
      /\ \A f \in DOMAIN MemLayout[d].starts : MemLayout'[d].recs[f] = MemLayout[d].recs[f]
      /\ MemLayout'[d].recs[c] = <<>>
  <2>1. \A e \in IdsOf(mem.dirs) : e # d => MemLayout'[e] = MemLayout[e]
    BY <1>1, <1>4, <1>5 DEF MemLayout
  <2>2. /\ MemLayout[d] = [start |-> mem.dirs[d].start, total |-> mem.dirs[d].total + 0,
                           starts |-> Starts(mem.dirs[d].files),
                           recs |-> [f \in IdsOf(mem.dirs[d].files) |-> disk[d].files[f].recs]]
        /\ MemLayout'[d] = [start |-> mem'.dirs[d].start, total |-> mem'.dirs[d].total + 0,
                           starts |-> Starts(mem'.dirs[d].files),
                           recs |-> [f \in IdsOf(mem'.dirs[d].files) |-> disk'[d].files[f].recs]]
        /\ DOMAIN MemLayout = IdsOf(mem.dirs) /\ DOMAIN MemLayout' = IdsOf(mem'.dirs)
    BY <1>1, <1>4 DEF MemLayout
  <2>3. Starts(mem'.dirs[d].files) = With(Starts(mem.dirs[d].files), c, mem.dirs[d].total)
    BY <1>3, <1>4, <1>6, <1>7, SMTT(30) DEF Starts, With, IdsOf
  <2>4. DOMAIN Starts(mem.dirs[d].files) = IdsOf(mem.dirs[d].files)
    BY DEF Starts, IdsOf
  <2>5. mem.dirs[d].total + 0 = mem.dirs[d].total /\ mem'.dirs[d].total + 0 = mem.dirs[d].total
    BY <1>1, <1>2, <1>4, SMTT(30)
  <2>6. \A f \in IdsOf(mem.dirs[d].files) : disk'[d].files[f].recs = disk[d].files[f].recs
    BY <1>6, <1>7
  <2>7. disk'[d].files[c].recs = <<>>
    BY <1>3, <1>7
  <2>. QED BY <1>4, <1>7, <2>1, <2>2, <2>3, <2>4, <2>5, <2>6, <2>7, SMTT(30)
<1>9. MemTotal' = MemTotal /\ Settled' = Settled
  BY <1>1, <1>4 DEF MemTotal, Settled, After
<1>10. LaidOut(MemLayout', MemTotal') /\ Extends(MemLayout, MemLayout')
  <2>1. LaidOut(MemLayout, MemTotal) /\ c \in Nat
    BY <1>1, <1>2 DEF Running
  <2>. QED BY <1>1, <1>2, <1>6, <1>8, <1>9, <2>1, AddFile, SMTT(30)
<1>11. Acked(MemLayout, Settled)' /\ CacheOK'
  <2>1. \A i, b : HasBlock(MemLayout, i, b) => HasBlock(MemLayout', i, b)
    BY <1>10, HasMore
  <2>. QED BY <1>1, <1>9, <2>1, GrowKeeps
<1>12. FilesOK'
  <2>1. \A e \in IdsOf(disk) : \A f \in IdsOf(disk[e].files) :
           /\ DOMAIN disk[e].files[f] = {"hdr", "recs"}
           /\ disk[e].files[f].recs \in Seq(Blocks)
           /\ disk[e].files[f].hdr = Len(disk[e].files[f].recs)
    BY <1>1 DEF FilesOK
  <2>2. \A e \in IdsOf(disk') : \A f \in IdsOf(disk'[e].files) :
           /\ DOMAIN disk'[e].files[f] = {"hdr", "recs"}
           /\ disk'[e].files[f].recs \in Seq(Blocks)
           /\ disk'[e].files[f].hdr = Len(disk'[e].files[f].recs)
    <3> TAKE e \in IdsOf(disk')
    <3> TAKE f \in IdsOf(disk'[e].files)
    <3>1. e \in IdsOf(disk)
      BY <1>5
    <3>2. CASE e = d /\ f = c
      <4>1. <<>> \in Seq(Blocks) /\ Len(<<>>) = 0
        OBVIOUS
      <4>. QED BY <1>3, <1>7, <3>2, <4>1
    <3>3. CASE ~(e = d /\ f = c)
      <4>1. f \in IdsOf(disk[e].files) /\ disk'[e].files[f] = disk[e].files[f]
        BY <1>5, <1>7, <3>1, <3>3
      <4>. QED BY <2>1, <3>1, <4>1
    <3>. QED BY <3>2, <3>3
  <2>3. top'.starts = [i \in IdsOf(top'.starts) |-> top'.starts[i]]
    BY <1>1 DEF FilesOK
  <2>. QED BY <2>2, <2>3 DEF FilesOK
<1>13. MemOK'
  <2>1. \A e \in IdsOf(mem.dirs) : \A f \in IdsOf(mem'.dirs[e].files) : MemFileOK(e, f)'
    <3> TAKE e \in IdsOf(mem.dirs)
    <3> TAKE f \in IdsOf(mem'.dirs[e].files)
    <3>1. CASE e # d
      <4>1. MemFileOK(e, f) /\ mem'.dirs[e] = mem.dirs[e] /\ disk'[e] = disk[e]
        BY <1>1, <1>2, <1>4, <1>5, <3>1
      <4>. QED BY <4>1 DEF MemFileOK
    <3>2. CASE e = d /\ f = c
      <4>1. /\ mem'.dirs[e].files[f] = fresh /\ disk'[e].files[f] = blank
            /\ f \in IdsOf(disk'[e].files) /\ mem'.dirs[e].cur = c /\ c \in Nat
        BY <1>4, <1>6, <1>7, <3>2
      <4>2. Len(<<>>) = 0
        OBVIOUS
      <4>. QED BY <1>3, <3>2, <4>1, <4>2 DEF MemFileOK
    <3>3. CASE e = d /\ f # c
      <4>1. /\ MemFileOK(e, f) /\ mem'.dirs[e].files[f] = mem.dirs[e].files[f]
            /\ disk'[e].files[f] = disk[e].files[f] /\ f \in IdsOf(disk'[e].files)
        BY <1>2, <1>6, <1>7, <3>3
      <4>2. f <= mem'.dirs[e].cur
        <5>1. f \in IdsOf(mem.dirs[d].files) /\ c \in Nat
          BY <1>6, <1>7, <3>3
        <5>. QED BY <1>4, <1>6, <3>3, <5>1
      <4>. QED BY <4>1, <4>2 DEF MemFileOK
    <3>. QED BY <3>1, <3>2, <3>3
  <2>2. \A e \in IdsOf(mem'.dirs) :
           /\ DOMAIN mem'.dirs[e] = {"start", "cur", "total", "files"}
           /\ mem'.dirs[e].cur \in Nat /\ mem'.dirs[e].total \in Nat
           /\ \A f \in IdsOf(mem'.dirs[e].files) : MemFileOK(e, f)'
    <3> TAKE e \in IdsOf(mem'.dirs)
    <3>1. e \in IdsOf(mem.dirs)
      BY <1>4
    <3>2. CASE e = d
      <4>1. c \in Nat
        BY <1>1, <1>2
      <4>. QED BY <1>2, <1>4, <2>1, <3>1, <3>2, <4>1
    <3>3. CASE e # d
      BY <1>2, <1>4, <2>1, <3>1, <3>3
    <3>. QED BY <3>2, <3>3
  <2>3. mem'.dirs[Root].start = mem.dirs[Root].start \/ Root \notin IdsOf(mem.dirs)
    BY <1>4
  <2>. QED BY <1>1, <1>4, <2>2, <2>3 DEF Running, MemOK
<1>14. Indexed(d, c)'
  BY <1>3, <1>7 DEF Indexed
<1>15. BuiltOK'
  <2> SUFFICES ASSUME NEW f \in IdsOf(mem'.dirs[d].files),
                      \A g \in IdsOf(mem'.dirs[d].files) : g <= f
               PROVE  f = c
    <3>1. LastDir' = d
      BY <1>0, <1>1, <1>4, LastIsLast DEF LastDir, Active
    <3>. QED BY <1>14, <3>1 DEF BuiltOK
  <2>1. c <= f /\ c \in Nat /\ (f \in IdsOf(mem.dirs[d].files) \/ f = c)
    BY <1>6, <1>7
  <2>. QED BY <1>6, <2>1
<1>16. NewFileUnsaved(d)'
  <2> DEFINE s == Starts(mem'.dirs[d].files)
  <2>1. disk'[d].idx.starts = [f \in IdsOf(s) \ {c} |-> s[f]]
    <3>1. disk'[d].idx.starts = Starts(mem.dirs[d].files)
      BY <1>1, <1>2, <1>5
    <3>2. IdsOf(s) = IdsOf(mem.dirs[d].files) \cup {c}
      BY <1>7 DEF Starts, IdsOf
    <3>3. IdsOf(s) \ {c} = IdsOf(mem.dirs[d].files)
      BY <1>6, <3>2
    <3>4. \A f \in IdsOf(mem.dirs[d].files) : s[f] = mem.dirs[d].files[f].start
      BY <1>7 DEF Starts, IdsOf
    <3> HIDE DEF s
    <3>. QED BY <3>1, <3>3, <3>4 DEF Starts, IdsOf
  <2>2. Len(disk'[d].files[c].recs) = 0
    BY <1>3, <1>7
  <2>. QED BY <1>4, <2>1, <2>2 DEF NewFileUnsaved
<1>17. FileIndexOK'
  BY <1>1, <1>2, <1>4, <1>5, <1>16, SMTT(30) DEF FileIndexOK
<1>18. FilesFilled'
  <2>1. \A e \in IdsOf(mem.dirs) \ {d} : \A f \in IdsOf(mem'.dirs[e].files) : disk'[e].files[f].recs # <<>>
    BY <1>1, <1>2, <1>4, <1>5, SMTT(30)
  <2>2. \A f \in IdsOf(mem'.dirs[d].files) : f = c \/ disk'[d].files[f].recs # <<>>
    <3> TAKE f \in IdsOf(mem'.dirs[d].files)
    <3>1. f # c => f \in IdsOf(mem.dirs[d].files) /\ f \in IdsOf(disk[d].files)
      BY <1>6, <1>7
    <3>. QED BY <1>1, <1>2, <1>7, <3>1, SMTT(30)
  <2>. QED BY <1>4, <1>16, <2>1, <2>2 DEF FilesFilled
<1>19. OpOK'
  <2>1. op.blk \in Blocks /\ d = LastDir
    BY <1>0, <1>1 DEF Running, OpOK, Active
  <2>2. activeDir'.cur = c /\ c \in IdsOf(activeDir'.files)
    BY <1>4, <1>7 DEF activeDir
  <2>3. Indexed(op.dir, activeDir.cur)'
    BY <1>4, <1>14, <2>2 DEF Indexed
  <2>. QED BY <1>4, <2>1, <2>2, <2>3 DEF OpOK, Active, After, LastDir
<1>20. DirIndexOK'
  <2>1. Starts(mem'.dirs) = Starts(mem.dirs)
    BY <1>4 DEF Starts, IdsOf
  <2>2. NewDirUnsaved => NewDirUnsaved'
    <3> SUFFICES ASSUME NewDirUnsaved PROVE NewDirUnsaved'
      OBVIOUS
    <3>1. /\ IdsOf(Starts(mem.dirs)) # {d} /\ MemLayout[d].total = 0
          /\ top.starts = [e \in IdsOf(Starts(mem.dirs)) \ {d} |-> Starts(mem.dirs)[e]]
      BY <1>0, <1>1 DEF NewDirUnsaved, After
    <3>2. MemLayout'[d].total = 0
      BY <1>8, <3>1
    <3>3. op'.pc = "write" /\ op'.dir = d /\ top' = top
      BY <1>1, <1>4
    <3>4. /\ op'.pc \in {"open", "write", "header", "index", "emptied", "topindex"}
          /\ op'.pc # "open" /\ op'.pc \notin After
      BY <3>3 DEF After
    <3>5. /\ IdsOf(Starts(mem.dirs)') # {op'.dir}
          /\ top'.starts = [e \in IdsOf(Starts(mem.dirs)') \ {op'.dir} |-> Starts(mem.dirs)'[e]]
      BY <2>1, <3>1, <3>3
    <3>6. MemLayout'[op'.dir].total = IF op'.pc \in After THEN 1 ELSE 0
      BY <3>2, <3>3, <3>4
    <3>. QED BY <3>4, <3>5, <3>6 DEF NewDirUnsaved
  <2>. QED BY <1>1, <1>4, <2>1, <2>2 DEF Running, DirIndexOK
<1>. QED BY <1>1, <1>10, <1>11, <1>12, <1>13, <1>15, <1>17, <1>18, <1>19, <1>20 DEF StoreInv, Running

\* A block is written at the end of the last file.
LEMMA WriteRuns ==
    ASSUME Inv, Inv', StoreInv, WriteBlock
    PROVE  StoreInv'
<1>0. PICK d, c : d = op.dir /\ c = activeDir.cur
  OBVIOUS
<1> DEFINE old  == disk[d].files[c]
           file == [old EXCEPT !.recs = Append(old.recs, op.blk)]
           m    == Written(mem.dirs[d].files[c], old)
<1>1. /\ up /\ up' /\ Running /\ FilesOK /\ UNCHANGED <<top, acked, cache, tries>>
      /\ tries \in Nat /\ op.pc = "write" /\ op' = [op EXCEPT !.pc = "header"]
      /\ disk' = [disk EXCEPT ![d].files[c] = file]
      /\ mem' = [mem EXCEPT !.dirs[d].files[c] = m]
      /\ c = mem.dirs[d].cur /\ c \in IdsOf(mem.dirs[d].files) /\ op.blk \in Blocks
      /\ d \in IdsOf(mem.dirs) /\ IdsOf(mem.dirs) \subseteq IdsOf(disk) /\ Indexed(d, c)
      /\ mem.total \in Nat /\ mem.cur \in Nat
  <2>1. up /\ Running /\ FilesOK /\ tries \in Nat /\ op.pc = "write"
    BY DEF WriteBlock, At, StoreInv
  <2>2. /\ d \in IdsOf(mem.dirs) /\ IdsOf(mem.dirs) \subseteq IdsOf(disk) /\ Indexed(d, c)
        /\ c = mem.dirs[d].cur /\ c \in IdsOf(mem.dirs[d].files) /\ op.blk \in Blocks
        /\ mem.total \in Nat /\ mem.cur \in Nat
    BY <1>0, <2>1 DEF Inv, Holds, Active, Running, OpOK, MemOK, activeDir
  <2>3. mem' = [mem EXCEPT !.dirs[d].files[c] = m]
    <3>1. mem' = [mem EXCEPT !.dirs[d].files[c] = Written(@, old)]
      BY <1>0 DEF WriteBlock, activeDir, activeFile
    <3>. QED BY <3>1
  <2>4. disk' = [disk EXCEPT ![d].files[c] = file]
    <3>1. disk' = [disk EXCEPT ![d].files[c].recs = Append(@, op.blk)]
      BY <1>0 DEF WriteBlock, activeDir
    <3>. QED BY <3>1
  <2>. QED BY <2>1, <2>2, <2>3, <2>4 DEF WriteBlock, Go, Process, History
<1>2. \A e \in IdsOf(mem.dirs) : /\ DOMAIN mem.dirs[e] = {"start", "cur", "total", "files"}
                                 /\ mem.dirs[e].cur \in Nat /\ mem.dirs[e].total \in Nat
                                 /\ \A f \in IdsOf(mem.dirs[e].files) : MemFileOK(e, f)
                                 /\ e <= d
  BY <1>0, <1>1, LastIsLast DEF Running, MemOK, Active
<1>3. /\ DOMAIN old = {"hdr", "recs"} /\ old.recs \in Seq(Blocks) /\ c \in IdsOf(disk[d].files)
      /\ DOMAIN mem.dirs[d].files[c] = {"start", "count", "built", "skip"}
      /\ mem.dirs[d].files[c].count = Len(old.recs) /\ mem.dirs[d].files[c].skip = 0
      /\ mem.dirs[d].files[c].built \/ old.recs = <<>>
  BY <1>1, <1>2 DEF MemFileOK, FilesOK, Indexed
<1>4. /\ DOMAIN file = {"hdr", "recs"} /\ file.recs = Append(old.recs, op.blk)
      /\ file.recs \in Seq(Blocks) /\ Len(file.recs) = Len(old.recs) + 1
      /\ file.recs # <<>> /\ Len(old.recs) \in Nat
  <2>1. DOMAIN file = {"hdr", "recs"} /\ file.recs = Append(old.recs, op.blk)
    BY <1>3
  <2> HIDE DEF file, old
  <2>2. /\ file.recs \in Seq(Blocks) /\ Len(old.recs) \in Nat /\ Len(file.recs) = Len(old.recs) + 1
    BY <1>1, <1>3, <2>1, AppendFacts, SMTT(30)
  <2>3. file.recs # <<>>
    <3>1. Len(<<>>) = 0
      OBVIOUS
    <3>. QED BY <2>2, <3>1
  <2>. QED BY <2>1, <2>2, <2>3
<1>5. /\ DOMAIN m = {"start", "count", "built", "skip"}
      /\ m.start = mem.dirs[d].files[c].start /\ m.count = Len(old.recs) + 1
      /\ m.skip = 0 /\ m.built
  <2>1. Len(<<>>) = 0
    OBVIOUS
  <2> HIDE DEF old
  <2>. QED BY <1>3, <2>1 DEF Written
<1> HIDE DEF m, file, old
<1>6. /\ op'.pc = "header" /\ op'.dir = d /\ op'.blk = op.blk
      /\ mem'.root = mem.root /\ mem'.cur = mem.cur /\ mem'.total = mem.total
      /\ IdsOf(mem'.dirs) = IdsOf(mem.dirs)
      /\ \A e \in IdsOf(mem.dirs) : e # d => mem'.dirs[e] = mem.dirs[e]
      /\ DOMAIN mem'.dirs[d] = DOMAIN mem.dirs[d] /\ mem'.dirs[d].start = mem.dirs[d].start
      /\ mem'.dirs[d].total = mem.dirs[d].total /\ mem'.dirs[d].cur = c
      /\ IdsOf(mem'.dirs[d].files) = IdsOf(mem.dirs[d].files) /\ mem'.dirs[d].files[c] = m
      /\ \A f \in IdsOf(mem.dirs[d].files) : f # c => mem'.dirs[d].files[f] = mem.dirs[d].files[f]
  <2>1. op'.pc = "header" /\ op'.dir = d /\ op'.blk = op.blk
    BY <1>0, <1>1 DEF Inv, Fields
  <2>2. /\ mem' = [mem EXCEPT !.dirs[d].files[c] = m] /\ c = mem.dirs[d].cur
        /\ d \in DOMAIN mem.dirs /\ c \in DOMAIN mem.dirs[d].files
    BY <1>1 DEF IdsOf
  <2>3. DOMAIN mem = {"root", "cur", "total", "dirs"}
        /\ DOMAIN mem.dirs[d] = {"start", "cur", "total", "files"}
    BY <1>1, <1>2 DEF Inv, Fields
  <2>4. /\ mem'.root = mem.root /\ mem'.cur = mem.cur /\ mem'.total = mem.total
        /\ IdsOf(mem'.dirs) = IdsOf(mem.dirs)
        /\ \A e \in IdsOf(mem.dirs) : e # d => mem'.dirs[e] = mem.dirs[e]
    BY <2>2, <2>3 DEF IdsOf
  <2>5. /\ DOMAIN mem'.dirs[d] = DOMAIN mem.dirs[d] /\ mem'.dirs[d].start = mem.dirs[d].start
        /\ mem'.dirs[d].total = mem.dirs[d].total /\ mem'.dirs[d].cur = c
    BY <2>2, <2>3
  <2>6. /\ IdsOf(mem'.dirs[d].files) = IdsOf(mem.dirs[d].files) /\ mem'.dirs[d].files[c] = m
        /\ \A f \in IdsOf(mem.dirs[d].files) : f # c => mem'.dirs[d].files[f] = mem.dirs[d].files[f]
    BY <2>2, <2>3 DEF IdsOf
  <2>. QED BY <2>1, <2>4, <2>5, <2>6
<1>7. /\ IdsOf(disk') = IdsOf(disk)
      /\ \A e \in IdsOf(disk) : /\ e # d => disk'[e] = disk[e]
                                /\ disk'[e].idx = disk[e].idx
      /\ IdsOf(disk'[d].files) = IdsOf(disk[d].files) /\ disk'[d].files[c] = file
      /\ \A f \in IdsOf(disk[d].files) : f # c => disk'[d].files[f] = disk[d].files[f]
  <2>1. /\ disk' = [disk EXCEPT ![d].files[c] = file]
        /\ d \in IdsOf(disk) /\ c \in IdsOf(disk[d].files)
    BY <1>1, <1>3
  <2>2. \A e \in IdsOf(disk) : DOMAIN disk[e] = {"idx", "files"}
    BY DEF Inv, Fields
  <2>. QED BY <2>1, <2>2 DEF IdsOf
<1>8. \A f \in IdsOf(mem.dirs[d].files) : f \in IdsOf(disk[d].files) /\ f <= c
  BY <1>1, <1>2 DEF MemFileOK
<1>9. /\ DOMAIN MemLayout' = DOMAIN MemLayout /\ DOMAIN MemLayout = IdsOf(mem.dirs)
      /\ \A e \in DOMAIN MemLayout \ {d} : MemLayout'[e] = MemLayout[e]
      /\ MemLayout'[d].start = MemLayout[d].start /\ MemLayout'[d].total = MemLayout[d].total + 1
      /\ MemLayout'[d].starts = MemLayout[d].starts
      /\ DOMAIN MemLayout[d].starts = IdsOf(mem.dirs[d].files)
      /\ \A f \in DOMAIN MemLayout[d].starts \ {c} : MemLayout'[d].recs[f] = MemLayout[d].recs[f]
      /\ MemLayout'[d].recs[c] = Append(MemLayout[d].recs[c], op.blk)
  <2>1. \A e \in IdsOf(mem.dirs) : e # d => MemLayout'[e] = MemLayout[e]
    BY <1>0, <1>1, <1>6, <1>7 DEF MemLayout
  <2>2. /\ MemLayout[d] = [start |-> mem.dirs[d].start, total |-> mem.dirs[d].total + 0,
                           starts |-> Starts(mem.dirs[d].files),
                           recs |-> [f \in IdsOf(mem.dirs[d].files) |-> disk[d].files[f].recs]]
        /\ MemLayout'[d] = [start |-> mem'.dirs[d].start, total |-> mem'.dirs[d].total + 1,
                           starts |-> Starts(mem'.dirs[d].files),
                           recs |-> [f \in IdsOf(mem'.dirs[d].files) |-> disk'[d].files[f].recs]]
        /\ DOMAIN MemLayout = IdsOf(mem.dirs) /\ DOMAIN MemLayout' = IdsOf(mem'.dirs)
    BY <1>0, <1>1, <1>6 DEF MemLayout
  <2>3. Starts(mem'.dirs[d].files) = Starts(mem.dirs[d].files)
    BY <1>5, <1>6 DEF Starts, IdsOf
  <2>4. DOMAIN Starts(mem.dirs[d].files) = IdsOf(mem.dirs[d].files)
    BY DEF Starts, IdsOf
  <2>5. mem.dirs[d].total + 0 = mem.dirs[d].total /\ mem'.dirs[d].total = mem.dirs[d].total
    BY <1>1, <1>2, <1>6
  <2>6. \A f \in IdsOf(mem.dirs[d].files) \ {c} : disk'[d].files[f].recs = disk[d].files[f].recs
    BY <1>7, <1>8
  <2>7. disk'[d].files[c].recs = Append(disk[d].files[c].recs, op.blk)
    BY <1>4, <1>7 DEF old
  <2>8. c \in IdsOf(mem.dirs[d].files)
    BY <1>1
  <2>9. /\ MemLayout'[d].start = MemLayout[d].start /\ MemLayout'[d].total = MemLayout[d].total + 1
        /\ MemLayout'[d].starts = MemLayout[d].starts
        /\ DOMAIN MemLayout[d].starts = IdsOf(mem.dirs[d].files)
    BY <1>6, <2>2, <2>3, <2>4, <2>5
  <2>10. \A f \in IdsOf(mem.dirs[d].files) : /\ MemLayout[d].recs[f] = disk[d].files[f].recs
                                              /\ MemLayout'[d].recs[f] = disk'[d].files[f].recs
    BY <1>6, <2>2
  <2>11. \A f \in IdsOf(mem.dirs[d].files) \ {c} : MemLayout'[d].recs[f] = MemLayout[d].recs[f]
    BY <2>6, <2>10
  <2>12. MemLayout'[d].recs[c] = Append(MemLayout[d].recs[c], op.blk)
    BY <2>7, <2>8, <2>10
  <2>. QED BY <1>6, <2>1, <2>2, <2>9, <2>11, <2>12
<1>10. /\ MemTotal = mem.total /\ MemTotal' = mem.total + 1
       /\ Settled = mem.total /\ Settled' = Settled
  BY <1>1, <1>6 DEF MemTotal, Settled, After
<1>11. /\ LaidOut(MemLayout', MemTotal') /\ Extends(MemLayout, MemLayout')
       /\ HasBlock(MemLayout', mem.total, op.blk)
  <2>1. LaidOut(MemLayout, mem.total)
    BY <1>1, <1>10 DEF Running
  <2>2. d \in DOMAIN MemLayout /\ (\A e \in DOMAIN MemLayout : e <= d)
    BY <1>1, <1>2, <1>9
  <2>3. c \in DOMAIN MemLayout[d].starts /\ (\A f \in DOMAIN MemLayout[d].starts : f <= c)
    BY <1>1, <1>8, <1>9
  <2>4. /\ LaidOut(MemLayout', mem.total + 1) /\ Extends(MemLayout, MemLayout')
        /\ HasBlock(MemLayout', mem.total, op.blk)
    <3>1. op.blk \in Blocks
      BY <1>1
    <3>. QED BY <1>9, <2>1, <2>2, <2>3, <3>1, AppendBlock
  <2>. QED BY <1>10, <2>4
<1>12. Acked(MemLayout, Settled)' /\ CacheOK'
  <2>1. \A i, b : HasBlock(MemLayout, i, b) => HasBlock(MemLayout', i, b)
    BY <1>11, HasMore
  <2>. QED BY <1>1, <1>10, <2>1, GrowKeeps
<1>13. FilesOK'
  <2>1. \A e \in IdsOf(disk) : \A f \in IdsOf(disk[e].files) :
           /\ DOMAIN disk[e].files[f] = {"hdr", "recs"}
           /\ disk[e].files[f].recs \in Seq(Blocks)
           /\ disk[e].files[f].hdr = Len(disk[e].files[f].recs)
    BY <1>1 DEF FilesOK
  <2>2. \A e \in IdsOf(disk') : \A f \in IdsOf(disk'[e].files) :
           /\ DOMAIN disk'[e].files[f] = {"hdr", "recs"}
           /\ disk'[e].files[f].recs \in Seq(Blocks)
           /\ disk'[e].files[f].hdr = Len(disk'[e].files[f].recs) \/ (e = d /\ f = c)
    <3> TAKE e \in IdsOf(disk')
    <3> TAKE f \in IdsOf(disk'[e].files)
    <3>1. e \in IdsOf(disk)
      BY <1>7
    <3>2. CASE e = d /\ f = c
      BY <1>4, <1>7, <3>2
    <3>3. CASE ~(e = d /\ f = c)
      <4>1. f \in IdsOf(disk[e].files) /\ disk'[e].files[f] = disk[e].files[f]
        BY <1>7, <3>1, <3>3
      <4>. QED BY <2>1, <3>1, <4>1
    <3>. QED BY <3>2, <3>3
  <2>3. top'.starts = [i \in IdsOf(top'.starts) |-> top'.starts[i]]
    BY <1>1 DEF FilesOK
  <2>4. activeDir'.cur = c /\ up' /\ op'.pc = "header" /\ op'.dir = d
    BY <1>1, <1>6 DEF activeDir
  <2>. QED BY <2>2, <2>3, <2>4 DEF FilesOK
<1>14. MemOK'
  <2>1. \A e \in IdsOf(mem.dirs) : \A f \in IdsOf(mem'.dirs[e].files) : MemFileOK(e, f)'
    <3> TAKE e \in IdsOf(mem.dirs)
    <3> TAKE f \in IdsOf(mem'.dirs[e].files)
    <3>1. CASE e # d
      <4>1. MemFileOK(e, f) /\ mem'.dirs[e] = mem.dirs[e] /\ disk'[e] = disk[e]
        BY <1>1, <1>2, <1>6, <1>7, <3>1
      <4>. QED BY <4>1 DEF MemFileOK
    <3>2. CASE e = d /\ f = c
      <4>1. /\ mem'.dirs[e].files[f] = m /\ disk'[e].files[f] = file
            /\ f \in IdsOf(disk'[e].files) /\ f <= mem'.dirs[e].cur
        BY <1>1, <1>3, <1>6, <1>7, <1>8, <3>2, ZenonT(60)
      <4>. QED BY <1>4, <1>5, <4>1 DEF MemFileOK
    <3>3. CASE e = d /\ f # c
      <4>1. /\ MemFileOK(e, f) /\ mem'.dirs[e].files[f] = mem.dirs[e].files[f]
            /\ disk'[e].files[f] = disk[e].files[f] /\ f \in IdsOf(disk'[e].files)
            /\ f <= mem'.dirs[e].cur
        BY <1>2, <1>6, <1>7, <1>8, <3>3
      <4>. QED BY <4>1 DEF MemFileOK
    <3>. QED BY <3>1, <3>2, <3>3
  <2>2. \A e \in IdsOf(mem'.dirs) :
           /\ DOMAIN mem'.dirs[e] = {"start", "cur", "total", "files"}
           /\ mem'.dirs[e].cur \in Nat /\ mem'.dirs[e].total \in Nat
           /\ \A f \in IdsOf(mem'.dirs[e].files) : MemFileOK(e, f)'
    <3> TAKE e \in IdsOf(mem'.dirs)
    <3>1. e \in IdsOf(mem.dirs)
      BY <1>6
    <3>2. CASE e = d
      <4>1. c \in Nat
        BY <1>1, <1>2
      <4>. QED BY <1>2, <1>6, <2>1, <3>1, <3>2, <4>1
    <3>3. CASE e # d
      BY <1>2, <1>6, <2>1, <3>1, <3>3
    <3>. QED BY <3>2, <3>3
  <2>3. mem'.dirs[Root].start = mem.dirs[Root].start \/ Root \notin IdsOf(mem.dirs)
    BY <1>6
  <2>. QED BY <1>1, <1>6, <2>2, <2>3, SMTT(30) DEF Running, MemOK
<1>15. BuiltOK'
  <2> SUFFICES ASSUME NEW f \in IdsOf(mem'.dirs[d].files),
                      \A g \in IdsOf(mem'.dirs[d].files) : g <= f
               PROVE  Indexed(d, f)'
    <3>1. LastDir' = d
      BY <1>0, <1>1, <1>6, LastIsLast DEF LastDir, Active
    <3>. QED BY <3>1 DEF BuiltOK
  <2>1. f \in Nat /\ c \in Nat
    <3>1. \A g \in IdsOf(mem.dirs[d].files) : g \in Nat
      BY <1>1, MemLayoutIs DEF Running, LaidOut, DirLaidOut
    <3>. QED BY <1>1, <1>6, <3>1
  <2>2. f = c
    BY <1>1, <1>6, <1>8, <2>1, SMTT(30)
  <2>. QED BY <1>5, <1>6, <2>2 DEF Indexed
<1>16. Starts(mem'.dirs) = Starts(mem.dirs)
       /\ \A e \in IdsOf(mem.dirs) : Starts(mem'.dirs[e].files) = Starts(mem.dirs[e].files)
  BY <1>5, <1>6 DEF Starts, IdsOf
<1>17. FileIndexOK'
  <2> SUFFICES ASSUME NEW e \in IdsOf(mem.dirs),
                      disk'[e].idx.starts # Starts(mem'.dirs[e].files)
               PROVE  NewFileUnsaved(e)'
    BY <1>6 DEF FileIndexOK
  <2>1. NewFileUnsaved(e) /\ e = d
    <3>1. disk[e].idx.starts # Starts(mem.dirs[e].files)
      BY <1>1, <1>7, <1>16
    <3>. QED BY <1>0, <1>1, <3>1 DEF Running, FileIndexOK, NewFileUnsaved
  <2>2. /\ disk[d].idx.starts = [f \in IdsOf(Starts(mem.dirs[d].files)) \ {c} |-> Starts(mem.dirs[d].files)[f]]
        /\ Len(disk[d].files[c].recs) = 0
    BY <1>1, <2>1 DEF NewFileUnsaved
  <2>3. Len(disk'[d].files[c].recs) = 1
    <3>1. Len(old.recs) = 0 /\ disk'[d].files[c].recs = file.recs
      BY <1>7, <2>2 DEF old
    <3>. QED BY <1>4, <3>1
  <2>4. disk'[d].idx.starts = disk[d].idx.starts /\ mem'.dirs[d].cur = c
        /\ Starts(mem'.dirs[d].files) = Starts(mem.dirs[d].files)
    BY <1>1, <1>6, <1>7, <1>16, SMTT(30)
  <2>. QED BY <1>6, <2>1, <2>2, <2>3, <2>4, SMTT(30) DEF NewFileUnsaved
<1>18. FilesFilled'
  <2> SUFFICES ASSUME NEW e \in IdsOf(mem'.dirs), NEW f \in IdsOf(mem'.dirs[e].files)
               PROVE  disk'[e].files[f].recs # <<>>
    BY DEF FilesFilled
  <2>1. e \in IdsOf(mem.dirs) /\ f \in IdsOf(mem.dirs[e].files)
    BY <1>6
  <2>2. CASE e = d /\ f = c
    BY <1>4, <1>7, <2>2
  <2>3. CASE ~(e = d /\ f = c)
    <3>1. disk[e].files[f].recs # <<>>
      BY <1>0, <1>1, <2>1, <2>3, ZenonT(60) DEF Running, FilesFilled, NewFileUnsaved
    <3>2. disk'[e].files[f] = disk[e].files[f]
      BY <1>1, <1>7, <1>8, <2>1, <2>3
    <3>. QED BY <3>1, <3>2
  <2>. QED BY <2>2, <2>3
<1>19. OpOK'
  <2>1. d = LastDir
    BY <1>0, <1>1 DEF Running, OpOK, Active
  <2>2. activeDir'.cur \in IdsOf(activeDir'.files)
    BY <1>1, <1>6 DEF activeDir
  <2>3. HasBlock(MemLayout', MemTotal' - 1, op'.blk)
    <3>1. MemTotal' - 1 = mem.total
      BY <1>1, <1>10
    <3>. QED BY <1>6, <1>11, <3>1
  <2>. QED BY <1>1, <1>6, <2>1, <2>2, <2>3 DEF OpOK, Active, After, LastDir
<1>20. DirIndexOK'
  <2>1. NewDirUnsaved => NewDirUnsaved'
    <3> SUFFICES ASSUME NewDirUnsaved PROVE NewDirUnsaved'
      OBVIOUS
    <3>1. /\ IdsOf(Starts(mem.dirs)) # {d} /\ MemLayout[d].total = 0
          /\ top.starts = [e \in IdsOf(Starts(mem.dirs)) \ {d} |-> Starts(mem.dirs)[e]]
      BY <1>0, <1>1 DEF NewDirUnsaved, After
    <3>2. MemLayout'[d].total = 1
      BY <1>9, <3>1
    <3>3. op'.pc = "header" /\ op'.dir = d /\ top' = top /\ Starts(mem.dirs)' = Starts(mem.dirs)
      BY <1>1, <1>6, <1>16
    <3>4. /\ op'.pc \in {"open", "write", "header", "index", "emptied", "topindex"}
          /\ op'.pc # "open" /\ op'.pc \in After
      BY <3>3 DEF After
    <3>5. /\ IdsOf(Starts(mem.dirs)') # {op'.dir}
          /\ top'.starts = [e \in IdsOf(Starts(mem.dirs)') \ {op'.dir} |-> Starts(mem.dirs)'[e]]
      BY <3>1, <3>3
    <3>6. MemLayout'[op'.dir].total = IF op'.pc \in After THEN 1 ELSE 0
      BY <3>2, <3>3, <3>4
    <3>. QED BY <3>4, <3>5, <3>6 DEF NewDirUnsaved
  <2>. QED BY <1>1, <1>6, <1>16, <2>1 DEF Running, DirIndexOK
<1>. QED BY <1>1, <1>11, <1>12, <1>13, <1>14, <1>15, <1>17, <1>18, <1>19, <1>20 DEF StoreInv, Running

----------------------------------------------------------------------------
(* The end of a process, and the next one.                                 *)

\* The layout on the disk is lay: the index files name it, the headers count it.
SavedAs(lay) ==
    /\ IdsOf(Dirs) = DOMAIN lay
    /\ \A d \in DOMAIN lay :
          /\ Dirs[d] = lay[d].start /\ disk[d].idx.starts = lay[d].starts
          /\ \A f \in DOMAIN lay[d].starts :
                /\ f \in IdsOf(disk[d].files) /\ disk[d].files[f].recs # <<>>
                /\ disk[d].files[f].recs = lay[d].recs[f]
                /\ disk[d].files[f].hdr = Len(lay[d].recs[f])

\* If the disk holds lay, it is what the next process will find.
LEMMA SavedIs ==
    ASSUME NEW lay, NEW total, LaidOut(lay, total), SavedAs(lay)'
    PROVE  /\ LaidOut(SavedLayout', SavedTotal') /\ SavedTotal' = total
           /\ Extends(lay, SavedLayout')
<1>1. IdsOf(Dirs') = DOMAIN lay
  BY DEF SavedAs
<1>2. ASSUME NEW d \in DOMAIN lay
      PROVE  /\ Dirs'[d] = lay[d].start /\ disk'[d].idx.starts = lay[d].starts
             /\ \A f \in DOMAIN lay[d].starts :
                   /\ disk'[d].files[f].recs = lay[d].recs[f]
                   /\ disk'[d].files[f].hdr = Len(lay[d].recs[f])
  BY DEF SavedAs
<1>3. ASSUME NEW d \in DOMAIN lay
      PROVE  CountBlocks(disk'[d], IdsOf(disk'[d].idx.starts)) = lay[d].total
  <2> DEFINE dir == lay[d]
             D   == DOMAIN dir.starts
  <2>1. DirLaidOut(dir)
    BY DEF LaidOut
  <2>2. [f \in IdsOf(disk'[d].idx.starts) |-> disk'[d].files[f].hdr] = Lens(dir)
    BY <1>2 DEF Lens, IdsOf
  <2>3. SumFunction(Lens(dir)) = dir.total
    <3>1. /\ D \in SUBSET Nat /\ IsFiniteSet(D) /\ dir.starts \in [D -> Nat] /\ Lens(dir) \in [D -> Nat]
          /\ dir.total \in Nat /\ Tiles(D, dir.starts, Lens(dir), dir.total)
      BY <2>1 DEF DirLaidOut, Lens
    <3> HIDE DEF dir, D
    <3>. QED BY <3>1, TilesSum
  <2>. QED BY <2>2, <2>3 DEF CountBlocks
<1>4. /\ DOMAIN SavedLayout' = DOMAIN lay
      /\ \A d \in DOMAIN lay :
            /\ SavedLayout'[d].start = lay[d].start /\ SavedLayout'[d].total = lay[d].total
            /\ SavedLayout'[d].starts = lay[d].starts
            /\ \A f \in DOMAIN lay[d].starts : SavedLayout'[d].recs[f] = lay[d].recs[f]
  <2>1. DOMAIN SavedLayout' = DOMAIN lay
    BY <1>1 DEF SavedLayout
  <2>2. ASSUME NEW d \in DOMAIN lay
        PROVE  /\ SavedLayout'[d].start = lay[d].start /\ SavedLayout'[d].total = lay[d].total
               /\ SavedLayout'[d].starts = lay[d].starts
               /\ \A f \in DOMAIN lay[d].starts : SavedLayout'[d].recs[f] = lay[d].recs[f]
    <3>1. SavedLayout'[d] =
             [start |-> Dirs'[d], total |-> CountBlocks(disk'[d], IdsOf(disk'[d].idx.starts)),
              starts |-> disk'[d].idx.starts,
              recs |-> [f \in IdsOf(disk'[d].idx.starts) |-> disk'[d].files[f].recs]]
      BY <1>1 DEF SavedLayout
    <3>. QED BY <1>2, <1>3, <3>1 DEF IdsOf
  <2>. QED BY <2>1, <2>2
<1>5. \A d \in DOMAIN SavedLayout' : DirLaidOut(SavedLayout'[d])
  <2> SUFFICES ASSUME NEW d \in DOMAIN lay PROVE DirLaidOut(SavedLayout'[d])
    BY <1>4
  <2>1. DirLaidOut(lay[d])
    BY DEF LaidOut
  <2>2. Lens(SavedLayout'[d]) = Lens(lay[d])
    BY <1>4 DEF Lens
  <2>. QED BY <1>4, <2>1, <2>2 DEF DirLaidOut
<1>6. DirStarts(SavedLayout') = DirStarts(lay) /\ DirTotals(SavedLayout') = DirTotals(lay)
  BY <1>4 DEF DirStarts, DirTotals
<1>7. SavedTotal' = total
  <2>1. SavedTotal' = SumFunction(DirTotals(lay))
    <3>1. [d \in IdsOf(Dirs') |-> SavedLayout'[d].total] = DirTotals(lay)
      BY <1>1, <1>4 DEF DirTotals
    <3>. QED BY <3>1 DEF SavedTotal
  <2>2. /\ DOMAIN lay \in SUBSET Nat /\ IsFiniteSet(DOMAIN lay) /\ total \in Nat
        /\ DirStarts(lay) \in [DOMAIN lay -> Nat] /\ DirTotals(lay) \in [DOMAIN lay -> Nat]
        /\ Tiles(DOMAIN lay, DirStarts(lay), DirTotals(lay), total)
    BY DEF LaidOut, DirLaidOut, DirStarts, DirTotals
  <2>. QED BY <2>1, <2>2, TilesSum
<1>8. LaidOut(SavedLayout', SavedTotal')
  BY <1>4, <1>5, <1>6, <1>7 DEF LaidOut
<1>9. Extends(lay, SavedLayout')
  BY <1>4 DEF Extends
<1>. QED BY <1>7, <1>8, <1>9

\* A process may end when every settled block is in what the disk holds.
LEMMA SavedStops ==
    ASSUME Running, NEW lay, NEW low, LaidOut(lay, low), Extends(lay, MemLayout), SavedAs(lay)',
           Settled <= low, Settled \in Int, low \in Int, UNCHANGED acked
    PROVE  Stopped'
<1>1. /\ LaidOut(SavedLayout', SavedTotal') /\ SavedTotal' = low
      /\ Extends(lay, SavedLayout')
  BY SavedIs
<1>2. \A i \in IdsOf(acked) : i < Settled /\ HasBlock(MemLayout, i, acked[i])
  BY DEF Running, Acked
<1>3. ASSUME NEW i \in IdsOf(acked) PROVE i < low /\ HasBlock(SavedLayout', i, acked[i])
  <2>1. i \in Nat /\ i < low /\ HasBlock(MemLayout, i, acked[i])
    <3>1. LaidOut(MemLayout, MemTotal)
      BY DEF Running
    <3>. QED BY <1>2, <3>1, HasSame
  <2>2. HasBlock(lay, i, acked[i])
    <3>1. LaidOut(MemLayout, MemTotal)
      BY DEF Running
    <3>. QED BY <2>1, <3>1, HasLess
  <2>. QED BY <1>1, <2>1, <2>2, HasMore
<1>4. Acked(SavedLayout, SavedTotal)'
  BY <1>1, <1>3 DEF Acked
<1>5. \A d \in IdsOf(Dirs') : \A f \in IdsOf(disk'[d].idx.starts) :
          f \in IdsOf(disk'[d].files) /\ disk'[d].files[f].recs # <<>>
  BY DEF SavedAs, IdsOf
<1>. QED BY <1>1, <1>4, <1>5 DEF Stopped

\* Between calls the layout on the disk can be that of memory.
LEMMA CloseRuns ==
    ASSUME Inv, Inv', StoreInv, Close
    PROVE  StoreInv'
<1>1. /\ up /\ ~up' /\ Running /\ FilesOK /\ UNCHANGED <<acked, tries>>
      /\ tries \in Nat /\ op.pc = "idle" /\ mem.total \in Nat
      /\ disk' = [d \in IdsOf(disk) |-> IF d \in IdsOf(mem.dirs) THEN CloseDir(mem.dirs[d], disk[d])
                                        ELSE disk[d]]
      /\ top' = IF mem.root THEN top ELSE Index(Starts(mem.dirs))
      /\ IdsOf(mem.dirs) \subseteq IdsOf(disk)
      /\ mem.root => IdsOf(top.starts) = {}
      /\ ~mem.root => IdsOf(mem.dirs) # {}
  BY DEF Close, At, Ended, StoreInv, Running, MemOK, Inv, Holds
<1>2. /\ \A d \in IdsOf(mem.dirs) : \A f \in IdsOf(mem.dirs[d].files) : MemFileOK(d, f)
      /\ mem.root => IdsOf(mem.dirs) = {Root} /\ mem.dirs[Root].start = 0
      /\ mem.root \in BOOLEAN
  BY <1>1 DEF Running, MemOK
<1>3. \A d \in IdsOf(disk) : \A f \in IdsOf(disk[d].files) :
         /\ DOMAIN disk[d].files[f] = {"hdr", "recs"}
         /\ disk[d].files[f].recs \in Seq(Blocks)
         /\ disk[d].files[f].hdr = Len(disk[d].files[f].recs)
  BY <1>1 DEF FilesOK
<1>4. ASSUME NEW d \in IdsOf(mem.dirs)
      PROVE  /\ disk'[d].idx.starts = Starts(mem.dirs[d].files)
             /\ IdsOf(disk'[d].files) = IdsOf(disk[d].files)
             /\ \A f \in IdsOf(disk[d].files) :
                   /\ DOMAIN disk'[d].files[f] = {"hdr", "recs"}
                   /\ disk'[d].files[f].recs = disk[d].files[f].recs
                   /\ disk'[d].files[f].hdr = Len(disk[d].files[f].recs)
  <2>1. disk'[d] = CloseDir(mem.dirs[d], disk[d])
    BY <1>1 DEF IdsOf
  <2>2. /\ disk'[d].idx.starts = Starts(mem.dirs[d].files)
        /\ IdsOf(disk'[d].files) = IdsOf(disk[d].files)
        /\ \A f \in IdsOf(disk[d].files) : disk'[d].files[f] =
              IF f \in IdsOf(mem.dirs[d].files)
              THEN [disk[d].files[f] EXCEPT !.hdr = mem.dirs[d].files[f].count]
              ELSE disk[d].files[f]
    BY <2>1 DEF CloseDir, Index, IdsOf
  <2>3. /\ \A f \in IdsOf(disk[d].files) : /\ DOMAIN disk[d].files[f] = {"hdr", "recs"}
                                           /\ disk[d].files[f].hdr = Len(disk[d].files[f].recs)
        /\ \A f \in IdsOf(mem.dirs[d].files) :
              mem.dirs[d].files[f].count = Len(disk[d].files[f].recs)
    BY <1>1, <1>2, <1>3 DEF MemFileOK
  <2>. QED BY <2>2, <2>3
<1>5. IdsOf(Dirs') = IdsOf(mem.dirs) /\ \A d \in IdsOf(mem.dirs) : Dirs'[d] = mem.dirs[d].start
  <2>1. CASE mem.root
    <3>1. Dirs' = Only(Root, 0)
      BY <1>1, <2>1 DEF Dirs
    <3>. QED BY <1>2, <2>1, <3>1 DEF Only, IdsOf
  <2>2. CASE ~mem.root
    <3>1. top'.starts = Starts(mem.dirs) /\ IdsOf(Starts(mem.dirs)) = IdsOf(mem.dirs)
      BY <1>1, <2>2 DEF Index, Starts, IdsOf
    <3>2. Dirs' = Starts(mem.dirs)
      BY <1>1, <2>2, <3>1 DEF Dirs
    <3>. QED BY <3>1, <3>2 DEF Starts, IdsOf
  <2>. QED BY <2>1, <2>2
<1>6. PICK lay : lay = MemLayout
  OBVIOUS
<1>7. /\ MemTotal = mem.total /\ Settled = mem.total
      /\ LaidOut(lay, mem.total)
  BY <1>1, <1>6 DEF Running, MemTotal, Settled, After
<1>8. SavedAs(lay)'
  <2>1. IdsOf(Dirs') = DOMAIN lay
    BY <1>5, <1>6, MemLayoutIs
  <2>2. ASSUME NEW d \in DOMAIN lay
        PROVE  /\ Dirs'[d] = lay[d].start /\ disk'[d].idx.starts = lay[d].starts
               /\ \A f \in DOMAIN lay[d].starts :
                     /\ f \in IdsOf(disk'[d].files) /\ disk'[d].files[f].recs # <<>>
                     /\ disk'[d].files[f].recs = lay[d].recs[f]
                     /\ disk'[d].files[f].hdr = Len(lay[d].recs[f])
    <3>1. /\ d \in IdsOf(mem.dirs) /\ lay[d].start = mem.dirs[d].start
          /\ lay[d].starts = Starts(mem.dirs[d].files)
          /\ DOMAIN lay[d].starts = IdsOf(mem.dirs[d].files)
          /\ \A f \in IdsOf(mem.dirs[d].files) : lay[d].recs[f] = disk[d].files[f].recs
      BY <1>6, MemLayoutIs
    <3>2. \A f \in IdsOf(mem.dirs[d].files) : f \in IdsOf(disk[d].files) /\ disk[d].files[f].recs # <<>>
      BY <1>1, <1>2, <3>1 DEF Running, FilesFilled, MemFileOK
    <3>. QED BY <1>4, <1>5, <3>1, <3>2
  <2>. QED BY <2>1, <2>2 DEF SavedAs
<1>9. Stopped'
  <2>1. Extends(lay, MemLayout)
    BY <1>6 DEF Extends
  <2>. QED BY <1>1, <1>7, <1>8, <2>1, SavedStops
<1>10. FilesOK'
  <2>1. /\ IdsOf(disk') = IdsOf(disk)
        /\ \A d \in IdsOf(disk) : d \notin IdsOf(mem.dirs) => disk'[d] = disk[d]
    BY <1>1 DEF IdsOf
  <2>2. \A d \in IdsOf(disk') : \A f \in IdsOf(disk'[d].files) :
           /\ DOMAIN disk'[d].files[f] = {"hdr", "recs"}
           /\ disk'[d].files[f].recs \in Seq(Blocks)
           /\ disk'[d].files[f].hdr = Len(disk'[d].files[f].recs)
    <3> TAKE d \in IdsOf(disk')
    <3>1. CASE d \in IdsOf(mem.dirs)
      <4> TAKE f \in IdsOf(disk'[d].files)
      <4>1. d \in IdsOf(disk) /\ f \in IdsOf(disk[d].files)
        BY <1>4, <2>1, <3>1
      <4>. QED BY <1>3, <1>4, <3>1, <4>1
    <3>2. CASE d \notin IdsOf(mem.dirs)
      BY <1>3, <2>1, <3>2
    <3>. QED BY <3>1, <3>2
  <2>3. top'.starts = [i \in IdsOf(top'.starts) |-> top'.starts[i]]
    BY <1>1 DEF FilesOK, Index, Starts, IdsOf
  <2>. QED BY <2>2, <2>3 DEF FilesOK
<1>. QED BY <1>1, <1>9, <1>10 DEF StoreInv

\* A call is cut short: what the index files name is the layout of memory, but
\* for the last file or the last directory, if that is new.
LEMMA CrashRuns ==
    ASSUME Inv, Inv', StoreInv, Crash, op.pc \notin Windows, op.pc # "header"
    PROVE  StoreInv'
<1>1. /\ up /\ ~up' /\ Running /\ FilesOK /\ UNCHANGED <<acked, tries, disk, top>>
      /\ tries \in Nat /\ mem.total \in Nat
      /\ IdsOf(mem.dirs) \subseteq IdsOf(disk)
      /\ mem.root => IdsOf(top.starts) = {}
      /\ ~mem.root => IdsOf(mem.dirs) # {}
  BY DEF Crash, Ended, StoreInv, Running, MemOK, Inv, Holds
<1>2. /\ \A d \in IdsOf(mem.dirs) : \A f \in IdsOf(mem.dirs[d].files) : MemFileOK(d, f)
      /\ mem.root => IdsOf(mem.dirs) = {Root} /\ mem.dirs[Root].start = 0
      /\ mem.root \in BOOLEAN
  BY <1>1 DEF Running, MemOK
<1>3. \A d \in IdsOf(disk) : \A f \in IdsOf(disk[d].files) :
         disk[d].files[f].hdr = Len(disk[d].files[f].recs)
  BY <1>1 DEF FilesOK
<1>4. PICK all : all = MemLayout
  OBVIOUS
<1>5. /\ DOMAIN all = IdsOf(mem.dirs)
      /\ \A d \in IdsOf(mem.dirs) :
            /\ all[d].start = mem.dirs[d].start
            /\ all[d].starts = Starts(mem.dirs[d].files)
            /\ DOMAIN all[d].starts = IdsOf(mem.dirs[d].files)
            /\ \A f \in IdsOf(mem.dirs[d].files) : all[d].recs[f] = disk[d].files[f].recs
  BY <1>4, MemLayoutIs
<1>6. /\ LaidOut(all, MemTotal) /\ MemTotal \in Nat
      /\ \A d \in DOMAIN all : d \in Nat /\ all[d].start \in Nat /\ all[d].total \in Nat
      /\ Settled \in Int /\ Settled <= MemTotal
      /\ op.pc \in After => Settled = MemTotal - 1
      /\ op.pc \notin After => Settled = MemTotal
  BY <1>1, <1>4 DEF Running, LaidOut, DirLaidOut, Settled
\* The directories that are named, and where they begin.
<1>7. ~NewDirUnsaved => /\ IdsOf(Dirs) = IdsOf(mem.dirs)
                        /\ \A d \in IdsOf(mem.dirs) : Dirs[d] = mem.dirs[d].start
  <2>1. CASE mem.root
    <3>1. Dirs = Only(Root, 0)
      BY <1>1, <2>1 DEF Dirs
    <3>. QED BY <1>2, <2>1, <3>1 DEF Only, IdsOf
  <2>2. CASE ~mem.root /\ ~NewDirUnsaved
    <3>1. top.starts = Starts(mem.dirs)
      BY <1>1, <2>2 DEF Running, DirIndexOK, Windows
    <3>2. IdsOf(Starts(mem.dirs)) = IdsOf(mem.dirs)
      BY DEF Starts, IdsOf
    <3>3. Dirs = Starts(mem.dirs)
      BY <1>1, <2>2, <3>1, <3>2 DEF Dirs
    <3>. QED BY <3>2, <3>3 DEF Starts, IdsOf
  <2>. QED BY <2>1, <2>2
\* A directory with an exact index is on the disk as in memory.
<1>8. ASSUME NEW d \in IdsOf(mem.dirs), ~NewFileUnsaved(d)
      PROVE  /\ disk'[d].idx.starts = all[d].starts
             /\ \A f \in DOMAIN all[d].starts :
                   /\ f \in IdsOf(disk'[d].files) /\ disk'[d].files[f].recs # <<>>
                   /\ disk'[d].files[f].recs = all[d].recs[f]
                   /\ disk'[d].files[f].hdr = Len(all[d].recs[f])
  <2>1. disk[d].idx.starts = Starts(mem.dirs[d].files)
    BY <1>1, <1>8 DEF Running, FileIndexOK, Windows
  <2>2. \A f \in IdsOf(mem.dirs[d].files) : disk[d].files[f].recs # <<>> /\ f \in IdsOf(disk[d].files)
    BY <1>1, <1>2, <1>8 DEF Running, FilesFilled, MemFileOK
  <2>. QED BY <1>1, <1>3, <1>5, <2>1, <2>2
<1>9. Dirs' = Dirs /\ Extends(all, MemLayout)
  BY <1>1, <1>4 DEF Dirs, Extends
<1>10. ASSUME op.dir \in IdsOf(mem.dirs), op.pc \in Active
       PROVE  /\ \A e \in DOMAIN all : e <= op.dir
              /\ all[op.dir].start + all[op.dir].total = MemTotal
  <2>1. \A e \in DOMAIN all : e <= op.dir
    BY <1>1, <1>5, <1>10, LastIsLast
  <2>2. DirLaidOut(all[op.dir])
    BY <1>5, <1>6, <1>10 DEF LaidOut
  <2>3. all[op.dir].start + all[op.dir].total = MemTotal
    BY <1>5, <1>6, <1>10, <2>1, <2>2, LastDirChanges
  <2>. QED BY <2>1, <2>3
<1>11. CASE NewDirUnsaved
  <2>0. PICK d : d = op.dir
    OBVIOUS
  <2>1. d \in IdsOf(mem.dirs) /\ op.pc \in Active
    BY <1>1, <1>11, <2>0 DEF NewDirUnsaved, Active, Inv, Holds
  <2>2. PICK lay : lay = [e \in DOMAIN all \ {d} |-> all[e]]
    OBVIOUS
  <2>3. DOMAIN lay = DOMAIN all \ {d} /\ \A e \in DOMAIN lay : lay[e] = all[e]
    BY <2>2
  <2>4. LaidOut(lay, all[d].start) /\ Extends(lay, MemLayout)
    BY <1>4, <1>5, <1>6, <1>10, <2>0, <2>1, <2>3, DropDir
  <2>5. Settled = all[d].start
    <3>1. all[d].total = IF op.pc \in After THEN 1 ELSE 0
      BY <1>4, <1>11, <2>0 DEF NewDirUnsaved
    <3>. QED BY <1>5, <1>6, <1>10, <2>0, <2>1, <3>1
  <2>6. IdsOf(Dirs') = DOMAIN lay /\ \A e \in DOMAIN lay : Dirs'[e] = lay[e].start
    <3>1. /\ IdsOf(Starts(mem.dirs)) = IdsOf(mem.dirs)
          /\ \A e \in IdsOf(mem.dirs) : Starts(mem.dirs)[e] = mem.dirs[e].start
      BY DEF Starts, IdsOf
    <3>2. /\ IdsOf(mem.dirs) # {d}
          /\ top.starts = [e \in IdsOf(mem.dirs) \ {d} |-> Starts(mem.dirs)[e]]
      BY <1>11, <2>0, <3>1 DEF NewDirUnsaved
    <3>3. Dirs = top.starts
      BY <2>1, <3>2 DEF Dirs, IdsOf
    <3>. QED BY <1>5, <1>9, <2>3, <3>1, <3>2, <3>3 DEF IdsOf
  <2>7. SavedAs(lay)'
    <3>1. ASSUME NEW e \in DOMAIN lay
          PROVE  /\ disk'[e].idx.starts = lay[e].starts
                 /\ \A f \in DOMAIN lay[e].starts :
                       /\ f \in IdsOf(disk'[e].files) /\ disk'[e].files[f].recs # <<>>
                       /\ disk'[e].files[f].recs = lay[e].recs[f]
                       /\ disk'[e].files[f].hdr = Len(lay[e].recs[f])
      <4>1. e \in IdsOf(mem.dirs) /\ ~NewFileUnsaved(e) /\ lay[e] = all[e]
        BY <1>5, <2>0, <2>3 DEF NewFileUnsaved
      <4>. QED BY <1>8, <4>1
    <3>. QED BY <2>6, <3>1 DEF SavedAs
  <2>8. Stopped'
    <3>1. all[d].start \in Nat
      BY <1>5, <1>6, <2>1
    <3>. QED BY <1>1, <2>4, <2>5, <2>7, <3>1, SavedStops
  <2>. QED BY <1>1, <2>8 DEF StoreInv, FilesOK
<1>12. CASE ~NewDirUnsaved /\ op.dir \in IdsOf(mem.dirs) /\ NewFileUnsaved(op.dir)
  <2>0. PICK d, c : d = op.dir /\ c = mem.dirs[op.dir].cur
    OBVIOUS
  <2>1. /\ d \in IdsOf(mem.dirs) /\ op.pc \in {"write", "index"} /\ op.pc \in Active
        /\ c \in IdsOf(mem.dirs[d].files)
        /\ all[d].starts = Starts(mem.dirs[d].files)
        /\ DOMAIN all[d].starts = IdsOf(mem.dirs[d].files)
        /\ disk[d].idx.starts = [f \in DOMAIN all[d].starts \ {c} |-> all[d].starts[f]]
        /\ Len(all[d].recs[c]) = IF op.pc = "write" THEN 0 ELSE 1
    <3>1. op.pc \in {"write", "index"} /\ d \in IdsOf(mem.dirs)
      BY <1>12, <2>0 DEF NewFileUnsaved
    <3>2. c \in IdsOf(mem.dirs[d].files)
      BY <1>1, <2>0, <3>1 DEF Running, OpOK, activeDir
    <3>3. /\ all[d].starts = Starts(mem.dirs[d].files)
          /\ DOMAIN all[d].starts = IdsOf(mem.dirs[d].files)
          /\ all[d].recs[c] = disk[d].files[c].recs
      BY <1>5, <3>1, <3>2
    <3>4. /\ disk[d].idx.starts = [f \in IdsOf(Starts(mem.dirs[d].files)) \ {c} |-> Starts(mem.dirs[d].files)[f]]
          /\ Len(disk[d].files[c].recs) = IF op.pc = "write" THEN 0 ELSE 1
      BY <1>12, <2>0 DEF NewFileUnsaved
    <3>. QED BY <3>1, <3>2, <3>3, <3>4 DEF Active, IdsOf
  <2>2. PICK less : less = [start |-> all[d].start, total |-> all[d].starts[c],
                            starts |-> [f \in DOMAIN all[d].starts \ {c} |-> all[d].starts[f]],
                            recs |-> all[d].recs]
    OBVIOUS
  <2>3. PICK lay : lay = [e \in DOMAIN all |-> IF e = d THEN less ELSE all[e]]
    OBVIOUS
  <2>4. /\ DOMAIN lay = DOMAIN all /\ lay[d] = less /\ d \in DOMAIN all
        /\ \A e \in DOMAIN all \ {d} : lay[e] = all[e]
    BY <1>5, <2>1, <2>3
  <2>5. \A f \in IdsOf(mem.dirs[d].files) : f <= c
    BY <1>2, <2>0, <2>1 DEF MemFileOK
  <2>6. LaidOut(lay, all[d].start + all[d].starts[c]) /\ Extends(lay, MemLayout)
    <3>1. LaidOut(lay, all[d].start + all[d].starts[c]) /\ Extends(lay, all)
      <4>1. /\ LaidOut(all, MemTotal) /\ d \in DOMAIN all /\ \A e \in DOMAIN all : e <= d
        BY <1>6, <1>10, <2>0, <2>1, <2>4
      <4>2. c \in DOMAIN all[d].starts /\ \A f \in DOMAIN all[d].starts : f <= c
        BY <2>1, <2>5
      <4>3. /\ lay[d].start = all[d].start /\ lay[d].total = all[d].starts[c]
            /\ lay[d].starts = [f \in DOMAIN all[d].starts \ {c} |-> all[d].starts[f]]
            /\ lay[d].recs = all[d].recs
        BY <2>2, <2>4
      <4>. QED BY <2>4, <4>1, <4>2, <4>3, DropFile
    <3>. QED BY <1>4, <3>1
  <2>7. Settled = all[d].start + all[d].starts[c]
    <3>1. all[d].starts[c] + Len(all[d].recs[c]) = all[d].total /\ all[d].starts[c] \in Nat
      <4>1. DirLaidOut(all[d])
        BY <1>6, <2>4 DEF LaidOut
      <4>2. Lens(all[d])[c] = Len(all[d].recs[c])
        BY <2>1 DEF Lens
      <4>. QED BY <2>1, <2>5, <4>1, <4>2 DEF DirLaidOut, Tiles
    <3>2. all[d].start + all[d].total = MemTotal
      BY <1>10, <2>0, <2>1
    <3>3. op.pc = "write" => Settled = MemTotal /\ Len(all[d].recs[c]) = 0
      BY <1>6, <2>1 DEF After
    <3>4. op.pc = "index" => Settled = MemTotal - 1 /\ Len(all[d].recs[c]) = 1
      BY <1>6, <2>1 DEF After
    <3>. QED BY <1>6, <2>1, <2>4, <3>1, <3>2, <3>3, <3>4
  <2>8. SavedAs(lay)'
    <3>1. IdsOf(Dirs') = DOMAIN lay /\ \A e \in DOMAIN lay : Dirs'[e] = lay[e].start
      BY <1>5, <1>7, <1>9, <1>12, <2>2, <2>4
    <3>2. ASSUME NEW e \in DOMAIN lay
          PROVE  /\ disk'[e].idx.starts = lay[e].starts
                 /\ \A f \in DOMAIN lay[e].starts :
                       /\ f \in IdsOf(disk'[e].files) /\ disk'[e].files[f].recs # <<>>
                       /\ disk'[e].files[f].recs = lay[e].recs[f]
                       /\ disk'[e].files[f].hdr = Len(lay[e].recs[f])
      <4>1. CASE e # d
        <5>1. e \in IdsOf(mem.dirs) /\ ~NewFileUnsaved(e) /\ lay[e] = all[e]
          BY <1>5, <2>0, <2>4, <4>1 DEF NewFileUnsaved
        <5>. QED BY <1>8, <5>1
      <4>2. CASE e = d
        <5>1. lay[e].starts = [f \in DOMAIN all[d].starts \ {c} |-> all[d].starts[f]]
              /\ lay[e].recs = all[d].recs
          BY <2>2, <2>4, <4>2
        <5>2. \A f \in IdsOf(mem.dirs[d].files) \ {c} :
                 /\ f \in IdsOf(disk[d].files) /\ disk[d].files[f].recs # <<>>
                 /\ disk[d].files[f].recs = all[d].recs[f]
                 /\ disk[d].files[f].hdr = Len(all[d].recs[f])
          <6>1. \A f \in IdsOf(mem.dirs[d].files) : f \in IdsOf(disk[d].files)
            BY <1>2, <2>1 DEF MemFileOK
          <6>2. \A f \in IdsOf(mem.dirs[d].files) \ {c} : disk[d].files[f].recs # <<>>
            BY <1>1, <2>0, <2>1 DEF Running, FilesFilled
          <6>. QED BY <1>1, <1>3, <1>5, <2>1, <6>1, <6>2
        <5>. QED BY <1>1, <2>1, <4>2, <5>1, <5>2
      <4>. QED BY <4>1, <4>2
    <3>. QED BY <3>1, <3>2 DEF SavedAs
  <2>9. Stopped'
    BY <1>1, <1>6, <2>6, <2>7, <2>8, SavedStops
  <2>. QED BY <1>1, <2>9 DEF StoreInv, FilesOK
<1>13. CASE ~NewDirUnsaved /\ ~(op.dir \in IdsOf(mem.dirs) /\ NewFileUnsaved(op.dir))
  <2>1. SavedAs(all)'
    <3>1. \A d \in IdsOf(mem.dirs) : ~NewFileUnsaved(d)
      BY <1>13 DEF NewFileUnsaved
    <3>2. IdsOf(Dirs') = DOMAIN all /\ \A d \in DOMAIN all : Dirs'[d] = all[d].start
      BY <1>5, <1>7, <1>9, <1>13
    <3>. QED BY <1>5, <1>8, <3>1, <3>2 DEF SavedAs
  <2>2. Stopped'
    BY <1>1, <1>6, <1>9, <2>1, SavedStops
  <2>. QED BY <1>1, <2>2 DEF StoreInv, FilesOK
<1>. QED BY <1>11, <1>12, <1>13

\* The largest of some numbers, or 0 when there are none.
LEMMA HighestIs ==
    ASSUME NEW S \in SUBSET Nat, IsFiniteSet(S)
    PROVE  /\ Highest(S) \in Nat /\ \A x \in S : x <= Highest(S)
           /\ S # {} => Highest(S) \in S
<1> DEFINE T == S \cup {0}
<1>1. T \in SUBSET Nat /\ T # {} /\ IsFiniteSet(T)
  BY FS_AddElement
<1>2. Max(T) \in T /\ \A x \in T : x <= Max(T)
  <2> HIDE DEF T
  <2>. QED BY <1>1, Greatest
<1>3. ASSUME NEW x \in S, Max(T) = 0 PROVE Max(T) \in S
  BY <1>1, <1>2, <1>3
<1>. QED BY <1>1, <1>2, <1>3 DEF Highest

\* What a mount has in memory before it reads: the layout on the disk, no index.
LEMMA MountedIs ==
    ASSUME Stopped, FilesOK, ~up, IdsOf(Dirs) \subseteq IdsOf(disk)
    PROVE  /\ DOMAIN Mounted = {"root", "cur", "total", "dirs"}
           /\ Mounted.root = (IdsOf(top.starts) = {}) /\ Mounted.cur = Highest(IdsOf(Dirs))
           /\ Mounted.total = SavedTotal /\ IdsOf(Mounted.dirs) = DOMAIN SavedLayout
           /\ DOMAIN SavedLayout = IdsOf(Dirs)
           /\ \A d \in IdsOf(Dirs) :
                 /\ DOMAIN Mounted.dirs[d] = {"start", "cur", "total", "files"}
                 /\ Mounted.dirs[d].start = SavedLayout[d].start
                 /\ Mounted.dirs[d].total = SavedLayout[d].total
                 /\ Mounted.dirs[d].cur = Highest(DOMAIN SavedLayout[d].starts)
                 /\ IdsOf(Mounted.dirs[d].files) = DOMAIN SavedLayout[d].starts
                 /\ SavedLayout[d].starts = disk[d].idx.starts
                 /\ \A f \in DOMAIN SavedLayout[d].starts :
                       /\ DOMAIN Mounted.dirs[d].files[f] = {"start", "count", "built", "skip"}
                       /\ Mounted.dirs[d].files[f].start = SavedLayout[d].starts[f]
                       /\ Mounted.dirs[d].files[f].count = Len(disk[d].files[f].recs)
                       /\ Mounted.dirs[d].files[f].skip = 0
                       /\ SavedLayout[d].recs[f] = disk[d].files[f].recs
                       /\ f \in IdsOf(disk[d].files) /\ disk[d].files[f].recs # <<>>
<1> DEFINE dirs == [d \in IdsOf(Dirs) |-> MountDir(disk[d], Dirs[d])]
<1>1. /\ DOMAIN SavedLayout = IdsOf(Dirs)
      /\ \A d \in IdsOf(Dirs) :
            /\ SavedLayout[d].start = Dirs[d]
            /\ SavedLayout[d].total = CountBlocks(disk[d], IdsOf(disk[d].idx.starts))
            /\ SavedLayout[d].starts = disk[d].idx.starts
            /\ \A f \in IdsOf(disk[d].idx.starts) : SavedLayout[d].recs[f] = disk[d].files[f].recs
  BY DEF SavedLayout
<1>2. \A d \in IdsOf(Dirs) :
         /\ DOMAIN dirs[d] = {"start", "cur", "total", "files"}
         /\ dirs[d].start = Dirs[d] /\ dirs[d].cur = Highest(IdsOf(disk[d].idx.starts))
         /\ dirs[d].total = CountBlocks(disk[d], IdsOf(disk[d].idx.starts))
         /\ dirs[d].files = [f \in IdsOf(disk[d].idx.starts) |->
                               MountFile(disk[d].files[f], disk[d].idx.starts[f])]
  BY DEF MountDir
<1>3. /\ DOMAIN Mounted = {"root", "cur", "total", "dirs"}
      /\ Mounted.root = (IdsOf(top.starts) = {}) /\ Mounted.cur = Highest(IdsOf(Dirs))
      /\ Mounted.dirs = dirs
      /\ Mounted.total = SumFunction([d \in IdsOf(Dirs) |-> dirs[d].total])
  BY DEF Mounted
<1>4. IdsOf(dirs) = IdsOf(Dirs)
  BY DEF IdsOf
<1> HIDE DEF dirs
<1>5. Mounted.total = SavedTotal
  <2>1. [d \in IdsOf(Dirs) |-> dirs[d].total] = [d \in IdsOf(Dirs) |-> SavedLayout[d].total]
    BY <1>1, <1>2, ZenonT(60)
  <2>. QED BY <1>3, <2>1 DEF SavedTotal
<1>6. ASSUME NEW d \in IdsOf(Dirs), NEW f \in IdsOf(disk[d].idx.starts)
      PROVE  /\ DOMAIN dirs[d].files[f] = {"start", "count", "built", "skip"}
             /\ dirs[d].files[f].start = disk[d].idx.starts[f]
             /\ dirs[d].files[f].count = Len(disk[d].files[f].recs)
             /\ dirs[d].files[f].skip = 0
             /\ f \in IdsOf(disk[d].files) /\ disk[d].files[f].recs # <<>>
  <2>1. dirs[d].files[f] = MountFile(disk[d].files[f], disk[d].idx.starts[f])
    BY <1>2
  <2>2. f \in IdsOf(disk[d].files) /\ disk[d].files[f].recs # <<>>
    BY DEF Stopped
  <2>3. disk[d].files[f].hdr = Len(disk[d].files[f].recs)
    BY <2>2 DEF FilesOK
  <2>. QED BY <2>1, <2>2, <2>3 DEF MountFile, NewFile
<1>7. \A d \in IdsOf(Dirs) : IdsOf(dirs[d].files) = IdsOf(disk[d].idx.starts)
  BY <1>2 DEF IdsOf
<1>8. ASSUME NEW d \in IdsOf(Dirs)
      PROVE  /\ DOMAIN dirs[d] = {"start", "cur", "total", "files"}
             /\ dirs[d].start = SavedLayout[d].start /\ dirs[d].total = SavedLayout[d].total
             /\ dirs[d].cur = Highest(DOMAIN SavedLayout[d].starts)
             /\ IdsOf(dirs[d].files) = DOMAIN SavedLayout[d].starts
             /\ SavedLayout[d].starts = disk[d].idx.starts
  BY <1>1, <1>2, <1>7, ZenonT(60) DEF IdsOf
<1>9. ASSUME NEW d \in IdsOf(Dirs), NEW f \in DOMAIN SavedLayout[d].starts
      PROVE  /\ DOMAIN dirs[d].files[f] = {"start", "count", "built", "skip"}
             /\ dirs[d].files[f].start = SavedLayout[d].starts[f]
             /\ dirs[d].files[f].count = Len(disk[d].files[f].recs)
             /\ dirs[d].files[f].skip = 0
             /\ SavedLayout[d].recs[f] = disk[d].files[f].recs
             /\ f \in IdsOf(disk[d].files) /\ disk[d].files[f].recs # <<>>
  <2>1. f \in IdsOf(disk[d].idx.starts) /\ SavedLayout[d].starts = disk[d].idx.starts
    BY <1>1 DEF IdsOf
  <2>. QED BY <1>1, <1>6, <2>1
<1>. QED BY <1>1, <1>3, <1>4, <1>5, <1>8, <1>9

\* The next process finds the layout of the disk.
LEMMA MountRuns ==
    ASSUME Inv, Inv', StoreInv, Mount
    PROVE  StoreInv'
<1>0. PICK m, lay, total : m = Mounted /\ lay = SavedLayout /\ total = SavedTotal
  OBVIOUS
<1>1. /\ ~up /\ up' /\ Stopped /\ FilesOK /\ UNCHANGED <<disk, top, op, tries, acked>>
      /\ tries \in Nat /\ op.pc = "idle" /\ IdsOf(Dirs) \subseteq IdsOf(disk)
      /\ LaidOut(lay, total) /\ Acked(lay, total) /\ total \in Nat
      /\ ReadLast(m)
  BY <1>0 DEF Mount, Mountable, StoreInv, Inv, Rests, Stopped, LaidOut
<1>2. /\ DOMAIN m = {"root", "cur", "total", "dirs"}
      /\ m.root = (IdsOf(top.starts) = {}) /\ m.cur = Highest(IdsOf(Dirs))
      /\ m.total = total /\ IdsOf(m.dirs) = DOMAIN lay /\ DOMAIN lay = IdsOf(Dirs)
  BY <1>0, <1>1, MountedIs
<1>3. \A d \in DOMAIN lay :
         /\ DOMAIN m.dirs[d] = {"start", "cur", "total", "files"}
         /\ m.dirs[d].start = lay[d].start /\ m.dirs[d].total = lay[d].total
         /\ m.dirs[d].cur = Highest(DOMAIN lay[d].starts)
         /\ IdsOf(m.dirs[d].files) = DOMAIN lay[d].starts
         /\ lay[d].starts = disk[d].idx.starts
         /\ \A f \in DOMAIN lay[d].starts :
               /\ DOMAIN m.dirs[d].files[f] = {"start", "count", "built", "skip"}
               /\ m.dirs[d].files[f].start = lay[d].starts[f]
               /\ m.dirs[d].files[f].count = Len(disk[d].files[f].recs)
               /\ m.dirs[d].files[f].skip = 0
               /\ lay[d].recs[f] = disk[d].files[f].recs
               /\ f \in IdsOf(disk[d].files) /\ disk[d].files[f].recs # <<>>
  BY <1>0, <1>1, MountedIs
<1>4. \A d \in DOMAIN lay : DirLaidOut(lay[d])
  BY <1>1 DEF LaidOut
\* A file is met for the last id if it has it in the layout.
<1>5. ASSUME NEW d \in DOMAIN lay, NEW f \in DOMAIN lay[d].starts
      PROVE  /\ InRange(total - 1, m.dirs[d], m.dirs[d].total) <=> InDir(lay, d, total - 1)
             /\ InRange(total - 1 - m.dirs[d].start, m.dirs[d].files[f], m.dirs[d].files[f].count)
                  <=> InFile(lay, d, f, total - 1)
  <2>1. /\ m.dirs[d].start = lay[d].start /\ m.dirs[d].total = lay[d].total
        /\ m.dirs[d].files[f].start = lay[d].starts[f]
        /\ m.dirs[d].files[f].count = Len(lay[d].recs[f])
    BY <1>3
  <2>. QED BY <2>1 DEF InRange, InDir, InFile
<1>6. \/ Claims(m, total - 1) = {} /\ mem' = m /\ cache' = None
      \/ \E c \in Claims(m, total - 1) : mem' = Touch(m, c) /\ cache' = ReadIn(m, total - 1, c)
  BY <1>1, <1>2 DEF ReadLast
<1>7. \/ Claims(m, total - 1) = {} /\ mem' = m /\ cache' = None
      \/ \E d \in DOMAIN lay : \E f \in DOMAIN lay[d].starts :
            /\ InDir(lay, d, total - 1) /\ InFile(lay, d, f, total - 1)
            /\ Touched(mem', m, d, f)
            /\ cache' = ReadIn(m, total - 1, <<d, f>>)
  <2>1. CASE \E c \in Claims(m, total - 1) : mem' = Touch(m, c) /\ cache' = ReadIn(m, total - 1, c)
    <3>1. PICK c \in Claims(m, total - 1) : mem' = Touch(m, c) /\ cache' = ReadIn(m, total - 1, c)
      BY <2>1
    <3>2. PICK d, f : /\ c = <<d, f>> /\ d \in IdsOf(m.dirs) /\ f \in IdsOf(m.dirs[d].files)
                      /\ InRange(total - 1, m.dirs[d], m.dirs[d].total)
                      /\ InRange(total - 1 - m.dirs[d].start, m.dirs[d].files[f], m.dirs[d].files[f].count)
      <4>1. /\ c = <<c[1], c[2]>> /\ c[1] \in IdsOf(m.dirs) /\ c[2] \in IdsOf(m.dirs[c[1]].files)
            /\ InRange(total - 1, m.dirs[c[1]], m.dirs[c[1]].total)
            /\ InRange(total - 1 - m.dirs[c[1]].start, m.dirs[c[1]].files[c[2]],
                       m.dirs[c[1]].files[c[2]].count)
        BY ClaimsAre
      <4>. QED BY <4>1
    <3>3. d \in DOMAIN lay /\ f \in DOMAIN lay[d].starts
      BY <1>2, <1>3, <3>2
    <3>4. Touched(Touch(m, <<d, f>>), m, d, f)
      BY <1>2, <1>3, <3>2, <3>3, TouchIs
    <3>. QED BY <1>5, <3>1, <3>2, <3>3, <3>4
  <2>. QED BY <1>6, <2>1
<1>8. /\ DOMAIN mem' = DOMAIN m /\ mem'.root = m.root /\ mem'.cur = m.cur /\ mem'.total = total
      /\ IdsOf(mem'.dirs) = DOMAIN lay
      /\ \A d \in DOMAIN lay :
            /\ DOMAIN mem'.dirs[d] = {"start", "cur", "total", "files"}
            /\ mem'.dirs[d].start = lay[d].start /\ mem'.dirs[d].total = lay[d].total
            /\ mem'.dirs[d].cur = Highest(DOMAIN lay[d].starts)
            /\ IdsOf(mem'.dirs[d].files) = DOMAIN lay[d].starts
            /\ \A f \in DOMAIN lay[d].starts :
                  /\ DOMAIN mem'.dirs[d].files[f] = {"start", "count", "built", "skip"}
                  /\ mem'.dirs[d].files[f].start = lay[d].starts[f]
                  /\ mem'.dirs[d].files[f].count = Len(disk[d].files[f].recs)
                  /\ mem'.dirs[d].files[f].skip = 0
  <2>1. CASE mem' = m
    BY <1>2, <1>3, <2>1
  <2>2. CASE \E d \in DOMAIN lay : \E f \in DOMAIN lay[d].starts : Touched(mem', m, d, f)
    <3>1. PICK d \in DOMAIN lay : \E f \in DOMAIN lay[d].starts : Touched(mem', m, d, f)
      BY <2>2
    <3>2. PICK f \in DOMAIN lay[d].starts : Touched(mem', m, d, f)
      BY <3>1
    <3>3. /\ DOMAIN mem' = DOMAIN m /\ mem'.root = m.root /\ mem'.cur = m.cur /\ mem'.total = total
          /\ IdsOf(mem'.dirs) = DOMAIN lay
      BY <1>2, <1>3, <3>2 DEF Touched
    <3>4. ASSUME NEW e \in DOMAIN lay
          PROVE  /\ DOMAIN mem'.dirs[e] = {"start", "cur", "total", "files"}
                 /\ mem'.dirs[e].start = lay[e].start /\ mem'.dirs[e].total = lay[e].total
                 /\ mem'.dirs[e].cur = Highest(DOMAIN lay[e].starts)
                 /\ IdsOf(mem'.dirs[e].files) = DOMAIN lay[e].starts
      <4>1. CASE e = d
        BY <1>2, <1>3, <3>2, <4>1 DEF Touched
      <4>2. CASE e # d
        BY <1>2, <1>3, <3>2, <4>2 DEF Touched
      <4>. QED BY <4>1, <4>2
    <3>5. ASSUME NEW e \in DOMAIN lay, NEW g \in DOMAIN lay[e].starts
          PROVE  /\ DOMAIN mem'.dirs[e].files[g] = {"start", "count", "built", "skip"}
                 /\ mem'.dirs[e].files[g].start = lay[e].starts[g]
                 /\ mem'.dirs[e].files[g].count = Len(disk[e].files[g].recs)
                 /\ mem'.dirs[e].files[g].skip = 0
      <4>1. CASE e = d /\ g = f
        BY <1>2, <1>3, <3>2, <4>1 DEF Touched
      <4>2. CASE e = d /\ g # f
        BY <1>2, <1>3, <3>2, <4>2 DEF Touched
      <4>3. CASE e # d
        BY <1>2, <1>3, <3>2, <4>3 DEF Touched
      <4>. QED BY <4>1, <4>2, <4>3
    <3>. QED BY <3>3, <3>4, <3>5
  <2>. QED BY <1>7, <2>1, <2>2
<1>9. /\ IdsOf(Dirs) \in SUBSET Nat /\ IsFiniteSet(IdsOf(Dirs))
      /\ m.cur \in Nat /\ \A d \in DOMAIN lay : d <= m.cur
      /\ m.root => DOMAIN lay = {Root} /\ lay[Root].start = 0
  <2>1. DOMAIN lay \in SUBSET Nat /\ IsFiniteSet(DOMAIN lay)
    BY <1>1 DEF LaidOut
  <2>2. m.root => Dirs = Only(Root, 0)
    BY <1>2 DEF Dirs
  <2>3. m.root => DOMAIN lay = {Root} /\ Dirs[Root] = 0
    BY <1>2, <2>2 DEF Only, IdsOf
  <2>4. \A d \in DOMAIN lay : lay[d].start = Dirs[d]
    BY <1>0 DEF SavedLayout
  <2>. QED BY <1>2, <2>1, <2>3, <2>4, HighestIs
<1>10. FilesOK'
  BY <1>1 DEF FilesOK
<1>11. MemOK'
  <2>1. \A d \in DOMAIN lay : \A f \in DOMAIN lay[d].starts : MemFileOK(d, f)'
    <3> SUFFICES ASSUME NEW d \in DOMAIN lay, NEW f \in DOMAIN lay[d].starts PROVE MemFileOK(d, f)'
      OBVIOUS
    <3>1. f <= Highest(DOMAIN lay[d].starts)
      BY <1>4, HighestIs DEF DirLaidOut
    <3>. QED BY <1>1, <1>3, <1>8, <3>1 DEF MemFileOK
  <2>2. \A d \in DOMAIN lay : mem'.dirs[d].cur \in Nat /\ mem'.dirs[d].total \in Nat
    BY <1>4, <1>8, HighestIs DEF DirLaidOut
  <2>3. m.root \in BOOLEAN
    BY <1>2
  <2>. QED BY <1>1, <1>8, <1>9, <2>1, <2>2, <2>3 DEF MemOK
<1>12. /\ DOMAIN MemLayout' = DOMAIN lay
       /\ \A d \in DOMAIN lay :
             /\ MemLayout'[d].start = lay[d].start /\ MemLayout'[d].total = lay[d].total
             /\ MemLayout'[d].starts = lay[d].starts
             /\ \A f \in DOMAIN lay[d].starts : MemLayout'[d].recs[f] = lay[d].recs[f]
             /\ Starts(mem'.dirs[d].files) = lay[d].starts
  <2>1. DOMAIN MemLayout' = DOMAIN lay
    BY <1>8 DEF MemLayout
  <2>2. ASSUME NEW d \in DOMAIN lay
        PROVE  /\ MemLayout'[d].start = lay[d].start /\ MemLayout'[d].total = lay[d].total
               /\ MemLayout'[d].starts = lay[d].starts
               /\ \A f \in DOMAIN lay[d].starts : MemLayout'[d].recs[f] = lay[d].recs[f]
               /\ Starts(mem'.dirs[d].files) = lay[d].starts
    <3>1. MemLayout'[d] =
             [start |-> mem'.dirs[d].start, total |-> mem'.dirs[d].total + 0,
              starts |-> Starts(mem'.dirs[d].files),
              recs |-> [f \in IdsOf(mem'.dirs[d].files) |-> disk'[d].files[f].recs]]
      BY <1>1, <1>8 DEF MemLayout
    <3>2. Starts(mem'.dirs[d].files) = lay[d].starts
      <4>1. lay[d].starts = [f \in DOMAIN lay[d].starts |-> lay[d].starts[f]]
        BY <1>4 DEF DirLaidOut
      <4>. QED BY <1>8, <4>1 DEF Starts, IdsOf
    <3>3. lay[d].total \in Nat
      BY <1>4 DEF DirLaidOut
    <3>. QED BY <1>1, <1>3, <1>8, <3>1, <3>2, <3>3
  <2>. QED BY <2>1, <2>2
<1>13. MemTotal' = total /\ Settled' = total
  BY <1>1, <1>8 DEF MemTotal, Settled, After
<1>14. /\ LaidOut(MemLayout', total) /\ Extends(lay, MemLayout')
  <2>1. /\ DOMAIN lay \in SUBSET Nat /\ IsFiniteSet(DOMAIN lay)
        /\ DirStarts(MemLayout') = DirStarts(lay) /\ DirTotals(MemLayout') = DirTotals(lay)
    BY <1>1, <1>12 DEF LaidOut, DirStarts, DirTotals
  <2>2. ASSUME NEW d \in DOMAIN lay PROVE DirLaidOut(MemLayout'[d])
    <3>1. Lens(MemLayout'[d]) = Lens(lay[d])
      BY <1>12 DEF Lens
    <3>. QED BY <1>4, <1>12, <3>1 DEF DirLaidOut
  <2>3. LaidOut(MemLayout', total)
    BY <1>1, <1>12, <2>1, <2>2 DEF LaidOut
  <2>4. Extends(lay, MemLayout')
    BY <1>12 DEF Extends
  <2>. QED BY <2>3, <2>4
<1>15. Acked(MemLayout, Settled)'
  BY <1>1, <1>13, <1>14, HasMore DEF Acked
<1>16. CacheOK'
  <2> SUFFICES ASSUME cache' # None PROVE HasBlock(MemLayout', total - 1, cache')
    BY <1>13 DEF CacheOK
  <2>1. PICK d \in DOMAIN lay : \E f \in DOMAIN lay[d].starts :
            InDir(lay, d, total - 1) /\ InFile(lay, d, f, total - 1)
            /\ cache' = ReadIn(m, total - 1, <<d, f>>)
    BY <1>7
  <2>2. PICK f \in DOMAIN lay[d].starts :
            InDir(lay, d, total - 1) /\ InFile(lay, d, f, total - 1)
            /\ cache' = ReadIn(m, total - 1, <<d, f>>)
    BY <2>1
  <2>3. PICK k : k = total - 1 - lay[d].start - lay[d].starts[f] + 1
    OBVIOUS
  <2>4. lay[d].start \in Nat /\ lay[d].starts[f] \in Nat /\ lay[d].recs[f] \in Seq(Blocks)
    BY <1>4 DEF DirLaidOut
  <2>5. total - 1 \in Nat
    BY <1>1, <2>2, <2>4 DEF InDir
  <2>6. /\ k \in 1 .. Len(lay[d].recs[f])
        /\ HasBlock(lay, total - 1, lay[d].recs[f][k])
    BY <1>1, <2>2, <2>3, <2>5, InFileHas
  <2>7. BuildBlockIndex(m.dirs[d].files[f], disk[d].files[f]).skip = 0
    BY <1>3 DEF BuildBlockIndex
  <2>8. 0 + (total - 1 - m.dirs[d].start - m.dirs[d].files[f].start) + 1 = k
    BY <1>3, <2>3, <2>4, <2>5
  <2>9. lay[d].recs[f] = disk[d].files[f].recs /\ k \in DOMAIN disk[d].files[f].recs
    BY <1>3, <2>4, <2>6
  <2>10. cache' = lay[d].recs[f][k]
    BY <2>2, <2>7, <2>8, <2>9 DEF ReadIn, BlockAt
  <2>. QED BY <1>14, <2>6, <2>10, HasMore
<1>17. BuiltOK'
  <2> SUFFICES ASSUME NEW d \in DOMAIN lay, d = LastDir', NEW f \in DOMAIN lay[d].starts,
                      \A g \in DOMAIN lay[d].starts : g <= f
               PROVE  mem'.dirs[d].files[f].built
    BY <1>8 DEF BuiltOK, Indexed
  <2>1. \A e \in DOMAIN lay : e <= d
    <3>1. mem'.root => \A e \in DOMAIN lay : e = d
      BY <1>8, <1>9 DEF LastDir
    <3>. QED BY <1>8, <1>9, <3>1 DEF LastDir
  <2>2. lay[d].start + lay[d].total = total
    BY <1>1, <1>4, <2>1, LastDirChanges
  <2>3. PICK n : n = Len(lay[d].recs[f])
    OBVIOUS
  <2>4. /\ n \in Nat /\ n > 0 /\ lay[d].start \in Nat /\ lay[d].total \in Nat
        /\ lay[d].starts[f] \in Nat
    <3>1. lay[d].recs[f] # <<>> /\ lay[d].recs[f] \in Seq(Blocks)
      BY <1>3, <1>4 DEF DirLaidOut
    <3>. QED BY <1>4, <2>3, <3>1 DEF DirLaidOut
  <2>5. lay[d].starts[f] + n = lay[d].total
    <3>1. Lens(lay[d])[f] = n
      BY <2>3 DEF Lens
    <3>2. Tiles(DOMAIN lay[d].starts, lay[d].starts, Lens(lay[d]), lay[d].total)
      BY <1>4 DEF DirLaidOut
    <3>3. lay[d].starts[f] + Lens(lay[d])[f] = lay[d].total
      BY <3>2 DEF Tiles
    <3>. QED BY <3>1, <3>3
  <2>6. total - 1 \in Nat /\ InDir(lay, d, total - 1) /\ InFile(lay, d, f, total - 1)
    <3>1. n \in 1 .. Len(lay[d].recs[f])
      BY <2>3, <2>4
    <3>2. Place(lay, d, f, n) = total - 1
      BY <2>2, <2>4, <2>5 DEF Place
    <3>. QED BY <1>1, <3>1, <3>2, PlaceInRange
  <2>7. Claims(m, total - 1) # {}
    <3>1. <<d, f>> \in Claims(m, total - 1)
      BY <1>2, <1>3, <1>5, <2>6, ClaimsAre
    <3>. QED BY <3>1
  <2>8. PICK e \in DOMAIN lay : \E g \in DOMAIN lay[e].starts :
            /\ InDir(lay, e, total - 1) /\ InFile(lay, e, g, total - 1)
            /\ Touched(mem', m, e, g)
    BY <1>7, <2>7
  <2>9. PICK g \in DOMAIN lay[e].starts :
            /\ InDir(lay, e, total - 1) /\ InFile(lay, e, g, total - 1)
            /\ Touched(mem', m, e, g)
    BY <2>8
  <2>10. e = d /\ g = f
    BY <1>1, <2>6, <2>9, PlaceUnique
  <2>. QED BY <2>9, <2>10 DEF Touched
<1>18. FileIndexOK'
  BY <1>1, <1>3, <1>8, <1>12 DEF FileIndexOK
<1>19. FilesFilled'
  BY <1>1, <1>3, <1>8 DEF FilesFilled
<1>20. DirIndexOK'
  <2> SUFFICES ASSUME ~m.root PROVE top.starts = Starts(mem'.dirs)
    BY <1>1, <1>8 DEF DirIndexOK
  <2>1. Dirs = top.starts
    BY <1>2 DEF Dirs
  <2>2. top.starts = [d \in IdsOf(top.starts) |-> top.starts[d]]
    BY <1>1 DEF FilesOK
  <2>3. \A d \in DOMAIN lay : lay[d].start = Dirs[d]
    BY <1>0, <1>2 DEF SavedLayout
  <2>. QED BY <1>2, <1>8, <2>1, <2>2, <2>3 DEF Starts, IdsOf
<1>21. OpOK'
  BY <1>1 DEF OpOK, Active, After
<1>. QED BY <1>1, <1>10, <1>11, <1>13, <1>14, <1>15, <1>16, <1>17, <1>18, <1>19, <1>20, <1>21
         DEF StoreInv, Running

----------------------------------------------------------------------------
(* The theorems.                                                           *)

\* A ledger that has just been initialised has one directory, and no blocks.
LEMMA InitRuns ==
    ASSUME Init
    PROVE  StoreInv
<1>1. /\ up /\ op.pc = "idle" /\ mem.root = TRUE /\ mem.cur = 0 /\ mem.total = 0
      /\ cache = None /\ tries = 0 /\ IdsOf(acked) = {} /\ top.starts = <<>>
      /\ IdsOf(disk) = {Root} /\ IdsOf(disk[Root].files) = {} /\ disk[Root].idx.starts = <<>>
      /\ IdsOf(mem.dirs) = {Root} /\ DOMAIN mem.dirs[Root] = {"start", "cur", "total", "files"}
      /\ mem.dirs[Root].start = 0 /\ mem.dirs[Root].cur = 0 /\ mem.dirs[Root].total = 0
      /\ mem.dirs[Root].files = <<>>
  BY DEF Init, Only, Index, NoStore, Idle, IdsOf
<1>2. IdsOf(mem.dirs[Root].files) = {} /\ Starts(mem.dirs[Root].files) = <<>>
  BY <1>1 DEF IdsOf, Starts
<1>3. /\ DOMAIN MemLayout = {Root} /\ MemLayout[Root].start = 0 /\ MemLayout[Root].total = 0
      /\ DOMAIN MemLayout[Root].starts = {} /\ MemLayout[Root].starts = <<>>
  BY <1>1, <1>2, MemLayoutIs
<1>4. MemTotal = 0 /\ Settled = 0
  BY <1>1 DEF MemTotal, Settled, After
<1>5. DirLaidOut(MemLayout[Root])
  <2>1. MemLayout[Root].starts \in [{} -> Nat]
    BY <1>3
  <2>2. IsFiniteSet({})
    BY FS_EmptySet
  <2>3. Tiles({}, MemLayout[Root].starts, Lens(MemLayout[Root]), 0)
    BY DEF Tiles
  <2>. QED BY <1>3, <2>1, <2>2, <2>3 DEF DirLaidOut
<1>6. LaidOut(MemLayout, MemTotal)
  <2>1. {Root} \in SUBSET Nat /\ IsFiniteSet({Root})
    BY FS_Singleton DEF Root
  <2>2. Tiles({Root}, DirStarts(MemLayout), DirTotals(MemLayout), 0)
    <3>1. DirStarts(MemLayout)[Root] = 0 /\ DirTotals(MemLayout)[Root] = 0
      BY <1>3 DEF DirStarts, DirTotals
    <3>. QED BY <3>1 DEF Tiles, Root
  <2>. QED BY <1>3, <1>4, <1>5, <2>1, <2>2 DEF LaidOut
<1>7. FilesOK
  BY <1>1 DEF FilesOK, IdsOf
<1>8. MemOK /\ BuiltOK /\ FilesFilled
  <2>1. BuiltOK
    BY <1>1, <1>2 DEF BuiltOK
  <2>2. FilesFilled
    BY <1>1, <1>2 DEF FilesFilled
  <2>3. MemOK
    <3>1. \A d \in IdsOf(mem.dirs) : \A f \in IdsOf(mem.dirs[d].files) : MemFileOK(d, f)
      BY <1>1, <1>2
    <3>2. mem.cur \in Nat /\ mem.total \in Nat
      BY <1>1
    <3>4. mem.root \in BOOLEAN
      <4>1. mem.root = TRUE
        BY <1>1
      <4>. QED BY <4>1
    <3>5. IdsOf(mem.dirs) = {Root} /\ mem.dirs[Root].start = 0 /\ mem.root = TRUE
      BY <1>1
    <3>3. \A d \in IdsOf(mem.dirs) :
             /\ DOMAIN mem.dirs[d] = {"start", "cur", "total", "files"}
             /\ mem.dirs[d].cur \in Nat /\ mem.dirs[d].total \in Nat
      BY <1>1
    <3>. QED BY <3>1, <3>2, <3>3, <3>4, <3>5 DEF MemOK
  <2>. QED BY <2>1, <2>2, <2>3
<1>9. OpOK /\ FileIndexOK /\ DirIndexOK /\ CacheOK
  BY <1>1, <1>2 DEF OpOK, FileIndexOK, DirIndexOK, CacheOK, Active, After
<1>10. Acked(MemLayout, Settled)
  BY <1>1 DEF Acked
<1>. QED BY <1>1, <1>6, <1>7, <1>8, <1>9, <1>10 DEF StoreInv, Running

\* The points of addBlock that a kill must spare, for what is proved below.
Spared == Windows \cup {"header"}

\* Every step keeps the invariant and what was reported stored.
LEMMA StepKeeps ==
    ASSUME Inv, StoreInv, [Next]_vars, CrashAt \cap Spared = {}, MaxLevel = 0
    PROVE  Inv' /\ StoreInv' /\ \A i \in DOMAIN acked : acked'[i] = acked[i]
<1>1. Inv'
  <2>1. CrashAt \cap Windows = {}
    BY DEF Spared
  <2>. QED BY <2>1, StepInv
<1>2. CASE UNCHANGED vars
  <2>0. UNCHANGED <<disk, top, up, mem, cache, op, tries, acked>>
    BY <1>2 DEF vars
  <2>2. /\ MemLayout' = MemLayout /\ MemTotal' = MemTotal /\ Dirs' = Dirs /\ LastDir' = LastDir
        /\ activeDir' = activeDir /\ (FilesOK' <=> FilesOK)
    BY <2>0 DEF MemLayout, MemTotal, Dirs, LastDir, activeDir, FilesOK
  <2>3. SavedLayout' = SavedLayout /\ SavedTotal' = SavedTotal /\ Settled' = Settled
    <3>1. SavedLayout' = SavedLayout
      BY <2>0, <2>2 DEF SavedLayout
    <3>. QED BY <2>0, <2>2, <3>1 DEF SavedTotal, Settled
  <2>4. Stopped' <=> Stopped
    BY <2>0, <2>2, <2>3 DEF Stopped, Acked
  <2>5. (MemOK' <=> MemOK) /\ (BuiltOK' <=> BuiltOK) /\ (OpOK' <=> OpOK)
    BY <2>0, <2>2 DEF MemOK, MemFileOK, BuiltOK, Indexed, DirFits, OpOK
  <2>6. (FileIndexOK' <=> FileIndexOK) /\ (FilesFilled' <=> FilesFilled) /\ (CacheOK' <=> CacheOK)
    BY <2>0, <2>2, <2>3 DEF FileIndexOK, FilesFilled, NewFileUnsaved, CacheOK
  <2>7. DirIndexOK' <=> DirIndexOK
    BY <2>0, <2>2 DEF DirIndexOK, NewDirUnsaved
  <2>8. Running' <=> Running
    BY <2>0, <2>2, <2>3, <2>5, <2>6, <2>7 DEF Running, Acked
  <2>1. StoreInv'
    BY <2>0, <2>2, <2>4, <2>8 DEF StoreInv
  <2>. QED BY <1>1, <1>2, <2>1 DEF vars
<1>3. CASE FinishAddBlock
  BY <1>1, <1>3, FinishRuns DEF IdsOf
<1>4. ASSUME NEW s \in Sizes, AddBlock(s)
      PROVE  StoreInv' /\ acked' = acked
  BY <1>1, <1>4, AddBlockRuns DEF AddBlock
<1>5. CASE UseCurrentDir \/ UseCurrentFile
  BY <1>1, <1>5, UseRuns DEF UseCurrentDir, UseCurrentFile, Process, History
<1>6. CASE RelocateRootStore
  BY <1>1, <1>6, RelocateRuns DEF RelocateRootStore, Process, History
<1>7. CASE \/ OpenIndex \/ SaveIndex \/ OpenTopIndex \/ SaveTopIndex \/ SaveRelocation
  BY <1>1, <1>7, IndexRuns DEF OpenIndex, SaveIndex, OpenTopIndex, SaveTopIndex,
     SaveRelocation, Process, History
<1>8. CASE CreateFileDirStore
  BY <1>1, <1>8, NoDirRuns, NewDirRuns DEF CreateFileDirStore, Process, History
<1>9. CASE StoreFull
  BY <1>1, <1>9, NoDirRuns DEF StoreFull, Process, History
<1>10. CASE CreateBlockFile
  BY <1>1, <1>10, NoFileRuns, NewFileRuns DEF CreateBlockFile, Process, History
<1>11. CASE WriteBlock
  BY <1>1, <1>11, WriteRuns DEF WriteBlock, Process, History
<1>12. CASE UpdateHeaderBlockCount
  BY <1>1, <1>12, HeaderRuns DEF UpdateHeaderBlockCount, Process, History
<1>13. ASSUME NEW i \in 0 .. MaxTries, ReadBlock(i)
       PROVE  StoreInv' /\ acked' = acked
  <2>1. i \in Nat
    OBVIOUS
  <2>. QED BY <1>1, <1>13, <2>1, ReadRuns DEF ReadBlock
<1>14. CASE Close
  BY <1>1, <1>14, CloseRuns DEF Close
<1>15. CASE Crash
  <2>1. op.pc \notin Windows /\ op.pc # "header"
    BY <1>15 DEF Crash, Spared
  <2>. QED BY <1>1, <1>15, <2>1, CrashRuns DEF Crash
<1>16. CASE Mount
  BY <1>1, <1>16, MountRuns DEF Mount
<1>. QED BY <1>1, <1>2, <1>3, <1>4, <1>5, <1>6, <1>7, <1>8, <1>9, <1>10, <1>11, <1>12, <1>13,
            <1>14, <1>15, <1>16 DEF Next

\* The invariant holds of every behaviour.
THEOREM StoreInvHolds ==
    ASSUME CrashAt \cap Spared = {}, MaxLevel = 0
    PROVE  Spec => [](Inv /\ StoreInv)
BY InitInv, InitRuns, StepKeeps, PTL DEF Spec

\* A block that addBlock reported stored stays the answer to its id
\* (AckedReadable), for every size of blocks, files and directories and as many
\* calls, restarts and kills as there are, if no kill falls in the windows of an
\* index file, in the move of the root, or between a block and its file's count.
THEOREM StoredStaysReadable ==
    ASSUME CrashAt \cap Spared = {}, MaxLevel = 0
    PROVE  Spec => []AckedReadable
BY StoreInvHolds, InvReads, PTL

\* Every id below the next one has a block (NoHoles): a call that was cut short
\* leaves its block or nothing.
THEOREM NoIdWithoutBlock ==
    ASSUME CrashAt \cap Spared = {}, MaxLevel = 0
    PROVE  Spec => []NoHoles
BY StoreInvHolds, InvReads, PTL

\* An id whose block was reported stored is not given out again (IdsFresh), not
\* after a restart either, where the next id is counted from the files' headers.
THEOREM IdsGivenOnce ==
    ASSUME CrashAt \cap Spared = {}, MaxLevel = 0
    PROVE  Spec => IdsFresh
<1>1. Inv /\ StoreInv /\ [Next]_vars => [\A i \in DOMAIN acked : acked'[i] = acked[i]]_vars
  BY StepKeeps
<1>. QED BY <1>1, StoreInvHolds, PTL DEF Spec, IdsFresh

----------------------------------------------------------------------------
(* What killed calls leave behind.  A kill leaves one file or directory at *)
(* most that no index names, so that there are never more of these than    *)
(* there were kills (Unnamed); what no call has met since the mount is     *)
(* among them (Ahead), and each call that fails for one steps over it.     *)

\* The root will be directory 1.
Slot(d) == IF d = Root THEN 1 ELSE d

\* The directories on the disk that are not named, as file 0, and the files that
\* are not, in those that are.
Unnamed(dirs, names) ==
    {<<Slot(d), 0>> : d \in IdsOf(dirs) \ DOMAIN names}
        \cup UNION {{<<Slot(d), f>> : f \in IdsOf(dirs[d].files) \ names[d]} : d \in DOMAIN names}

\* The files of each directory, as the process names them and as the index files do.
Held  == [d \in IdsOf(mem.dirs) |-> IdsOf(mem.dirs[d].files)]
Saved == [d \in IdsOf(Dirs) |-> IdsOf(disk[d].idx.starts)]

\* What calls have yet to step over: the directories after the one in use and the
\* files after the one it writes to.
Ahead ==
    {<<Slot(d), 0>> : d \in {e \in IdsOf(disk) : e > mem.cur}}
        \cup {<<Slot(LastDir), f>> :
                f \in {g \in IdsOf(disk[LastDir].files) :
                          DirFits(LastDir) /\ g > mem.dirs[LastDir].cur}}

\* A finite set of n elements at most.
Few(S, n) == IsFiniteSet(S) /\ Cardinality(S) <= n

\* There is no room, and there will be none.
Full == ~DirFits(mem.cur) /\ Cardinality(IdsOf(mem.dirs)) >= MaxDirs

\* What misses are charged to, while there is room.
RetryInv ==
    /\ crashes \in Nat /\ misses \in Nat
    /\ \A d \in IdsOf(disk) : d \in Nat /\ IdsOf(disk[d].files) \subseteq Nat \ {0}
    /\ up => /\ mem.root => mem.cur = 0
             /\ Few(Unnamed(disk, Held), crashes)
             /\ Full \/ Few(Ahead, crashes - misses)
    /\ ~up => Few(Unnamed(disk, Saved), crashes)

\* What is ahead is not named, and between calls the index files name what the
\* process does.
Agreed ==
    up => /\ Ahead \subseteq Unnamed(disk, Held)
          /\ op.pc = "idle" => Saved = Held

\* Sets with few elements.
LEMMA FewLess ==
    ASSUME NEW T, NEW n \in Int, Few(T, n), NEW S \in SUBSET T, NEW m \in Int, n <= m
    PROVE  Few(S, m)
<1>1. IsFiniteSet(T) /\ Cardinality(T) <= n
  BY DEF Few
<1>2. IsFiniteSet(S) /\ Cardinality(S) <= Cardinality(T)
  BY <1>1, FS_Subset
<1>3. Cardinality(S) \in Nat /\ Cardinality(T) \in Nat
  BY <1>1, <1>2, FS_CardinalityType
<1>. QED BY <1>1, <1>2, <1>3 DEF Few

LEMMA FewMore ==
    ASSUME NEW T, NEW n \in Int, Few(T, n), NEW x
    PROVE  Few(T \cup {x}, n + 1)
<1>1. IsFiniteSet(T) /\ Cardinality(T) <= n
  BY DEF Few
<1>2. /\ IsFiniteSet(T \cup {x})
      /\ Cardinality(T \cup {x}) = IF x \in T THEN Cardinality(T) ELSE Cardinality(T) + 1
  BY <1>1, FS_AddElement
<1>3. Cardinality(T) \in Nat
  BY <1>1, FS_CardinalityType
<1>. QED BY <1>1, <1>2, <1>3 DEF Few

LEMMA FewWithout ==
    ASSUME NEW T, NEW n \in Int, Few(T, n), NEW x \in T
    PROVE  Few(T \ {x}, n - 1)
<1>1. IsFiniteSet(T) /\ Cardinality(T) <= n
  BY DEF Few
<1>2. /\ IsFiniteSet(T \ {x})
      /\ Cardinality(T \ {x}) = Cardinality(T) - 1
  BY <1>1, FS_RemoveElement
<1>3. Cardinality(T) \in Nat
  BY <1>1, FS_CardinalityType
<1>. QED BY <1>1, <1>2, <1>3 DEF Few

\* What is not named on some disk was not on another, but for X.
LEMMA UnnamedWithin ==
    ASSUME NEW dirs, NEW names, NEW dirs2, NEW names2, NEW X,
           \A d \in IdsOf(dirs2) \ DOMAIN names2 :
              d \in IdsOf(dirs) \ DOMAIN names \/ <<Slot(d), 0>> \in X,
           \A d \in DOMAIN names2 : \A f \in IdsOf(dirs2[d].files) \ names2[d] :
              \/ d \in DOMAIN names /\ f \in IdsOf(dirs[d].files) \ names[d]
              \/ <<Slot(d), f>> \in X
    PROVE  Unnamed(dirs2, names2) \subseteq Unnamed(dirs, names) \cup X
<1> SUFFICES ASSUME NEW x \in Unnamed(dirs2, names2) PROVE x \in Unnamed(dirs, names) \cup X
  OBVIOUS
<1>1. CASE \E d \in IdsOf(dirs2) \ DOMAIN names2 : x = <<Slot(d), 0>>
  BY <1>1 DEF Unnamed
<1>2. CASE \E d \in DOMAIN names2 : \E f \in IdsOf(dirs2[d].files) \ names2[d] : x = <<Slot(d), f>>
  <2>0. PICK d \in DOMAIN names2 : \E f \in IdsOf(dirs2[d].files) \ names2[d] : x = <<Slot(d), f>>
    BY <1>2
  <2>1. PICK f \in IdsOf(dirs2[d].files) \ names2[d] : x = <<Slot(d), f>>
    BY <2>0
  <2>2. CASE d \in DOMAIN names /\ f \in IdsOf(dirs[d].files) \ names[d]
    BY <2>1, <2>2 DEF Unnamed
  <2>. QED BY <2>1, <2>2
<1>. QED BY <1>1, <1>2 DEF Unnamed

\* The invariant of the store gives both.
LEMMA AgreedIs ==
    ASSUME Inv, StoreInv
    PROVE  Agreed
<1> SUFFICES ASSUME up PROVE Ahead \subseteq Unnamed(disk, Held) /\ (op.pc = "idle" => Saved = Held)
  BY DEF Agreed
<1>1. /\ Running /\ IdsOf(mem.dirs) \subseteq IdsOf(disk)
      /\ mem.cur \in Nat /\ mem.root \in BOOLEAN
      /\ \A d \in IdsOf(mem.dirs) :
            /\ d \in Nat /\ mem.dirs[d].cur \in Nat
            /\ \A f \in IdsOf(mem.dirs[d].files) : f <= mem.dirs[d].cur /\ f \in Nat
      /\ IF mem.root THEN IdsOf(mem.dirs) = {Root}
         ELSE \A d \in IdsOf(mem.dirs) : d <= mem.cur
  <2>1. Running /\ IdsOf(mem.dirs) \subseteq IdsOf(disk)
    BY DEF StoreInv, Inv, Holds
  <2>2. \A d \in IdsOf(mem.dirs) : d \in Nat /\ \A f \in IdsOf(mem.dirs[d].files) : f \in Nat
    BY <2>1, MemLayoutIs DEF Running, LaidOut, DirLaidOut
  <2>. QED BY <2>1, <2>2 DEF Running, MemOK, MemFileOK
<1>2. ASSUME NEW d \in IdsOf(disk), d > mem.cur
      PROVE  <<Slot(d), 0>> \in Unnamed(disk, Held)
  <2>1. d \notin IdsOf(mem.dirs)
    BY <1>1, <1>2 DEF Root
  <2>2. d \notin DOMAIN Held
    BY <2>1 DEF Held
  <2>. QED BY <2>2 DEF Unnamed
<1>3. ASSUME NEW f \in IdsOf(disk[LastDir].files), DirFits(LastDir), f > mem.dirs[LastDir].cur
      PROVE  <<Slot(LastDir), f>> \in Unnamed(disk, Held)
  <2>1. LastDir \in IdsOf(mem.dirs)
    BY <1>3 DEF DirFits
  <2>2. f \notin IdsOf(mem.dirs[LastDir].files)
    BY <1>1, <1>3, <2>1
  <2>3. LastDir \in DOMAIN Held /\ f \in IdsOf(disk[LastDir].files) \ Held[LastDir]
    BY <2>1, <2>2 DEF Held
  <2>. QED BY <2>3 DEF Unnamed
<1>4. Ahead \subseteq Unnamed(disk, Held)
  BY <1>2, <1>3 DEF Ahead
<1>5. ASSUME op.pc = "idle" PROVE Saved = Held
  <2>1. /\ \A d \in IdsOf(mem.dirs) : disk[d].idx.starts = Starts(mem.dirs[d].files)
        /\ ~mem.root => top.starts = Starts(mem.dirs)
    BY <1>1, <1>5 DEF Running, FileIndexOK, NewFileUnsaved, DirIndexOK, NewDirUnsaved
  <2>2. IdsOf(Dirs) = IdsOf(mem.dirs)
    <3>1. CASE mem.root
      BY <1>1, <3>1 DEF Inv, Holds, Dirs, Only, IdsOf
    <3>2. CASE ~mem.root
      BY <1>1, <2>1, <3>2 DEF Inv, Holds, Dirs, Starts, IdsOf
    <3>. QED BY <1>1, <3>1, <3>2
  <2>3. \A d \in IdsOf(mem.dirs) : IdsOf(disk[d].idx.starts) = IdsOf(mem.dirs[d].files)
    BY <2>1 DEF Starts, IdsOf
  <2>. QED BY <2>2, <2>3 DEF Saved, Held
<1>. QED BY <1>4, <1>5

\* Fewer misses leave more of the kills.
LEMMA FewerMissed ==
    ASSUME crashes \in Nat, misses \in Nat, misses' \in Nat, misses' <= misses, UNCHANGED crashes
    PROVE  /\ crashes - misses \in Int /\ crashes' - misses' \in Int
           /\ crashes - misses <= crashes' - misses'
<1>1. \A a, b, c, d \in Int : c <= b /\ a = d => a - b <= d - c
  OBVIOUS
<1>2. /\ crashes \in Int /\ crashes' \in Int /\ misses \in Int /\ misses' \in Int
      /\ crashes = crashes' /\ misses' <= misses
  OBVIOUS
<1>3. crashes - misses <= crashes' - misses'
  BY <1>1, <1>2, Zenon
<1>4. \A a, b \in Int : a - b \in Int
  OBVIOUS
<1>. QED BY <1>2, <1>3, <1>4, Zenon

\* So does a set of as many elements.
LEMMA FewLater ==
    ASSUME crashes \in Nat, misses \in Nat, misses' \in Nat, misses' <= misses, UNCHANGED crashes,
           NEW T, Few(T, crashes - misses), NEW S \in SUBSET T
    PROVE  Few(S, crashes' - misses')
BY FewerMissed, FewLess

\* Nothing is made and nothing stepped over.
LEMMA QuietRetry ==
    ASSUME RetryInv, up, up', UNCHANGED crashes, misses' \in Nat, misses' <= misses \/ Full,
           mem'.root = mem.root, mem'.cur = mem.cur, mem.root \in BOOLEAN,
           IdsOf(mem'.dirs) = IdsOf(mem.dirs), IdsOf(disk') = IdsOf(disk),
           IdsOf(mem.dirs) \subseteq IdsOf(disk),
           \A d \in IdsOf(mem.dirs) :
              /\ mem'.dirs[d].cur = mem.dirs[d].cur
              /\ IdsOf(mem'.dirs[d].files) = IdsOf(mem.dirs[d].files),
           \A d \in IdsOf(disk) : IdsOf(disk'[d].files) = IdsOf(disk[d].files)
    PROVE  RetryInv'
<1>1. Held' = Held
  BY DEF Held
<1>2. DOMAIN Held \subseteq IdsOf(disk)
  BY DEF Held
<1>3. Unnamed(disk, Held)' = Unnamed(disk, Held)
  <2>1. Unnamed(disk', Held) \subseteq Unnamed(disk, Held) \cup {}
    BY <1>2, UnnamedWithin
  <2>2. Unnamed(disk, Held) \subseteq Unnamed(disk', Held) \cup {}
    BY <1>2, UnnamedWithin
  <2>. QED BY <1>1, <2>1, <2>2
<1>4. LastDir' = LastDir /\ \A d : DirFits(d)' <=> DirFits(d)
  BY DEF LastDir, DirFits
<1>5. Ahead' \subseteq Ahead
  <2>1. CASE DirFits(LastDir)
    <3>1. LastDir \in IdsOf(mem.dirs) /\ LastDir \in IdsOf(disk)
      BY <2>1 DEF DirFits
    <3>. QED BY <1>4, <3>1 DEF Ahead
  <2>2. CASE ~DirFits(LastDir)
    BY <1>4, <2>2 DEF Ahead
  <2>. QED BY <2>1, <2>2
<1>6. Full' <=> Full
  BY <1>4 DEF Full
<1>7. Full \/ Few(Ahead, crashes - misses)'
  <2>1. CASE ~Full
    <3>0. crashes \in Nat /\ misses \in Nat /\ Few(Ahead, crashes - misses)
      BY <2>1 DEF RetryInv
    <3>1. misses' <= misses
      BY <2>1
    <3>2. PICK T, S : T = Ahead /\ S = Ahead'
      OBVIOUS
    <3>3. Few(T, crashes - misses) /\ S \in SUBSET T
      BY <1>5, <3>0, <3>2
    <3>4. Few(S, crashes' - misses')
      BY <3>0, <3>1, <3>3, FewLater
    <3>. QED BY <3>2, <3>4
  <2>. QED BY <2>1
<1>8. Few(Unnamed(disk, Held), crashes)'
  BY <1>3 DEF RetryInv
<1>. QED BY <1>6, <1>7, <1>8 DEF RetryInv

\* The steps of addBlock that make no file and no directory, and of readBlock.
LEMMA QuietRetries ==
    ASSUME Inv, StoreInv, RetryInv, MaxLevel = 0,
           \/ \E s \in Sizes : AddBlock(s)
           \/ UseCurrentDir \/ SaveRelocation \/ UseCurrentFile
           \/ WriteBlock \/ UpdateHeaderBlockCount
           \/ OpenIndex \/ SaveIndex \/ OpenTopIndex \/ SaveTopIndex \/ FinishAddBlock
           \/ \E i \in 0 .. MaxTries : ReadBlock(i)
           \/ StoreFull \/ (up /\ UNCHANGED vars)
    PROVE  RetryInv'
<1>1. /\ up /\ Fields /\ mem.root \in BOOLEAN /\ misses \in Nat /\ crashes \in Nat
      /\ IdsOf(mem.dirs) \subseteq IdsOf(disk)
      /\ op.pc \in Active => op.dir \in IdsOf(mem.dirs)
      /\ \A d \in IdsOf(mem.dirs) : DOMAIN mem.dirs[d] = {"start", "cur", "total", "files"}
      /\ op.pc \in {"write", "header"} => activeDir.cur \in IdsOf(activeDir.files)
      /\ \A d \in IdsOf(mem.dirs) : \A f \in IdsOf(mem.dirs[d].files) :
            f \in IdsOf(disk[d].files)
  <2>1. up
    BY DEF AddBlock, UseCurrentDir, SaveRelocation, UseCurrentFile, WriteBlock,
           UpdateHeaderBlockCount, OpenIndex, SaveIndex, OpenTopIndex, SaveTopIndex,
           FinishAddBlock, ReadBlock, StoreFull, NeedsDir, At
  <2>2. Running /\ Fields /\ Holds /\ misses \in Nat /\ crashes \in Nat
    BY <2>1 DEF StoreInv, Inv, RetryInv
  <2>. QED BY <2>1, <2>2 DEF Running, MemOK, MemFileOK, OpOK, Holds
\* The call is in one place, all stays as it is.
<1>2. CASE \/ \E s \in Sizes : AddBlock(s)
           \/ UseCurrentDir \/ SaveRelocation \/ UseCurrentFile \/ OpenTopIndex \/ SaveTopIndex
           \/ FinishAddBlock \/ StoreFull \/ UNCHANGED vars
  <2>1. /\ UNCHANGED <<disk, mem, crashes>> /\ up'
        /\ misses' \in {misses, 0} \/ (Full /\ misses' = misses + 1)
    <3>1. CASE StoreFull
      BY <1>1, <3>1 DEF StoreFull, NeedsDir, Full, Fail, Process, History
    <3>2. CASE \E s \in Sizes : AddBlock(s)
      BY <1>1, <3>2 DEF AddBlock
    <3>3. CASE \/ UseCurrentDir \/ SaveRelocation \/ UseCurrentFile \/ OpenTopIndex \/ SaveTopIndex
               \/ FinishAddBlock \/ UNCHANGED vars
      BY <1>1, <3>3 DEF UseCurrentDir, SaveRelocation, UseCurrentFile, OpenTopIndex,
         SaveTopIndex, FinishAddBlock, Process, History, vars
    <3>. QED BY <1>2, <3>1, <3>2, <3>3
  <2>2. misses' \in Nat /\ (misses' <= misses \/ Full)
    BY <1>1, <2>1
  <2>. QED BY <1>1, <2>1, <2>2, QuietRetry
<1>3. CASE WriteBlock \/ UpdateHeaderBlockCount \/ OpenIndex \/ SaveIndex
  <2>1. /\ up' /\ UNCHANGED <<crashes, misses>>
        /\ mem'.root = mem.root /\ mem'.cur = mem.cur /\ IdsOf(mem'.dirs) = IdsOf(mem.dirs)
        /\ IdsOf(disk') = IdsOf(disk)
        /\ \A d \in IdsOf(mem.dirs) : /\ mem'.dirs[d].cur = mem.dirs[d].cur
                                      /\ IdsOf(mem'.dirs[d].files) = IdsOf(mem.dirs[d].files)
        /\ \A d \in IdsOf(disk) : IdsOf(disk'[d].files) = IdsOf(disk[d].files)
    <3>1. CASE WriteBlock
      <4>1. op.pc = "write"
        BY <3>1 DEF WriteBlock, At
      <4>2. PICK w, r : /\ mem' = [mem EXCEPT !.dirs[op.dir].files[activeDir.cur] = w]
                        /\ disk' = [disk EXCEPT ![op.dir].files[activeDir.cur].recs = r]
        BY <3>1 DEF WriteBlock
      <4>3. up' /\ UNCHANGED <<crashes, misses>>
        BY <1>1, <3>1 DEF WriteBlock, Process, History
      <4>. QED BY <1>1, <4>1, <4>2, <4>3 DEF Fields, Active, IdsOf
    <3>2. CASE UpdateHeaderBlockCount
      <4>1. op.pc = "header"
        BY <3>2 DEF UpdateHeaderBlockCount, At
      <4>2. PICK w, r : /\ mem' = [mem EXCEPT !.dirs[op.dir].total = w]
                        /\ disk' = [disk EXCEPT ![op.dir].files[activeDir.cur].hdr = r]
        BY <3>2 DEF UpdateHeaderBlockCount
      <4>3. up' /\ UNCHANGED <<crashes, misses>>
        BY <1>1, <3>2 DEF UpdateHeaderBlockCount, Process, History
      <4>. QED BY <1>1, <4>1, <4>2, <4>3 DEF Fields, Active, IdsOf
    <3>3. CASE OpenIndex
      <4>1. /\ disk' = [disk EXCEPT ![op.dir].idx = Torn]
            /\ up' /\ UNCHANGED <<mem, crashes, misses>>
        BY <1>1, <3>3 DEF OpenIndex, Process, History
      <4>. QED BY <1>1, <4>1 DEF Fields, IdsOf
    <3>4. CASE SaveIndex
      <4>1. PICK w, r : /\ mem' = [mem EXCEPT !.total = w]
                        /\ disk' = [disk EXCEPT ![op.dir].idx = r]
        BY <3>4 DEF SaveIndex
      <4>2. up' /\ UNCHANGED <<crashes, misses>>
        BY <1>1, <3>4 DEF SaveIndex, Process, History
      <4>. QED BY <1>1, <4>1, <4>2 DEF Fields, IdsOf
    <3>. QED BY <1>3, <3>1, <3>2, <3>3, <3>4
  <2>. QED BY <1>1, <2>1, QuietRetry
<1>4. CASE \E i \in 0 .. MaxTries : ReadBlock(i)
  <2>1. PICK i \in 0 .. MaxTries : ReadBlock(i)
    BY <1>4
  <2>2. PICK c \in Claims(mem, i) : mem' = Touch(mem, c)
    BY <2>1 DEF ReadBlock
  <2>3. up' /\ UNCHANGED <<disk, crashes, misses>>
    BY <1>1, <2>1 DEF ReadBlock
  <2>4. PICK n : mem' = [mem EXCEPT !.dirs[c[1]].files[c[2]] = n]
    BY <2>2 DEF Touch
  <2>5. /\ mem'.root = mem.root /\ mem'.cur = mem.cur /\ IdsOf(mem'.dirs) = IdsOf(mem.dirs)
        /\ \A d \in IdsOf(mem.dirs) : /\ mem'.dirs[d].cur = mem.dirs[d].cur
                                      /\ IdsOf(mem'.dirs[d].files) = IdsOf(mem.dirs[d].files)
    BY <1>1, <2>4 DEF Fields, IdsOf
  <2>. QED BY <1>1, <2>3, <2>5, QuietRetry
<1>. QED BY <1>2, <1>3, <1>4

\* A file is in the way of the one a call would make: it is stepped over.
LEMMA FileInTheWay ==
    ASSUME Inv, StoreInv, RetryInv, CreateBlockFile,
           activeDir.cur + 1 \in IdsOf(disk[op.dir].files)
    PROVE  RetryInv'
<1>0. PICK d, c : d = op.dir /\ c = activeDir.cur + 1
  OBVIOUS
<1>1. /\ up /\ up' /\ UNCHANGED <<disk, crashes>> /\ misses' = misses + 1
      /\ crashes \in Nat /\ misses \in Nat /\ Running /\ Fields
      /\ mem' = [mem EXCEPT !.dirs[d].cur = c]
      /\ c = mem.dirs[d].cur + 1 /\ c \in IdsOf(disk[d].files) /\ op.pc = "open"
  BY <1>0 DEF CreateBlockFile, At, Fail, Process, History, StoreInv, Inv, RetryInv, activeDir
<1>2. /\ d = LastDir /\ DirFits(d) /\ d \in IdsOf(mem.dirs) /\ ~Full
      /\ mem.dirs[d].cur \in Nat /\ mem.root \in BOOLEAN
      /\ \A e \in IdsOf(mem.dirs) : DOMAIN mem.dirs[e] = {"start", "cur", "total", "files"}
  <2>1. d = LastDir /\ DirFits(d) /\ d \in IdsOf(mem.dirs)
    BY <1>0, <1>1 DEF Running, OpOK, Active, DirFits
  <2>2. LastDir = mem.cur
    BY <1>1 DEF RetryInv, LastDir, Root
  <2>. QED BY <1>1, <2>1, <2>2 DEF Running, MemOK, Full
<1>3. /\ mem'.root = mem.root /\ mem'.cur = mem.cur /\ IdsOf(mem'.dirs) = IdsOf(mem.dirs)
      /\ \A e \in IdsOf(mem.dirs) : mem'.dirs[e].files = mem.dirs[e].files
      /\ mem'.dirs[d].cur = c
  BY <1>1, <1>2 DEF Fields, IdsOf
<1>4. Held' = Held
  BY <1>3 DEF Held
<1>5. <<Slot(d), c>> \in Ahead
  BY <1>1, <1>2 DEF Ahead
<1>6. Ahead' \subseteq Ahead \ {<<Slot(d), c>>}
  <2>1. LastDir' = d /\ DirFits(d)'
    BY <1>2, <1>3 DEF LastDir, DirFits
  <2>2. \A f \in IdsOf(disk[d].files) : f \in Nat
    BY <1>1, <1>2 DEF RetryInv, Inv, Holds
  <2>3. Ahead' = {<<Slot(e), 0>> : e \in {e \in IdsOf(disk) : e > mem.cur}}
                   \cup {<<Slot(d), f>> : f \in {g \in IdsOf(disk[d].files) : g > c}}
    BY <1>1, <1>3, <2>1 DEF Ahead
  <2>4. Ahead = {<<Slot(e), 0>> : e \in {e \in IdsOf(disk) : e > mem.cur}}
                  \cup {<<Slot(d), f>> : f \in {g \in IdsOf(disk[d].files) : g > mem.dirs[d].cur}}
    BY <1>2 DEF Ahead
  <2>5. c # 0 /\ \A g \in IdsOf(disk[d].files) : g > c => g > mem.dirs[d].cur /\ g # c
    BY <1>1, <1>2, <2>2
  <2>. QED BY <2>3, <2>4, <2>5
<1>7. Few(Ahead, crashes - misses)'
  <2>1. Few(Ahead, crashes - misses)
    BY <1>1, <1>2 DEF RetryInv
  <2>2. crashes - misses \in Int /\ crashes' - misses' = crashes - misses - 1
    BY <1>1
  <2>3. Few(Ahead \ {<<Slot(d), c>>}, crashes - misses - 1)
    BY <1>5, <2>1, <2>2, FewWithout
  <2>. QED BY <1>6, <2>2, <2>3, FewLess
<1>8. Few(Unnamed(disk, Held), crashes)'
  BY <1>1, <1>4 DEF RetryInv
<1>. QED BY <1>1, <1>3, <1>7, <1>8 DEF RetryInv

\* A file is made.
LEMMA FileMade ==
    ASSUME Inv, StoreInv, RetryInv, CreateBlockFile,
           activeDir.cur + 1 \notin IdsOf(disk[op.dir].files)
    PROVE  RetryInv'
<1>0. PICK d, c : d = op.dir /\ c = activeDir.cur + 1
  OBVIOUS
<1>1. /\ up /\ up' /\ UNCHANGED <<crashes, misses>>
      /\ crashes \in Nat /\ misses \in Nat /\ Running /\ Fields
      /\ c = mem.dirs[d].cur + 1 /\ c \notin IdsOf(disk[d].files) /\ op.pc = "open"
      /\ IdsOf(mem.dirs) \subseteq IdsOf(disk)
  BY <1>0 DEF CreateBlockFile, At, Process, History, StoreInv, Inv, Holds, RetryInv, activeDir
<1>2. /\ d = LastDir /\ DirFits(d) /\ d \in IdsOf(mem.dirs) /\ ~Full
      /\ mem.dirs[d].cur \in Nat /\ mem.root \in BOOLEAN
      /\ \A e \in IdsOf(mem.dirs) : DOMAIN mem.dirs[e] = {"start", "cur", "total", "files"}
  <2>1. d = LastDir /\ DirFits(d) /\ d \in IdsOf(mem.dirs)
    BY <1>0, <1>1 DEF Running, OpOK, Active, DirFits
  <2>2. LastDir = mem.cur
    BY <1>1 DEF RetryInv, LastDir, Root
  <2>. QED BY <1>1, <2>1, <2>2 DEF Running, MemOK, Full
<1>3. PICK v, w : /\ mem' = [mem EXCEPT !.dirs[d].cur = c, !.dirs[d].files = w]
                  /\ disk' = [disk EXCEPT ![d].files = v]
                  /\ IdsOf(v) = IdsOf(disk[d].files) \cup {c}
                  /\ IdsOf(w) = IdsOf(mem.dirs[d].files) \cup {c}
  <2> DEFINE v == With(disk[d].files, c, [hdr |-> 0, recs |-> <<>>])
             w == With(mem.dirs[d].files, c, NewFile(activeDir.total))
  <2>1. IdsOf(v) = IdsOf(disk[d].files) \cup {c} /\ IdsOf(w) = IdsOf(mem.dirs[d].files) \cup {c}
    BY WithIs
  <2>2. /\ mem' = [mem EXCEPT !.dirs[d].cur = c,
                       !.dirs[d].files = With(@, c, NewFile(activeDir.total))]
        /\ disk' = [disk EXCEPT ![d].files = With(@, c, [hdr |-> 0, recs |-> <<>>])]
    BY <1>0 DEF CreateBlockFile, activeDir
  <2>3. mem' = [mem EXCEPT !.dirs[d].cur = c, !.dirs[d].files = w]
    BY <2>2
  <2>4. disk' = [disk EXCEPT ![d].files = v]
    BY <2>2
  <2> HIDE DEF v, w
  <2>. QED BY <2>1, <2>3, <2>4
<1>4. /\ mem'.root = mem.root /\ mem'.cur = mem.cur /\ IdsOf(mem'.dirs) = IdsOf(mem.dirs)
      /\ \A e \in IdsOf(mem.dirs) : e # d => mem'.dirs[e] = mem.dirs[e]
      /\ mem'.dirs[d].cur = c /\ IdsOf(mem'.dirs[d].files) = IdsOf(mem.dirs[d].files) \cup {c}
  BY <1>1, <1>2, <1>3 DEF Fields, IdsOf
<1>5. /\ IdsOf(disk') = IdsOf(disk)
      /\ \A e \in IdsOf(disk) : e # d => disk'[e] = disk[e]
      /\ IdsOf(disk'[d].files) = IdsOf(disk[d].files) \cup {c}
  BY <1>1, <1>2, <1>3 DEF Fields, IdsOf
<1>6. Few(Unnamed(disk, Held), crashes)'
  <2>1. /\ DOMAIN Held' = DOMAIN Held
        /\ \A e \in DOMAIN Held : /\ e \in IdsOf(disk)
                                  /\ IdsOf(disk'[e].files) \ Held'[e] \subseteq IdsOf(disk[e].files) \ Held[e]
    <3>1. DOMAIN Held' = IdsOf(mem.dirs) /\ DOMAIN Held = IdsOf(mem.dirs)
      BY <1>4 DEF Held
    <3>2. ASSUME NEW e \in IdsOf(mem.dirs)
          PROVE  Held[e] = IdsOf(mem.dirs[e].files) /\ Held'[e] = IdsOf(mem'.dirs[e].files)
      BY <1>4 DEF Held
    <3>. QED BY <1>1, <1>4, <1>5, <3>1, <3>2
  <2>2. Unnamed(disk', Held') \subseteq Unnamed(disk, Held) \cup {}
    BY <1>5, <2>1, UnnamedWithin
  <2>. QED BY <1>1, <2>2, FewLess DEF RetryInv
<1>7. Ahead' \subseteq Ahead
  <2>1. LastDir' = d
    BY <1>2, <1>4 DEF LastDir
  <2>2. \A f \in IdsOf(disk[d].files) : f \in Nat
    BY <1>1, <1>2 DEF RetryInv
  <2>3. \A g \in IdsOf(disk'[d].files) : g > c => g \in IdsOf(disk[d].files) /\ g > mem.dirs[d].cur
    BY <1>1, <1>2, <1>5, <2>2
  <2>. QED BY <1>2, <1>4, <1>5, <2>1, <2>3 DEF Ahead
<1>8. Few(Ahead, crashes - misses)'
  <2>1. Few(Ahead, crashes - misses) /\ crashes - misses \in Int
    BY <1>1, <1>2 DEF RetryInv
  <2>. QED BY <1>1, <1>7, <2>1, FewLess
<1>9. \A e \in IdsOf(disk') : e \in Nat /\ IdsOf(disk'[e].files) \subseteq Nat \ {0}
  <2>1. c \in Nat \ {0}
    BY <1>1, <1>2
  <2>. QED BY <1>5, <2>1 DEF RetryInv
<1>. QED BY <1>1, <1>2, <1>4, <1>6, <1>8, <1>9 DEF RetryInv

\* A directory is in the way of the one a call would make: it is stepped over.
LEMMA DirInTheWay ==
    ASSUME Inv, StoreInv, RetryInv, CreateFileDirStore, mem.cur + 1 \in IdsOf(disk)
    PROVE  RetryInv'
<1>0. PICK d : d = mem.cur + 1
  OBVIOUS
<1>1. /\ up /\ up' /\ UNCHANGED crashes /\ misses' = misses + 1 /\ d \in IdsOf(disk)
      /\ crashes \in Nat /\ misses \in Nat /\ Running /\ Fields /\ ~mem.root
      /\ mem' = [mem EXCEPT !.cur = d] /\ mem.cur \in Nat /\ ~Full
      /\ IdsOf(mem.dirs) \subseteq IdsOf(disk)
      /\ IdsOf(disk') = IdsOf(disk)
      /\ \A e \in IdsOf(disk) : disk'[e].files = disk[e].files
  <2>1. /\ up /\ Running /\ Fields /\ ~mem.root /\ crashes \in Nat /\ misses \in Nat
        /\ IdsOf(mem.dirs) \subseteq IdsOf(disk)
    BY DEF CreateFileDirStore, NeedsDir, At, StoreInv, Inv, Holds, RetryInv
  <2>2. mem.cur \in Nat /\ Cardinality(IdsOf(mem.dirs)) < MaxDirs /\ MaxDirs \in Nat
        /\ Cardinality(IdsOf(mem.dirs)) \in Nat
    <3>1. IsFiniteSet(IdsOf(mem.dirs))
      BY <2>1, MemLayoutIs DEF Running, LaidOut
    <3>. QED BY <2>1, <3>1, FS_CardinalityType, LimitsAssumption
             DEF CreateFileDirStore, Running, MemOK
  <2>3. /\ disk' = [disk EXCEPT ![d].idx = Index(<<>>)]
        /\ mem' = [mem EXCEPT !.cur = d] /\ misses' = misses + 1 /\ up' /\ UNCHANGED crashes
    BY <1>0, <2>1 DEF CreateFileDirStore, Clobber, Fail, Process, History
  <2>. QED BY <1>0, <2>1, <2>2, <2>3 DEF Fields, IdsOf, Full
<1>2. mem'.root = mem.root /\ mem'.cur = d /\ mem'.dirs = mem.dirs
  BY <1>1 DEF Fields
<1>3. \A e \in IdsOf(mem.dirs) : e \in Nat /\ e <= mem.cur
  BY <1>1, MemLayoutIs DEF Running, LaidOut, MemOK
<1>4. Few(Unnamed(disk, Held), crashes)'
  <2>1. Held' = Held /\ DOMAIN Held \subseteq IdsOf(disk)
    BY <1>1, <1>2 DEF Held
  <2>2. Unnamed(disk', Held') \subseteq Unnamed(disk, Held) \cup {}
    BY <1>1, <2>1, UnnamedWithin
  <2>. QED BY <1>1, <2>2, FewLess DEF RetryInv
<1>5. <<Slot(d), 0>> \in Ahead
  BY <1>0, <1>1 DEF Ahead
<1>6. Ahead' \subseteq Ahead \ {<<Slot(d), 0>>}
  <2>1. ~DirFits(LastDir)'
    BY <1>0, <1>1, <1>2, <1>3 DEF LastDir, DirFits
  <2>2. Ahead' = {<<Slot(e), 0>> : e \in {e \in IdsOf(disk) : e > d}}
    BY <1>1, <1>2, <2>1 DEF Ahead
  <2>3. \A e \in IdsOf(disk) : e > d => e > mem.cur /\ Slot(e) # Slot(d)
    BY <1>0, <1>1 DEF RetryInv, Slot, Root
  <2>4. \A e \in IdsOf(disk) : e > mem.cur => <<Slot(e), 0>> \in Ahead
    BY DEF Ahead
  <2>. QED BY <2>2, <2>3, <2>4
<1>7. Few(Ahead, crashes - misses)'
  <2>1. Few(Ahead, crashes - misses)
    BY <1>1 DEF RetryInv
  <2>2. crashes - misses \in Int /\ crashes' - misses' = crashes - misses - 1
    BY <1>1
  <2>3. Few(Ahead \ {<<Slot(d), 0>>}, crashes - misses - 1)
    BY <1>5, <2>1, <2>2, FewWithout
  <2>. QED BY <1>6, <2>2, <2>3, FewLess
<1>. QED BY <1>1, <1>2, <1>4, <1>7 DEF RetryInv

\* A directory is made; there is nothing in it.
LEMMA DirMade ==
    ASSUME Inv, StoreInv, RetryInv, CreateFileDirStore, mem.cur + 1 \notin IdsOf(disk)
    PROVE  RetryInv'
<1>0. PICK d : d = mem.cur + 1
  OBVIOUS
<1> DEFINE blank == [idx |-> Index(<<>>), files |-> <<>>]
           fresh == [start |-> mem.total, cur |-> 0, total |-> 0, files |-> <<>>]
<1>1. /\ up /\ up' /\ UNCHANGED <<crashes, misses>> /\ d \notin IdsOf(disk)
      /\ crashes \in Nat /\ misses \in Nat /\ Running /\ Fields /\ ~mem.root
      /\ mem' = [mem EXCEPT !.cur = d, !.dirs = With(@, d, fresh)] /\ mem.cur \in Nat
      /\ disk' = With(disk, d, blank)
      /\ IdsOf(mem.dirs) \subseteq IdsOf(disk)
  BY <1>0 DEF CreateFileDirStore, NeedsDir, At, Process, History, StoreInv, Running, MemOK,
     Inv, Holds, RetryInv
<1>2. ~Full
  <2>1. Cardinality(IdsOf(mem.dirs)) < MaxDirs /\ MaxDirs \in Nat
    BY LimitsAssumption DEF CreateFileDirStore
  <2>2. Cardinality(IdsOf(mem.dirs)) \in Nat
    BY <1>1, MemLayoutIs, FS_CardinalityType DEF Running, LaidOut
  <2>. QED BY <2>1, <2>2 DEF Full
<1>3. /\ mem'.root = mem.root /\ mem'.cur = d
      /\ IdsOf(mem'.dirs) = IdsOf(mem.dirs) \cup {d} /\ mem'.dirs[d] = fresh
      /\ \A e \in IdsOf(mem.dirs) : e # d /\ mem'.dirs[e] = mem.dirs[e]
      /\ IdsOf(disk') = IdsOf(disk) \cup {d} /\ disk'[d] = blank
      /\ \A e \in IdsOf(disk) : e # d /\ disk'[e] = disk[e]
  BY <1>1 DEF With, IdsOf, Fields
<1>4. IdsOf(disk'[d].files) = {} /\ d \in Nat
  BY <1>0, <1>1, <1>3 DEF IdsOf
<1> HIDE DEF blank, fresh
<1>5. Few(Unnamed(disk, Held), crashes)'
  <2>1. DOMAIN Held = IdsOf(mem.dirs) /\ DOMAIN Held' = IdsOf(mem.dirs) \cup {d}
    BY <1>3 DEF Held
  <2>2. \A e \in IdsOf(mem.dirs) : Held'[e] = Held[e]
    BY <1>3 DEF Held
  <2>3. \A e \in IdsOf(disk') \ DOMAIN Held' : e \in IdsOf(disk) \ DOMAIN Held
    BY <1>3, <2>1
  <2>4. \A e \in DOMAIN Held' : \A f \in IdsOf(disk'[e].files) \ Held'[e] :
           e \in DOMAIN Held /\ f \in IdsOf(disk[e].files) \ Held[e]
    BY <1>1, <1>3, <1>4, <2>1, <2>2
  <2>5. Unnamed(disk', Held') \subseteq Unnamed(disk, Held) \cup {}
    BY <2>3, <2>4, UnnamedWithin
  <2>. QED BY <1>1, <2>5, FewLess DEF RetryInv
<1>6. Ahead' \subseteq Ahead
  <2>1. LastDir' = d
    BY <1>1, <1>3 DEF LastDir
  <2>2. Ahead' = {<<Slot(e), 0>> : e \in {e \in IdsOf(disk') : e > d}}
    BY <1>3, <1>4, <2>1 DEF Ahead
  <2>3. \A e \in IdsOf(disk') : e > d => e \in IdsOf(disk) /\ e > mem.cur
    BY <1>0, <1>1, <1>3 DEF RetryInv
  <2>4. \A e \in IdsOf(disk) : e > mem.cur => <<Slot(e), 0>> \in Ahead
    BY DEF Ahead
  <2>. QED BY <2>2, <2>3, <2>4
<1>7. Few(Ahead, crashes - misses)'
  <2>1. Few(Ahead, crashes - misses) /\ crashes - misses \in Int
    BY <1>1, <1>2 DEF RetryInv
  <2>. QED BY <1>1, <1>6, <2>1, FewLess
<1>8. \A e \in IdsOf(disk') : e \in Nat /\ IdsOf(disk'[e].files) \subseteq Nat \ {0}
  BY <1>3, <1>4 DEF RetryInv
<1>. QED BY <1>1, <1>3, <1>5, <1>7, <1>8 DEF RetryInv

\* The root becomes directory 1, with all its files; it is as full as it was.
LEMMA RootMoved ==
    ASSUME Inv, StoreInv, RetryInv, RelocateRootStore
    PROVE  RetryInv'
<1>1. PICK closed, opened :
         /\ disk' = Only(1, closed)
         /\ mem' = [mem EXCEPT !.root = FALSE, !.cur = 1, !.dirs = Only(1, opened)]
         /\ IdsOf(closed.files) = IdsOf(disk[Root].files)
         /\ IdsOf(opened.files) = IdsOf(mem.dirs[Root].files)
  <2> DEFINE closed == CloseDir(mem.dirs[Root], disk[Root])
             opened == [mem.dirs[Root] EXCEPT !.files =
                          [f \in IdsOf(@) |-> MountFile(closed.files[f], @[f].start)]]
  <2>1. IdsOf(closed.files) = IdsOf(disk[Root].files)
    BY DEF CloseDir, IdsOf
  <2>2. "files" \in DOMAIN mem.dirs[Root]
    BY DEF StoreInv, RelocateRootStore, At, Running, MemOK
  <2>3. IdsOf(opened.files) = IdsOf(mem.dirs[Root].files)
    <3> HIDE DEF closed
    <3>. QED BY <2>2 DEF IdsOf
  <2>4. /\ disk' = Only(1, closed)
        /\ mem' = [mem EXCEPT !.root = FALSE, !.cur = 1, !.dirs = Only(1, opened)]
    BY DEF RelocateRootStore
  <2> HIDE DEF closed, opened
  <2>. QED BY <2>1, <2>3, <2>4
<1>2. /\ up /\ up' /\ UNCHANGED <<crashes, misses>> /\ crashes \in Nat /\ misses \in Nat
      /\ Running /\ Fields /\ mem.root /\ mem.cur = 0 /\ ~DirFits(Root)
      /\ IdsOf(mem.dirs) = {Root} /\ Root \in IdsOf(disk)
  BY DEF RelocateRootStore, At, Process, History, StoreInv, Inv, Holds, RetryInv, Running, MemOK
<1>3. /\ ~mem'.root /\ mem'.cur = 1 /\ IdsOf(mem'.dirs) = {1} /\ mem'.dirs[1] = opened
      /\ IdsOf(disk') = {1} /\ disk'[1] = closed
  BY <1>1, <1>2 DEF Fields, Only, IdsOf
<1>4. Few(Unnamed(disk, Held), crashes)'
  <2>1. DOMAIN Held = {Root} /\ Held[Root] = IdsOf(mem.dirs[Root].files)
    BY <1>2 DEF Held
  <2>2. DOMAIN Held' = {1} /\ Held'[1] = IdsOf(mem.dirs[Root].files)
    BY <1>1, <1>3 DEF Held
  <2>3. Unnamed(disk', Held') =
           {<<1, f>> : f \in IdsOf(disk[Root].files) \ IdsOf(mem.dirs[Root].files)}
    BY <1>1, <1>3, <2>2 DEF Unnamed, Slot, Root
  <2>4. {<<1, f>> : f \in IdsOf(disk[Root].files) \ IdsOf(mem.dirs[Root].files)}
           \subseteq Unnamed(disk, Held)
    BY <2>1 DEF Unnamed, Slot
  <2>. QED BY <1>2, <2>3, <2>4, FewLess DEF RetryInv
<1>5. ~DirFits(1)'
  <2>1. ~(Cardinality(IdsOf(mem.dirs[Root].files)) < MaxFiles)
    BY <1>2 DEF DirFits
  <2>. QED BY <1>1, <1>3, <2>1 DEF DirFits
<1>6. Ahead' = {}
  BY <1>3, <1>5 DEF Ahead, LastDir
<1>7. (Full \/ Few(Ahead, crashes - misses))'
  <2>1. CASE Full
    <3>1. Cardinality({Root}) = 1 /\ Cardinality({1}) = 1
      BY FS_Singleton
    <3>2. Full'
      BY <1>2, <1>3, <1>5, <2>1, <3>1 DEF Full
    <3>. QED BY <3>2
  <2>2. CASE Few(Ahead, crashes - misses)
    <3>1. Few(Ahead', crashes - misses)
      BY <1>2, <1>6, <2>2, FewLess
    <3>. QED BY <1>2, <3>1
  <2>. QED BY <1>2, <2>1, <2>2 DEF RetryInv
<1>8. \A e \in IdsOf(disk') : e \in Nat /\ IdsOf(disk'[e].files) \subseteq Nat \ {0}
  BY <1>1, <1>2, <1>3 DEF RetryInv
<1>. QED BY <1>2, <1>3, <1>4, <1>7, <1>8 DEF RetryInv

\* The index files miss at most the file or the directory of the call.
LEMMA OneUnnamed ==
    ASSUME Inv, StoreInv, up, op.pc \notin Windows
    PROVE  \E x : Unnamed(disk, Saved) \subseteq Unnamed(disk, Held) \cup {x}
<1>1. /\ Running /\ IdsOf(mem.dirs) \subseteq IdsOf(disk) /\ mem.root \in BOOLEAN
      /\ mem.root => IdsOf(top.starts) = {} /\ IdsOf(mem.dirs) = {Root}
      /\ ~mem.root => IdsOf(mem.dirs) # {}
  BY DEF StoreInv, Inv, Holds, Running, MemOK
<1>2. /\ DOMAIN Held = IdsOf(mem.dirs) /\ DOMAIN Saved = IdsOf(Dirs)
      /\ \A d \in IdsOf(mem.dirs) : Held[d] = IdsOf(mem.dirs[d].files)
      /\ \A d \in IdsOf(Dirs) : Saved[d] = IdsOf(disk[d].idx.starts)
  BY DEF Held, Saved
<1>3. \A d \in IdsOf(mem.dirs) :
         IdsOf(disk[d].idx.starts) = IdsOf(mem.dirs[d].files)
           \/ /\ NewFileUnsaved(d) /\ d = op.dir
              /\ IdsOf(disk[d].idx.starts) = IdsOf(mem.dirs[d].files) \ {mem.dirs[d].cur}
  BY <1>1 DEF Running, FileIndexOK, NewFileUnsaved, Windows, Starts, IdsOf
<1>4. CASE ~mem.root /\ NewDirUnsaved
  <2>1. IdsOf(Dirs) = IdsOf(mem.dirs) \ {op.dir}
    BY <1>1, <1>4 DEF NewDirUnsaved, Dirs, Starts, IdsOf
  <2>2. \A d \in DOMAIN Saved : d \in DOMAIN Held /\ Saved[d] = Held[d]
    BY <1>2, <1>3, <2>1
  <2> DEFINE x == <<Slot(op.dir), 0>>
  <2>3. \A d \in IdsOf(disk) \ DOMAIN Saved :
           d \in IdsOf(disk) \ DOMAIN Held \/ <<Slot(d), 0>> \in {x}
    BY <1>2, <2>1
  <2> HIDE DEF x
  <2>4. Unnamed(disk, Saved) \subseteq Unnamed(disk, Held) \cup {x}
    BY <2>2, <2>3, UnnamedWithin
  <2>. QED BY <2>4
<1>5. CASE mem.root \/ ~NewDirUnsaved
  <2>1. IdsOf(Dirs) = IdsOf(mem.dirs)
    <3>1. CASE mem.root
      BY <1>1, <3>1 DEF Dirs, Only, IdsOf
    <3>2. CASE ~mem.root
      <4>1. top.starts = Starts(mem.dirs)
        BY <1>1, <1>5, <3>2 DEF Running, DirIndexOK, Windows
      <4>. QED BY <1>1, <3>2, <4>1 DEF Dirs, Starts, IdsOf
    <3>. QED BY <1>1, <3>1, <3>2
  <2> DEFINE x == <<Slot(op.dir), mem.dirs[op.dir].cur>>
  <2>2. \A d \in DOMAIN Saved : \A f \in IdsOf(disk[d].files) \ Saved[d] :
           (d \in DOMAIN Held /\ f \in IdsOf(disk[d].files) \ Held[d]) \/ <<Slot(d), f>> \in {x}
    BY <1>2, <1>3, <2>1
  <2>3. \A d \in IdsOf(disk) \ DOMAIN Saved : d \in IdsOf(disk) \ DOMAIN Held
    BY <1>2, <2>1
  <2> HIDE DEF x
  <2>4. Unnamed(disk, Saved) \subseteq Unnamed(disk, Held) \cup {x}
    BY <2>2, <2>3, UnnamedWithin
  <2>. QED BY <2>4
<1>. QED BY <1>1, <1>4, <1>5

\* A kill adds one to what is not named.
LEMMA Killed ==
    ASSUME Inv, StoreInv, RetryInv, Crash, op.pc \notin Windows
    PROVE  RetryInv'
<1>1. /\ up /\ ~up' /\ UNCHANGED <<disk, top, misses>> /\ crashes' = crashes + 1
      /\ crashes \in Nat /\ misses \in Nat
  BY DEF Crash, Ended, RetryInv
<1>2. Saved' = Saved
  BY <1>1 DEF Saved, Dirs
<1>3. PICK x : Unnamed(disk, Saved) \subseteq Unnamed(disk, Held) \cup {x}
  BY <1>1, OneUnnamed
<1>4. Few(Unnamed(disk, Held) \cup {x}, crashes + 1)
  <2>1. PICK S : S = Unnamed(disk, Held)
    OBVIOUS
  <2>2. Few(S, crashes) /\ crashes \in Int
    BY <1>1, <2>1 DEF RetryInv
  <2>3. Few(S \cup {x}, crashes + 1)
    BY <2>2, FewMore
  <2>. QED BY <2>1, <2>3
<1>5. Few(Unnamed(disk, Saved), crashes)'
  BY <1>1, <1>2, <1>3, <1>4, FewLess
<1>. QED BY <1>1, <1>5 DEF RetryInv

\* A process that ends in order leaves index files that name what it did.
LEMMA Closed ==
    ASSUME Inv, StoreInv, RetryInv, Close
    PROVE  RetryInv'
<1>1. /\ up /\ ~up' /\ UNCHANGED <<crashes, misses>> /\ crashes \in Nat /\ misses \in Nat
      /\ disk' = [d \in IdsOf(disk) |-> IF d \in IdsOf(mem.dirs) THEN CloseDir(mem.dirs[d], disk[d])
                                        ELSE disk[d]]
      /\ top' = IF mem.root THEN top ELSE Index(Starts(mem.dirs))
      /\ IdsOf(mem.dirs) \subseteq IdsOf(disk) /\ mem.root \in BOOLEAN
      /\ mem.root => IdsOf(top.starts) = {} /\ IdsOf(mem.dirs) = {Root}
      /\ ~mem.root => IdsOf(mem.dirs) # {}
  BY DEF Close, At, Ended, StoreInv, Running, MemOK, Inv, Holds, RetryInv
<1>2. /\ IdsOf(disk') = IdsOf(disk)
      /\ \A d \in IdsOf(disk) : IdsOf(disk'[d].files) = IdsOf(disk[d].files)
      /\ \A d \in IdsOf(mem.dirs) : IdsOf(disk'[d].idx.starts) = IdsOf(mem.dirs[d].files)
  BY <1>1 DEF CloseDir, Index, Starts, IdsOf
<1>3. IdsOf(Dirs') = IdsOf(mem.dirs)
  <2>1. CASE mem.root
    BY <1>1, <2>1 DEF Dirs, Only, IdsOf
  <2>2. CASE ~mem.root
    BY <1>1, <2>2 DEF Dirs, Index, Starts, IdsOf
  <2>. QED BY <1>1, <2>1, <2>2
<1>4. Saved' = Held
  BY <1>2, <1>3 DEF Saved, Held
<1>5. Few(Unnamed(disk, Saved), crashes)'
  <2>1. DOMAIN Held \subseteq IdsOf(disk)
    BY <1>1 DEF Held
  <2>2. Unnamed(disk', Saved') \subseteq Unnamed(disk, Held) \cup {}
    BY <1>2, <1>4, <2>1, UnnamedWithin
  <2>. QED BY <1>1, <2>2, FewLess DEF RetryInv
<1>. QED BY <1>1, <1>2, <1>5 DEF RetryInv

\* The next process names what the index files do, and has missed nothing yet.
LEMMA MountedAgain ==
    ASSUME Inv, StoreInv, RetryInv, Mount, Agreed'
    PROVE  RetryInv'
<1>1. /\ ~up /\ up' /\ UNCHANGED <<disk, top, op, crashes>> /\ misses' = 0
      /\ crashes \in Nat /\ op.pc = "idle" /\ Few(Unnamed(disk, Saved), crashes)
  BY DEF Mount, Inv, Rests, RetryInv
<1>2. Saved' = Saved
  BY <1>1 DEF Saved, Dirs
<1>3. Saved' = Held' /\ Ahead' \subseteq Unnamed(disk', Held')
  BY <1>1 DEF Agreed
<1>4. mem'.root => mem'.cur = 0
  <2>1. PICK m : m = Mounted
    OBVIOUS
  <2>2. DOMAIN m = {"root", "cur", "dirs", "total"}
        /\ m.root = (IdsOf(top.starts) = {}) /\ m.cur = Highest(IdsOf(Dirs))
    BY <2>1 DEF Mounted
  <2>3. mem' = m \/ \E c : mem' = Touch(m, c)
    BY <2>1 DEF Mount, ReadLast
  <2>4. mem'.root = m.root /\ mem'.cur = m.cur
    BY <2>2, <2>3 DEF Touch
  <2>5. IdsOf(top.starts) = {} => Highest(IdsOf(Dirs)) = 0
    <3>1. IdsOf(top.starts) = {} => IdsOf(Dirs) = {0}
      BY DEF Dirs, Only, IdsOf, Root
    <3>2. Highest({0}) = 0
      <4>1. {0} \in SUBSET Nat /\ IsFiniteSet({0})
        BY FS_Singleton
      <4>. QED BY <4>1, HighestIs
    <3>. QED BY <3>1, <3>2
  <2>. QED BY <2>2, <2>4, <2>5
<1>5. Few(Unnamed(disk, Held), crashes)'
  BY <1>1, <1>2, <1>3
<1>6. Few(Ahead, crashes - misses)'
  BY <1>1, <1>3, <1>5, FewLess
<1>. QED BY <1>1, <1>4, <1>5, <1>6 DEF RetryInv

\* At first all is named.
LEMMA InitRetry == Init => RetryInv
<1> SUFFICES ASSUME Init PROVE RetryInv
  OBVIOUS
<1>1. /\ up /\ misses = 0 /\ crashes = 0 /\ mem.cur = 0 /\ mem.root
      /\ IdsOf(disk) = {0} /\ IdsOf(disk[0].files) = {}
      /\ IdsOf(mem.dirs) = {0} /\ IdsOf(mem.dirs[0].files) = {}
  BY DEF Init, NoStore, Only, IdsOf, Root
<1>2. Unnamed(disk, Held) = {}
  BY <1>1 DEF Unnamed, Held
<1>3. Ahead = {}
  BY <1>1 DEF Ahead, LastDir, Root
<1>4. Few({}, 0)
  BY FS_EmptySet DEF Few
<1>. QED BY <1>1, <1>2, <1>3, <1>4 DEF RetryInv

\* Every step keeps the account of what kills left.
LEMMA StepRetry ==
    ASSUME Inv, StoreInv, RetryInv, [Next]_vars, Agreed',
           CrashAt \cap Spared = {}, MaxLevel = 0
    PROVE  RetryInv'
<1>1. CASE UNCHANGED vars
  <2>1. CASE up
    BY <1>1, <2>1, QuietRetries
  <2>2. CASE ~up
    <3>1. Saved' = Saved /\ UNCHANGED <<disk, up, crashes, misses>>
      BY <1>1 DEF vars, Saved, Dirs
    <3>. QED BY <2>2, <3>1 DEF RetryInv
  <2>. QED BY <2>1, <2>2
<1>2. CASE CreateFileDirStore
  BY <1>2, DirInTheWay, DirMade
<1>3. CASE CreateBlockFile
  BY <1>3, FileInTheWay, FileMade
<1>4. CASE Crash
  <2>1. op.pc \notin Windows
    BY <1>4 DEF Crash, Spared
  <2>. QED BY <1>4, <2>1, Killed
<1>. QED BY <1>1, <1>2, <1>3, <1>4, QuietRetries, RootMoved, Closed, MountedAgain DEF Next

\* The account of what kills left holds of every behaviour.
LEMMA RetryInvHolds ==
    ASSUME CrashAt \cap Spared = {}, MaxLevel = 0
    PROVE  Spec => []RetryInv
<1>1. Inv /\ StoreInv /\ RetryInv /\ [Next]_vars /\ Agreed' => RetryInv'
  BY StepRetry
<1>. QED BY <1>1, AgreedIs, InitRetry, StoreInvHolds, PTL DEF Spec

\* Of the files and directories a process finds there are never more that it does
\* not know than there were kills, whatever the sizes and the number of calls.
THEOREM OneStrayPerKill ==
    ASSUME CrashAt \cap Spared = {}, MaxLevel = 0
    PROVE  Spec => [](up => Few(Unnamed(disk, Held), crashes))
BY RetryInvHolds, PTL DEF RetryInv

\* Retries fail at most once for every kill until the store is full (RetrySucceeds):
\* each steps over something a kill left, which is not met again before the next
\* mount.  The store may have any sizes; no kill falls in the windows above.
THEOREM RetriesSucceed ==
    ASSUME CrashAt \cap Spared = {}, MaxLevel = 0
    PROVE  Spec => []RetrySucceeds
<1>1. RetryInv => RetrySucceeds
  <2> SUFFICES ASSUME RetryInv, Ready, ~Full PROVE misses <= crashes
    BY DEF RetrySucceeds, Full
  <2>1. IsFiniteSet(Ahead) /\ Cardinality(Ahead) <= crashes - misses
        /\ crashes \in Nat /\ misses \in Nat
    BY DEF RetryInv, Ready, At, Few
  <2>2. Cardinality(Ahead) \in Nat
    BY <2>1, FS_CardinalityType
  <2>. QED BY <2>1, <2>2
<1>. QED BY <1>1, RetryInvHolds, PTL
=============================================================================
