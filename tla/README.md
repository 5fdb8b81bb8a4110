# A verification of libllfat

libllfat is a C library for low-level access to FAT12, FAT16 and FAT32
filesystems (`src/lib`, about ten thousand lines) with a set of tools over it
(`src/tools`).  This directory models the library and the tools that change
filesystems in TLA+, checks the models with TLC on small instances, and proves
with TLAPS the theorems that matter most for every value of the constants.

The library is sequential: there are no threads and no messages.  What makes it
hard is something else.

* A write-back cache whose units are handed out as pointers, renumbered, swapped
  and destroyed while other parts of the program hold them.
* Several copies of one table, each of which may fail to be read or written.
* Callbacks that change the structure that is being traversed.
* Auxiliary structures (the inverse FAT, the counter of free clusters, usage
  counters) that must follow every change.
* Loops that go round: in an area of clusters that ends before it begins, in a
  chain that may be cyclic, between two sizes of a table.
* Read and write errors, signals in the middle of a long operation, exits in the
  middle of a command and crashes while the cache is flushed.

## The system

| component | state | operations | depends on |
|---|---|---|---|
| unit cache (`unit.c`) | a tree of units by number; each has data, `dirty`, `refer`, `error`, the descriptor | get, getdata, create, insert, copy, move, swap, writeback, flush, delete, free, freecache, deallocate | the device |
| file allocation table (`table.c`) | the sectors of each copy, in a unit cache; `nfat`, `free`, `last` of the `fat` structure | get and set the next of a cluster, free a chain, count, searches of clusters and areas, header, dirty bits | unit cache, boot sector |
| filesystem (`fs.c`) | the `fat` structure: two caches, descriptor, offset | open, create, flush, quit, close, information sector | unit cache, boot sector, table |
| boot sector (`boot.c`) | sector 0 | geometry: sizes, numbers of clusters and sectors, type of the filesystem | unit cache |
| directory entries (`entry.c`) | 32 bytes of a unit | exists, end, kinds, first cluster, size, times, names | unit cache |
| directories (`directory.c`) | entries over a chain of clusters | next entry, lookup, free entry, creation | entries, table |
| long names (`long.c`) | the entries before a short one | scan, lookup, free entries, creation, deletion | directories |
| cluster references (`reference.c`) | none: a reference is (directory, index, previous) | target, set target, move, swap, traversal, dump, count, cut | directories, table |
| inverse FAT (`inverse.c`) | for each cluster the reference to it and whether it is of a directory | create, delete, set, move, swap, check, unreachable clusters | references |
| complex operations (`complex.c`) | the struct passed to the callback | move an area, compact, linearize, defragment, truncate | inverse FAT, traversal, table |
| `fattool` | the variables of `main()` | some sixty commands: format, create, delete, extend, crop, link, concatenate, recover, clean, move, mend | all of the above |
| `fatshrink`, `fatbackup` | command line | shrink by moving and cutting; save what makes the tree | all of the above |
| `fatview`, `fatexample`, `fattest` | none | output, an example, tests | the library |

Components interact by calls, by the pointers to units they share, and by one
callback: `_fatreferenceexecute()` calls the function it is passed on every
cluster reference, and the callback moves clusters, deletes units, and updates
the inverse FAT under it.

What makes each correct, and what is hard about it:

* **unit cache** -- a unit is found at the number it carries; a clean unit has
  the data of the device; nothing in use is destroyed; only a write that succeeds
  makes a unit clean; together, the cache behaves as one block per number.
  Hard: moves over existing units, swaps, writes that stop halfway, reads that
  fail after the buffer was allocated, several pointers to one unit.
* **table** -- an entry that is set is read back and no other changes (FAT12
  packs two entries in three bytes, that may be in two sectors); what differs
  from the device is dirty; the copies agree; the counter of free clusters
  follows; freeing a chain frees that chain, and ends even if it loops.  A search
  returns what it says, from wherever it starts.  Hard: sectors and copies that
  cannot be read, the counter kept from one session to the next, a crash between
  two writes; areas that go on from the first cluster after the last.
* **boot sector** -- the table fits the clusters that fit in what it leaves: a
  fixed point between two sizes.  Hard: the fields that count depend on the type,
  the type on the number of clusters, and this on the fields.
* **directories and long names** -- a file keeps its entry and its names,
  whatever else is created or deleted; the search of free entries gives free
  entries and ends.  Hard: entries in two clusters, growing directories, parts
  of names left behind, clusters that cannot be read.
* **references, inverse FAT, complex operations** -- moving clusters changes no
  file; the inverse FAT is the one that would be computed anew; no pointer is
  followed to a unit that was deleted; the result is the arrangement asked for;
  dot and dotdot files follow their directories; the traversal ends.  Hard: all
  of it, since the callback changes what the traversal is in the middle of.
* **tools** -- a command does what was asked to the files it names and nothing to
  the others, and leaves a filesystem where no cluster is in two files and none
  in use is free, if it found one; so does one that exits or crashes.  Hard: the
  order of what is set in the entry and in the table, full disks, directories
  that grow meanwhile.

## The modules

    BlockStore <--implements-- UnitCache --- UnitCacheProofs
                                   |
                              MCUnitCache

    FatEntry <--- FatTable --- FatTableProofs
                     |
                 MCFatTable

    AreaSearch <-+- Searches <-------------+
                 |      |                  |
                 |  MCSearches             +- CommandsProofs
                 |                         |
                 +- Session <--- Commands <+
                                    |
                                MCCommands

    Boot <--- Geometry --- MCGeometry
                 |
            GeometryProofs

    ClusterRefs <--- InverseFat <--- Traverse <-+- RenumberProofs <-+
         ^                                      |                   |
         |                                      |                   +- LinearizeProofs
         |                                      |                   |      |
         |                                      +- Linearize <------|------+--- MCLinearize
         |                                      |                   |
         |                                      |                   +- ProgramsProofs
         |                                      +- MoveArea --+            |
         |                                      +- Truncate --+            |
         |                                      +- Repair ----+- Programs <-+- MCPrograms
         |                                      +- Backup ----+                 |
         +------- Trees (small filesystems, used by MCLinearize and MCPrograms)-+

    DirProofs --- DirEntries --- MCDirEntries

`PROJECT.json` has the lines each definition stands for.

### The cache and the table

**BlockStore** is the abstract specification of a write-back cache: one block per
number for the program (`content`) and one for whoever comes next (`durable`),
which may differ only at the numbers in `unsaved`; one leaves that set when the
device has its block, or at a crash, and in no other way.
**UnitCache** is `unit.c`: `cache` is the tree, from numbers to units, and
`unit[u]` has the fields of `struct unit`.  There is an action for each function;
`fatunitinsert()` over an existing unit destroys it.  A failed write leaves any
mixture of old and new on the device.  `pins` are the pointers that the traversal
and the inverse FAT count in `refer`.  `Content`, the block the program would see
at each number, and `Unsaved`, the numbers of the dirty units, are the
refinement mapping.

**FatEntry** is the format of an entry as pure operators: `Get` and `Set` on a
table of bytes, in the three widths.  **FatTable** is the table through the
cache: `mem[k]` and `disk[k]` are the bytes of copy `k`, `dirty` the sectors
with `u->dirty` set.  `SetNextCluster` is `fatsetnextcluster()`, with its loop
over the copies and the counter `free`; a chain is freed one cluster per step.
The session ends with `fatclose()`, with `fatquit()`, or with a crash, after some
of the sectors were written; then another opens, with other sectors unreadable.

### The searches of areas and the commands

**AreaSearch** has the loops of `table.c` that search an area: the free cluster
or sequence of free clusters (`fatclusterfindfreesequencebetween()`), a cluster
in use, the number of free and of bad clusters, the freest area of a size
(`fatclustermostfree()`), the longest linear part of a chain.  `fn` is the
function that runs, the other variables are its own, and an iteration is a step.
**Searches** calls them on tables that do not change, and defines what they are
to return.

**Session** and **Commands** are the commands of `fattool` that create, delete
and change files and chains.  `request` is the command line, `pc` the place in
`main()` or in the function it calls, `table`, `block` and `dirty` the cache,
`device` what is written.  Each command is a sequence of steps that call the
searches of AreaSearch as subroutines: `writefile` finds a cluster, writes it at
once, attaches it to the file and goes on.  `Exit` is `exit(1)`, with the cache
lost and what was written at once kept; `Close`, `Flush` and `Crash` are
`fatclose()` and a crash between any two of its writes (the sectors come before
the clusters, since `fatflush()` flushes that cache first).  The variables
`before` and `origin` are the device when this command and the one before it
began.

### The geometry

**Boot** has the operators of `boot.c` on a record of the fields, with their
widths when they are set and read; the type is never stored but computed, and the
functions called without it take `ANY`.  **Geometry** has the programs: `fattool
format`, whose search for the size of the table is a loop in a loop (`TrySize` in
`fatbootbestfatsize()`, `BeginRound` and `EndRound` in `fatsetsize()`); opening,
with its check; `fatshrink` and `setlastcluster`.

### Directories

**DirEntries** is one directory: a chain of clusters of `Slots` entries, each
told by its position, or a root of fixed size.  The search of consecutive free
entries is one step per call to `fatfindfreeentry()`, which may extend the
directory; creation writes all the parts, deletion is that of `fattool delete`,
with long names or without.  `Clean` begins `directoryclean`, which takes out of
the chain the clusters that have no file, one cluster of the chain per step
(`CleanNext`, at the cluster `search.at`); where it stops, `CleanLast` zeroes what is
after the last file (`directorylast`).  `FillDeleted` marks the ends as deleted
(`filldeleted`).

### Traversals

**ClusterRefs** has the filesystem as the complex operations see it: `fs.next`
(the decoded table), `fs.at` (which unit is at each number, so that moves and
swaps renumber units as the cache does), `fs.kind` and `fs.first` (the entries of
the units of directories).  A reference is a record (directory, index, previous),
and `ClusterMove` and `ClusterSwap` are `fatclustermove()` and `fatclusterswap()`
with their results.  **InverseFat** adds the inverse FAT and its updates.
**Traverse** is the recursion of `_fatreferenceexecute()` as a stack of frames: one
step per call to the callback and one per entry, with the reads, the usage
counters and the deletions of units of each.

**Linearize** is `fatlinearize()` and `fatdefragment()` over it: the callback
`_fatdefragment()`, the creation and deletion of the inverse FAT, the fixing of
dot files, the flush, and a signal at any step.  The command `linear` of `fattool`
comes first: it counts the clusters by a traversal (`phase = "count"`) and chooses
where they are to go (`Chosen`: a number, where the file starts, where its longest
linear part would have it start, the freest area) or exits (`"refused"`).
**MoveArea** is `fatmovearea()` and `fatcompact()`.  **Truncate** is the callback
of `fattruncate()`.  Its struct is in `user`: the number of clusters counted, and
the type of cut that is going on with the entry of the file where it began.  A cut
that begins in the middle of a chain (type 1), at its first cluster (type 2) or at
an entry of a directory cluster that is over the bound (type 3) frees each cluster
as the next is visited, along the chain as it was before.  `dead` and `smashed`
tell that a null pointer was followed and that memory was written that is not of a
unit.  **Repair** is the callback of `fatcutbad()` and what `fatunreachable()`
frees.  **Backup** is `fatbackup -u`: the clusters of a directory are copied when the
traversal leaves them, and of the table the sectors that the traversal happened to
read (`user` has both).  **Trees** builds the small filesystems of these runs.

**Programs** puts one traversal after another as the tools do.  `stage` is what
the program is doing:

    movearea:  move -> end
    hole:      move -> (holed | refused)
    shrink:    check -> (end | move | cut | refused);  move -> (end | cut | refused);
               cut -> truncated
    repair:    cutbad -> unreachable -> end
    backup:    backup -> saved

and `killed` from any call that follows a null pointer or smashes memory.  The
first is `fatmovearea()` alone, the second the command `hole` of `fattool`, that
empties an area and marks it as bad, the third `main()` of `fatshrink.c`, the
fourth the command `cutbad` of `fattool` and then `unreachable fix`.  `Allocated`
is the search of allocated clusters before and after the move.  `sizes` are the
sizes of the directory entries, in clusters; `before` is the filesystem when the
cut began.

## The runs

| run | what it shows |
|---|---|
| `unit_cache` | all the operations of the cache, with writes that fail halfway and reads that fail on one number: type, keys, clean units, pinned units, refinement of BlockStore |
| `fat_table` | entries set, chains freed and clusters counted on the three widths and two copies, with sectors that cannot be read, crashes and sessions that follow |
| `fat_table_12` | finding: the second sector of a FAT12 entry is changed and not marked dirty |
| `searches` | every search of an area, from every cluster, on every table of five clusters |
| `geometry` | formatting, opening and resizing devices about the boundaries between types and between sizes of the table |
| `geometry_fatsize` | finding: a table that does not hold all clusters |
| `commands` | two commands of `fattool` one after the other, with exits and crashes |
| `commands_consecutive` | finding: the directory and a file share a cluster |
| `dir_entries` | creation and deletion of files with short and long names, cleaning of the directory |
| `dir_free` | finding: the first entry of a cluster is given with the wrong cluster |
| `linearize` | `fatlinearize()`, `fatdefragment()` and the command `linear` on every placement of the trees |
| `programs` | `fatmovearea()`, `fatcompact()`, `hole`, `fatshrink -m` and `-t`, `cutbad` and `unreachable fix`, `fatbackup -u`, on the same trees, and on trees where a file or a directory has a bad cluster |

Deadlock is checked where the model goes on for ever.  Programs that end stop
the model: Linearize (`phase \in Ended`), Programs (`stage \in Ended`), Geometry
(a device that is refused, or resized) and Commands (after `MaxSessions`, or a
crash).

What the properties say, by run:

* `unit_cache`: the unit in the tree at a number carries that number, whatever was
  moved or swapped (`CacheKeyed`); a clean unit has the data of the device
  (`CleanAgrees`); a unit that someone counts on is never destroyed to save memory
  (`PinnedStays`); the program sees one block per number, and the device has it
  once it is flushed (`ImplementsStore`).
* `fat_table`: `fatsetnextcluster()` changes no other entry in any copy
  (`SetOnlyThat`), keeps the copies in agreement (`CopiesStayAgreed`), marks what
  it changes (`ChangedIsDirtyWide`, FAT16 and FAT32) and moves the counter as the
  number of free clusters (`FreeTracks`); freeing a chain frees all of it and no
  more (`FreesTheChain`) and ends if it loops (`FreeChainEnds`).
* `searches`: what is returned for a sequence of free clusters is that
  (`FoundInArea`); a single free cluster is the nearest, going round
  (`NearestFound`); counts are exact (`CountsRight`); no area of the size without
  bad clusters is freer than the one chosen by sliding (`MostFreeBest`); the cluster
  returned for a chain begins the first of its longest linear parts
  (`LongestFirst`; not how many clusters are before it, see below).
* `geometry`: what `format` writes opens, and emptying its tables writes nothing
  outside them (`FormatSound`); a filesystem that is resized has the clusters that
  were computed before, on a copy of its boot sector (`ResizeExact`); the search
  for a size ends (`SizingEnds`).
* `commands`: files that are not named are on the device, entry, chain and
  contents, at every moment and wherever a program exits or crashes
  (`OthersKept`); a sound filesystem stays sound, with nothing lost but by the
  commands that leave clusters (`SoundKept`), also after a crash of those that
  create files (`CreationSound`); an exit changes only free clusters
  (`ExitHarmless`); the file has the contents, size and clusters asked for, and one
  that was deleted is given back by `undelete` and `recover` if its clusters are
  the next free ones (`AsAsked`); a command ends (`CommandEnds`).
* `dir_entries`: every file has one entry and is listed with its name
  (`FilesKept`); no cluster is lost or in the chain and free (`ClustersKept`);
  nothing is after the end of the directory (`NothingAfterEnd`); the search for free
  entries ends (`SearchEnds`).
* `linearize`: what the traversal and the inverse FAT point to is in memory and
  counted, and is counted no more at the end (`UsageCounted`); the inverse FAT is
  the one that would be made anew, before and after each call (`InverseExact`); files
  have the same contents in the same order, whatever stops it
  (`FilesUnchanged`); it ends (`Termination`).  `Linearized` is what it is for.  If
  nothing is bad, lost or fails, the clusters visited are at the end where they
  were to start, one after the other, each before the next of its chain and after
  the directory and the files before it; with a gap where a stale dot file was
  taken for a cluster (`InOrder`).  Unless it is stopped, the dot files lead to
  their directories, all of them if the last pass was made; if it was not, all but
  those `DotsFollow` names, each of which a run of the code leaves stale (*Moving
  clusters*, below).
* `programs`: moving clusters changes no file, whatever interrupts it, and a hole
  takes no cluster from one (`FilesUnmoved`); it empties the area, and compacting
  leaves no free cluster before a used one (`AreaEmptied`); dot files are right
  (`DotsFollow`).  Truncation ends every chain at its first cluster over the bound
  and keeps the rest, frees what it cuts, and cuts no file that had room to be
  moved (`CutAtBound`).  No reference leads to a free cluster; sizes are those of
  the chains; after a repair the clusters in use are those that are reached, and
  the marks of the bad ones are where they were; a backup has each directory
  cluster and each link (`Consistent`).  Every program ends (`ProgramsEnd`).

### Bounds, and why they are enough

* *unit cache*: two numbers, three units, two contents, two holders.  Operations
  take at most two numbers, so two show each way they meet; a third unit lets a
  unit be created while two are in the tree and one is being replaced.  Units,
  contents and holders are symmetric.
* *table*: two copies, clusters 2 and 3, sectors of four bytes.  The FAT12 entry
  of cluster 2 is in two sectors and shares a byte with that of 3; two copies
  make the loop and the fallback to the other copy happen.  `MaxChanges` bounds
  the entries set in a session; opening again starts over.  Tables begin free, in
  a chain or in a loop.
* *Searches*: five clusters, every table of free and used ones with at most one
  bad, and the chains of all five in every order from the second and from the
  fourth: an area may have clusters before, after and on both sides, go round, or be one cluster;
  a length may be zero, or more than the area.  CommandsProofs has the results
  for any number of clusters.
* *Geometry*: the real numbers, not small ones: sizes in steps of three about
  those where FAT12 becomes FAT16 and FAT16 becomes FAT32, for one and four
  sectors per cluster, some large and some tiny; default and small root
  directories; `MaxExtra` bounds the sectors added to the table.
* *Commands*: six images of six clusters with a root of one or two clusters,
  full or with a free or deleted entry, two of them with deleted files, one with a
  directory that is not empty; two entries
  in a cluster, two bytes in a cluster, two sectors for the table, `MaxSessions` is
  two.  Forty-odd command lines: files of no, one and two clusters, those that end
  with a cluster and those that do not, an area that goes round, sizes that fill
  the disk.  Two commands are enough for one to meet what another left: a deleted
  file, a position of the search, a directory that grew.
* *directories*: two entries per cluster, up to three clusters, names of no, one
  and two parts that are cut to the same short name, up to three files.  A name
  of two parts takes three entries: it is always in two clusters.  The
  cluster that is unreadable, in some runs of the program and not in others, may be
  the second of the directory, the third or a free one.
* *Linearize, Programs*: five clusters (2 to 6), three entries per cluster, and
  every placement of four trees with two-cluster directories and files and nested
  directories, with the root inside the data area (FAT32) or not.  Three or four
  clusters are used: there is always something to swap with and something free.
  Linearize also has a root of two clusters with a directory, also in every
  placement, and asks for all of it (`defragment`), for the root, for a directory of
  the root to a given place, each recursively or not, for a directory inside that one
  to the first place and to the last, and for a file with every option of `linear`.
  One image has a bad cluster, one a lost cluster; one cluster may be
  unreadable, one unwritable.  A signal may arrive at any step of a linearization
  or of a move.  A shrink leaves two, three or four of the five clusters, so that
  it cuts first clusters, middles of chains and directories with what is in them;
  the hole is in the middle, so that its destination goes round; in three sets of
  images a file or a directory has a bad cluster.

### Fairness

All liveness is under weak fairness of the program's own steps (`Work` in
Linearize, `ProgramsWork` in Programs, `Run` in Commands, `Step` in Geometry,
`Searching` in Searches and DirEntries, freeing the next cluster in FatTable): a
sequential program does not stop in the middle of a call.  Signals, crashes,
failures and new requests have no fairness.

## The findings

Four runs check one property each that a document of the repository states and
that the code does not have.  In short (`PROJECT.json` quotes both sides):

* `table.c:214`, `ChangedIsDirty`: `fshigh->dirty` is not set;
* `directory.c:220`, `FreeIsFree`: the cluster given with a free entry is that
  of the entry before;
* `boot.c:481`, `TableHoldsClusters`: when the size of the table alternates between
  two, the two slots that are compared are those the loop found equal, and the size
  taken is the one that came last: `format` of 651461 sectors makes a filesystem
  that `fattool` refuses to open;
* `fattool.c:2761`, `ConsecutiveSound`: the clusters of the file are found before
  the directory grows into one of them.

The passing runs state what holds nevertheless. `ChangedIsDirtyWide` leaves out
FAT12; `CleanAgrees` leaves out reads that fail; `FormatOpens` leaves out sizes
that did not settle (`Settled`) and root directories that change the type
(`RootFits`), `ResizeExact` a last cluster whose entry begins in the last byte of
the table (`LastSplit`); `SoundKept` leaves out `consecutive` in a directory that
grew and one in an area that goes round (`CrossLinks`, `Astray`); `LongestFirst`
leaves out the number of clusters before the part; `DotsFollow` of Linearize
leaves out the dot files that the code does not fix, each of them named; `InOrder`
asks for no gap only if no dot file was taken for a cluster in place (the variable
`astray`); the properties of DirEntries and Commands leave out what happens after
an entry is given with the wrong cluster (`misplaced`) or after a cluster that
cannot be read makes the search cut the rest of the directory off (`cut`).

The code has other behaviour that differs from what the documents say, or that a
user would not expect, and that no run states as a property.  The models have
most of it; it was met while they were written or checked.

*The cache and the table*

* A unit that was freed and fails to be read again stays in the cache, clean, with
  data that was never read (`unit.c:338`; libllfat.txt:95).
* A flush does not look at the errors of the writes.
* `nfat > numfats` lets one copy too many through (`table.c:148`, 186).
* Setting an entry on FAT32 overwrites its four reserved bits.
* `fatclose()` stores the number of free clusters if it is not over that of the
  clusters (`fs.c:242`), which -1, not known, is not.
* `fatclustercreate()` returns a cluster that is not zeroed if there was one in the
  cache (`table.c:853-876`; libllfat.txt:135-139).

*The searches*

* A sequence of more than one cluster, in an area that goes on from the first
  cluster or in one of a single cluster, may be found outside of it: the count
  starts again only at a free cluster lower than the first one counted
  (`table.c:604-611`), so that those counted may not follow each other.
  `consecutive` then takes clusters that are in use (`Astray` in Commands).
* In an area of one cluster a search from elsewhere may not end, or return a
  cluster that is not in it: `mkdir -a 5-5`.
* A sequence that spans the cluster where the search starts, or where it goes
  round, is not found (`table.c:606-607`).
* `fatclustermostfree()` finds nothing when only one area of the size fits
  (`table.c:679`).  It returns at once then, and when the first area is all free:
  `MostFreeBest` is about what it returns after it slides.
* `fatclusterlongestlinear()` counts the clusters before the part from zero, and
  gives one if no two clusters are in sequence (`table.c:728-759`; the example of
  fat_functions.3:903-908 gives 6 for the sixth). `fattool linear FILE min`
  subtracts it: with a file that begins at cluster 2 and has no two clusters in
  sequence the start is cluster 1, which passes the check, and the file is left
  out of order with the changes counted as done (fattool.1:390). The models
  compute the number as the code does, since `linear` uses it; `LongestFirst` says
  nothing of it, because what the code gives is not what the manual says, and
  `InOrder` is about starts in the data area.
* On a chain that loops or ends in a bad cluster it does not return.

*The geometry*

* The entries of the root directory are set after the sizes, so that a filesystem
  whose type was 16 may open as 12 (4118 sectors, for example), or have no room for
  a cluster (four to eight sectors are accepted).
* fatshrink does nothing on a FAT12 with more than 65535 sectors, whose number is
  set in a field of 16 bits, and may leave no clusters.
* `setlastcluster` may change the type.
* It also counts the bits before the entry of the last cluster and not those of the
  entry (`fattool.c:1757`; fattool.1:127-128): on a FAT12 whose tables have two
  sectors 682 is accepted, half of its entry is outside of the table, and fattool
  refuses to open the filesystem afterwards.  It is the only case (`LastSplit`).
* The number of root entries must fill clusters, the manual says sectors.
* The number of free clusters `format` writes is replaced by that counted while the
  table is emptied.

*Commands*

* `concat` with an empty second file frees the last cluster of the first.
* `undelete` does not look whether the first cluster of the file is free; the rest
  of the chain are the free clusters after it.
* `writefile` needs a free cluster more than the file when its size is a multiple
  of the cluster.
* `extend` on a full disk or on an empty file exits without saving, which harms
  nothing.
* `link` prints that its file is not found and closes, where the others exit.
* `deletefile` does not end on a chain that ends in a bad cluster, nor `concat` on
  one that loops.
* A crash between the two caches in `deletefile` leaves an entry that leads to free
  clusters; one while a directory grows leaves its new cluster not zeroed.
* `createchain` from the last cluster exits.
* `undelete` of a deleted directory, whose size is zero, makes its entry live and
  takes no cluster, since its loop is on the size (`fattool.c:3283-3300`): the entry
  leads to a cluster that is free.
* A file created in the entry that marks the end of a directory leaves no mark
  behind it (`long.c:752-760`, `directory.c:484-488`): what follows is read as
  entries, if it is not an end already.
* `directoryclean` does not look at the cluster after one it took out
  (`fattool.c:688-715`; fattool.1:561-564).
* A file whose long name is a valid short name takes a short name that is already
  used (`long.c:920`; fat_functions.3:2384).
* `hole` of one cluster compacts the whole filesystem, and one that goes round is
  emptied and not marked (`Marked`).
* `mergefats` writes what it read of a copy that cannot be read, and resolves an end
  of chain against a free cluster by freeing it (fattool.1:354-370).

*Moving clusters*

* A dotdot file that is not fixed yet is taken for a cluster in place if its old
  number is that of the next place (`complex.c:454`; libllfat.txt:1066), and a bad
  cluster at the next place is swapped, which moves the mark (`complex.c:479`;
  libllfat.txt:595, 613).
* `dirmoved` is set by a swap of a directory and not by a move
  (`complex.c:478-509`): after an interruption dot files may be left stale, although
  libllfat.txt:733-735 says that they are fixed.
* The codes that a swap returns for what the second cluster is are those of the
  first (`reference.c:280-292`; libllfat.txt:643-646).
* `linear` of a directory and all that is in it sets the dotdot file of the
  directory to the directory itself if it is in another one: the traversal begins
  there and its reference to the parent is that to itself (`complex.c:464`,
  `reference.c:564-571`).  A swap of a directory has it fixed by the last pass
  (`complex.c:567`), a move to a free cluster does not.
* `linear` of a directory but not of what is in it leaves the dot file of the
  directory and the dotdot files of its subdirectories stale if its first cluster
  is moved to a free one.  Of the root, it leaves those of the directories swapped
  away: the last pass is not made for the root, since the traversal is thought to
  have fixed them (`complex.c:567`; libllfat.txt:1066-1069).
* The dot files of a directory that is moved to the last cluster, and what comes
  after it, are not fixed: the callback returns when the next place is over the end,
  before it looks whether it is at a dot file (`complex.c:451`).
* `cutbad` frees nothing: it calls `fatunreachable()` with a fix of zero, which only
  prints (`fattool.c:2480-2481`, `inverse.c:535`), and the clusters after the bad one
  stay in use; fattool.1:447-450 says that they are reclaimed.  Programs has
  `unreachable fix` given after it.
* A directory with a bad cluster is not entered when moving, so that the dot files
  in it are stale (`FilesBad` in `DotsFollow`).
* An inverse FAT is allocated and not emptied for the numbers no reference has
  (`inverse.c:214-226`).

*Truncation*

* A directory of two clusters that is cut whole ends fatshrink on a null pointer
  (`complex.c:373`; fatshrink.1:32-33).
* fattruncate() says that it saves nothing before its final flush, which alone
  need be uninterruptible (`complex.c:185-187`), but the traversal writes each
  cluster of a directory as it leaves it (`reference.c:499-504`): stopped in the
  middle, the entries are cut and the table is not.
* The root of FAT32 has no entry: its first cluster is never cut, and a later one
  over the bound ends with a size written in a unit of no length (`smashed`) or
  with a null pointer (`dead`); `RootWithin` leaves this out.
* Files whose entry is in the part of a directory that is cut keep their
  clusters, which are then unreachable (`CutDirectoriesEmpty` leaves this out).
* A file that truncation cuts at a bad cluster keeps its size (`SizesRight` leaves
  this out; `cutbad` has it right).
* fatshrink goes on to truncate when the move was interrupted or failed
  (`fatshrink.c:182`): the premise of `NoNeedlessCut`.

## The proofs

* **UnitCacheProofs.** The inductive invariant `IInv` is the type, `CacheKeyed`
  (each unit in the tree is found at the number it carries, so that no two
  numbers share a unit), that a dirty unit has data, that all units have the
  descriptor of this filesystem, and `CleanAgrees`.  `CleanAgrees` is not
  inductive alone: a write to one of two numbers that shared a unit would break
  it, and so would a flush of a dirty unit without data.  `Invariance` proves
  `IInv`; `TypeCorrect`, `Keyed` and `CleanCorrect` follow; `Refinement` shows
  that each step is one of BlockStore or a stutter.  The lemmas say what the tree
  is after an insertion (`Placed`, `DestroyedUnits`), a swap (`SwapInv`), a write
  of some of the units (`Cleaned`).
  `PinnedKept`: no part of the program is left with a pointer to
  a unit that was freed or that serves another number.  Its invariant is that a unit
  is counted by each part that holds it (`PinsCounted`), at least once: a copy of a
  unit also copies its counter, so that the count may be more than the holders, and
  equality is not invariant.  It assumes `~ OverReferred`, that no unit is inserted
  at the number of one in use, since fatunitinsert() frees that whatever its counter;
  with `CacheKeyed`, the unit found at a number is the one held.
* **FatTableProofs.** `SetGet`: for each width, any table of bytes, cluster and
  value, the entry set is read back and the others are as they were.  FAT12 is
  proved from the four ways two entries share bytes (`Codec12`, `Neighbour12`).
  `TableTypes`, `ChangesAreDirty`, `CopiesAgree`,
  `SetsOnlyThat` and `CounterTracks`, for any number of copies and clusters and
  any size of the sectors, from `SetGet` and `StoreEntries` (what a change does
  to each copy).  `ChainIsFreed`: while a chain is freed, the table is the one it
  began with except at the clusters that were passed, which are free and linked to
  each other and to the current one in what the table was; a chain that comes
  back to a cluster passed finds it free and ends there.
* **CommandsProofs, the searches.** `TypeCorrect`: no loop looks up a cluster that the table does
  not have.  `FoundIsInArea`: the sequence returned is free, consecutive and in the
  area.  Its invariant says where the clusters counted so far are: they are free, in
  the area, and end before the current one, unless the loop went back to a lower
  one, where the count starts again (`Counted`); the current one and those counted
  do not meet the end of an area that goes round only because the area then begins
  where the search does.  `MostFreeIsBest`: the numbers of free and bad clusters kept
  while the area slides are those of the area (an area loses one cluster and takes
  one, by the cardinalities of intervals), and the best so far is no worse than any
  area passed.
  `AreaCounted` and `NearestIsFound`, for the loops that look at one
  cluster at a time.  The clusters of an area are numbered from where it begins, on
  through the first of the filesystem if it goes round (`Rank`); a step of the loop
  goes to the next number or from the last to zero (`RankNext`).  The set of what has
  been gone through (`Gone`) is then one more cluster at each step, and the whole
  area as the loop comes back to its start (`GoneOn`): the counts are of that set,
  and no free cluster, or none in use, is in it while one is looked for.
  `LongestIsFirst`: the sequence kept and the current one are the longest and the
  last linear parts of what was passed of the chain (`Longer`); that the chain of a
  recursive function has its equations for any number of clusters is by the least
  number that has no function so far (`FollowingExists`).
* **CommandsProofs, the commands.** `ExitIsHarmless`: a program that exits has changed
  nothing on the device but clusters that were free.  The invariant (`ExitInv`)
  says where the searches called by the commands are (`SearchRight`), what memory has
  (`MemoryRight`: what is not dirty is as on the device), that the places of each
  function are of its kind (`LocalsRight`), and that while a command runs the
  table on the device is the one it found, and the clusters too except those it
  found free (`Untouched`): the cluster that is written at once, before anything is
  saved, is one the search just returned.  That
  alone is not inductive: the search looks in memory, where a command may have freed
  clusters that are in use on the device, so the invariant has that none is at the
  places that write at once (`NothingFreed`).
  `OthersAreKept`: what a command does not name is kept on the device at every step.
  Its invariant (`OthersInv`) speaks of memory and device alike
  (`KeptIn`), since a crash keeps any part of what was dirty.  The clusters that are
  not free when the command begins, not given by number, not of a named file and
  not of the root (`Protected`) have the value and the contents they had.  Those of the
  root keep the entries of the other files, their links unless the root grew, and an
  entry that was not the end is not made one, or a scan would no longer come
  to the files behind it.  The rest of the invariant is that what the command is about
  to change is its own: the place it stands at is an entry of a named file or a
  cluster of its own (`PlacesMine`), the chain behind that place goes
  on in clusters of its own, and the sequence that
  `consecutive` found is free (`SequenceRight`, which is false after a search in an area that
  goes round: `Astray`).  From there, chains of the other files are
  followed in what is left of the table by the same function (`LinkedOnOthers`),
  and their entries found where they were (`OthersFound`).
* **RenumberProofs.** Lemmas on ClusterRefs, InverseFat and Traverse, where the
  modules that move clusters meet.  `Renamed` relates two filesystems that are one
  but for two numbers, exchanged in the clusters and in everything that refers to
  them; moving is the case that one of the two is free.  `MovedIsRenamed` and
  `SwappedIsRenamed`: what `fatreferencemove()` and `fatreferenceswap()` set by way
  of references, those of the two clusters first and then those inside them, the two
  following each other or one being in the other's directory included, is such an
  exchange.  They need what `Sound` says: no cluster is referred to from two
  places.  `RenamedFiles`: the files are then the same, whatever a chain is, again by
  the least place where two chains differ.  `InverseMovedSound` and
  `InverseSwappedSound`: the inverse FAT, updated on its own, still has references
  that lead where it says (`RevSound`).  `AdvanceKeeps`, `ReturnKeeps`: a traversal
  goes on from one reference that exists to another, through the changes its
  callback made.
* **LinearizeProofs.** `NoFileChanges` and `InverseLeads`, for any filesystems and
  requests.  The invariant `Unchanging` has the soundness of the filesystem, of the
  inverse FAT and of the frames of the traversal together, since each is what the
  next move relies on: the inverse FAT to find the reference to change, the frames
  to go on from a cluster that was renumbered, the soundness for a move to be an
  exchange.  There is a lemma for each action.

  `MadeAsCounted` is about the memory, in the first two traversals: while the
  clusters are counted and the inverse FAT is made, the usage counter of a unit is
  exactly the number of frames and of references of the inverse FAT that are in it,
  whatever cannot be read; so what a frame or the inverse FAT points to is in the
  cache (`CountedWhileMade`), and a command that is refused gives all back.  The
  invariant (`Making`) has what makes this true of a recursion: each frame is for the
  entry that the one below it is at (`Chained`), so what it knows of the directory
  and of the one that is in is counted by the frames below (`PointersAreCounted`),
  but for the cluster that is searched, which is the last to be read and may not be
  counted at all (`Scanned`): a directory without files is kept by nothing else.
  The counters are sums, so the lemmas on them are about cardinalities: one more
  frame (`FramesPush`), one more reference (`CountsAdd`).
* **ProgramsProofs.** `FilesStay`: emptying an area changes no file, in
  `fatmovearea()` alone, in fatshrink and in the command `hole`.  Other than in
  LinearizeProofs, chains may have bad clusters, `fatmovearea()` cuts the ones it
  meets, and there is no inverse FAT: the callback has only the reference the
  traversal is at.  So it has to be shown that, when no file has a bad cluster, the
  traversal meets none, whatever the rest of the disk has.  What is reached is
  closed, for any number of clusters, because it grows at each step until it does
  not and there are finitely many (`ReachCloses`, by cardinality), and is within
  any closed set that has the root (`ReachWithin`).  The invariant (`StaysWhole`)
  keeps the contents that were reached at the beginning (`Live`): wherever they are
  now, they lead only to each other and to no bad cluster (`Spared`), and the
  frames of the traversal are in them (`Traced`).  `CallbackKeeps` has a case for
  each branch of `_fatmovearea()`, with `MoveToKeeps` for the move and
  `FoundIsFree` for the cluster it goes to; `MarkedIs` says which clusters a hole
  marks, that are free then and so of no file.

* **GeometryProofs.** `FormattedSound` and `ResizedExactly`, for any sizes of
  devices, clusters and root directories.  The invariant of the search
  (`Searching`) says of the sizes tried last that each is what the clusters left by
  the one before need (`Needed`, `Left`), with the boot sector holding the last; where
  two in a row are equal, the size is one that its own clusters need (`Covers`).  What
  makes this survive `fatsetsize()` is that a larger table leaves fewer clusters,
  which are of the same type or of one with smaller entries (`FewerBits`): sectors may
  be added to a size that covers.  The number of clusters is computed with the type
  they would be of, before the type is known, and the size is stored in 16 bits where
  it may need 32; a size that loses its high bits is either set again to the greatest
  (`RoomyStored`, `TightStored`) or is of a type that is not the one assumed, so that
  the round is repeated (`RoundEnds`).  The entries of the root directory, set in the
  end, only take clusters (`FewerClusters`); `EntrySector` of the last cluster is
  then in the table (`WritesInside`).  Resizing changes one field (`SectorsSet`);
  fewer sectors with the same tables pass the same check (`ShrunkOpens`), and the
  check of setlastcluster is enough but for `LastSplit` (`LastHolds`).
* **DirProofs.** For any names, sizes of clusters and numbers of clusters:
  `ClustersAreKept`, `EndIsLast`, `FilesAreKept` and `FreeUnlessMisplaced`.  None is
  inductive alone.  The invariant (`Inv`) has two parts.  `Shaped` holds whatever
  happens: types, chain and free clusters.  `Sound` is what holds until an entry is
  given with the wrong cluster or the chain is cut: nothing is after the first end
  entry (`Quiet`), the short entries are those of the files (`Holds`), each is listed
  by its name unless a deletion left parts of another (`Named`), and the entries
  that the search has counted are consecutive, free and can be read
  (`SearchRight`).  A file created there overwrites nothing, then, and leaves
  nothing after an end.  What a scan finds is determined by positions, and each operation is a
  statement on these: which short entries there are and where the long name
  before each begins, after the parts and the entry are stored, after entries are
  marked as deleted, and after a cluster without entries is taken out, which
  renumbers all the positions behind it.  The parts of a name cannot run into
  another's, because they are numbered down to the entry and the first is marked.
  A new file takes a short name that no other has: there are more numbers than
  files in the directory, so one is left for `_fatlongtoshort()` (by the cardinality
  of the files).  `FreeUnlessMisplaced` is the complement of the violated
  `dir_free`: entries found by the search are free in every state in which no entry
  was given with the wrong cluster and nothing was cut.

They assume what the constants are assumed to be (`UnitAssumption`,
`TableAssumption`, `LastAssumption`, `TablesAssumption`, `RequestsAssumption`,
`RootsAssumption`, `RefsAssumption`, `AreasAssumption`, `ProgramsAssumption`,
`GeometryAssumption`, `TooManyAssumption`, `EntriesAssumption`): sets of numbers and of
units, positive sizes, a table that has room for the clusters, at least two clusters,
filesystems with no cluster in two places and requests about references that exist;
names of at most 63 parts, since the number of a part is kept in six bits;
devices whose number of sectors fits its field, fewer than the clusters that the code
takes when there are less than none (0x7FFFFFFF there).  TLC evaluates all of them.

Only model-checked: of Commands that a sound filesystem stays so and that
files are what was asked for (`SoundKept`, `CreationSound`, `AsAsked`), which are
about what chains are after they were joined and cut, that is about functions that
follow them to any length (and, for any constants, need more of the directory than a
sound filesystem has: see what is said above of a deleted directory and of the mark of
the end); of Programs that the area is emptied, that dot
files follow, what truncation cuts and the consistency of what is left
(`AreaEmptied`, `DotsFollow`, `CutAtBound`, `Consistent`); of Linearize that the inverse FAT is
complete (`InverseExact`, which for any filesystems needs that nothing is after the end
of a directory and that what a file contains is not taken for entries), that the counts of the units are exact while clusters are moved and
go back to zero (`UsageCounted`, of which only the part of `MadeAsCounted` is proved:
a move replaces a reference of the inverse FAT if there was one, and adds one that
nobody counted if there was not), and that the result is the arrangement asked for
(`Linearized`), which are about a traversal that has seen everything; and all
liveness, since neither ENABLED nor fairness is in reach of the prover.

## What is not modelled

* Formats with no control: times, sizes, attributes, the conversion of characters
  (`ucs2conv.c`) and the characters of short names made from long ones, printing,
  debugging, parsing of paths and of options.
* `linux_tsearch.c` is vendored; the cache takes it as a map.
* The header of the table with its dirty bits, the backup of the boot sector and
  the fields of the boot sector that nothing else depends on (labels, serial
  number, media).
* The traversals by files and with long names and their paths; the listing of
  unreachable chains; `testonly`.
* Of `fattool`: the commands that only print, the merging of two tables, the
  options that change how the filesystem is opened (`-o`, a number of a copy).
* Of `fatshrink` the option `-f`; of `fatbackup` the comparison with what the
  destination already has, and the options that only print.
* `fatview` prints, `fatexample` is an example, `fattest` a test.
* Simplifications in Linearize and Programs: the sectors of the table are always
  readable (FatTable has the others); long names are left out; fatshrink begins
  when the numbers of clusters are known, and ends before the boot sector is
  changed (Geometry has the numbers, before and after); destinations of one cluster
  are excluded (`AreasAssumption`); the areas that `linear` chooses from are given
  by their definition (Searches has the loops); after an error in a nested call the
  traversal uses a unit that may be already freed, and this is taken as a unit in
  use, the outcome that deletes nothing.
* Simplifications in Commands: one copy of the table, always readable; names take
  one entry, files are in the root directory; the user
  confirms, but may refuse to mark as bad clusters in use.
* In DirEntries, the checksum of a short name is the name itself: two short names
  with one checksum are not told apart by the program, and are by the model.  Two
  long names differ in the model only by what they are cut to and how long they
  are.
* The counter of free clusters after a crash: the code does not relate it to the
  table.

## Plan

What would come next, in the order of what matters most:

1. *Relocation proved further*: the completeness of a traversal, from `ReachCloses`
   and `Traced`, and with it `InverseExact`, `AreaEmptied`, `DotsFollow` and the
   rest of `UsageCounted`, from `Making`.
2. *The directory as a set of files*: the refinement of such a set by the entries,
   from the invariant of DirProofs.
3. *Commands over several copies*: the composition of Session with FatTable, for
   copies that differ when a command begins, and `mergefats`.
4. *References*: `fatinversesettarget()`, paths, the traversal by files
   (`reference.c`, `inverse.c:399-472`).
5. *Options*: `testonly` in `complex.c`, a backup over an existing one.
