------------------------------ MODULE Session -------------------------------
(***************************************************************************)
(* How a command of tools/fattool.c that changes files runs: it opens the  *)
(* filesystem, changes the table and the directories in the cache and      *)
(* closes, which writes what is dirty; some write clusters at once, and    *)
(* errors exit the program, leaving on the device only these.  Commands    *)
(* has the commands.                                                       *)
(*                                                                         *)
(* The files are in the root directory, a chain of clusters that can be    *)
(* extended.  Names take an entry each (the long ones are in DirEntries).  *)
(***************************************************************************)
EXTENDS AreaSearch, Sequences, FiniteSetsExt

CONSTANTS
    Images,       \* filesystems: their table, blocks (clusters) and last
    Requests,     \* commands with their arguments
    Slots,        \* entries of a directory that are in a cluster
    Bytes,        \* size of a cluster
    PerSector,    \* how many clusters have their entries in the same sector
    MaxSessions   \* bound on the commands

(* A request has                                                           *)
(*    command, file, other    its name and those of its files              *)
(*    size, cluster, next     numbers                                      *)
(*    option                  the word after them                          *)
(*    begin, end              option -a, all clusters by default           *)
ASSUME CommandsAssumption ==
    /\ \A n \in {Bytes, PerSector, MaxSessions} : n \in Nat \ {0}
    /\ Slots \in Nat \ {0, 1}
    /\ \A q \in Requests :
          /\ {q.begin, q.end} \subseteq Clusters
          /\ {q.command, q.file, q.other, q.option} \subseteq STRING
          /\ q.size \in Int /\ q.cluster \in Nat /\ q.next \in Int

VARIABLES
    device,       \* the filesystem on the device
    block, dirty, \* contents of the clusters in memory, units to be written
    request,
    pc,           \* what is done next
    at,           \* reference to where the next cluster of the file goes
    file,         \* reference to the entry of the file
    left,         \* bytes of the file still to be done
    size,         \* bytes of it done; the number C calls next or start
    output,       \* what is printed of the contents of clusters
    sessions,     \* commands so far
    ended,        \* how the last one ended
    before,       \* ghost: the device when it was opened
    origin,       \* ghost: the device when the one before was opened
    grown,        \* ghost: was the directory extended?
    misplaced     \* ghost: was a file created over another? (DirEntries)

memory  == <<table, block, dirty>>
session == <<request, sessions, before, origin>>
ghosts  == <<grown, misplaced>>
local   == <<at, file, left, size, output>>
vars == <<search, device, memory, session, ended, ghosts, pc, local>>

(* A function at one value, and a function changed where another has values*)
x :> v == [y \in {x} |-> v]
f @@ g == [y \in DOMAIN f \cup DOMAIN g |-> IF y \in DOMAIN f THEN f[y] ELSE g[y]]

Root == FAT_FIRST
Indices == 0 .. Slots - 1

(* References: to the entry in a slot, or to the cluster.                  *)
NoSlot == -1
EntryRef(c, i) == [cluster |-> c, slot |-> i]
ClusterRef(c)  == [cluster |-> c, slot |-> NoSlot]
NoRef == [cluster |-> 0, slot |-> 0]

EndEntry == [state |-> "end", name |-> "", first |-> FAT_UNUSED, size |-> 0,
             dir |-> FALSE]
File(n) == [EndEntry EXCEPT !.state = "live", !.name = n]
Dir(n, c) == [File(n) EXCEPT !.first = c, !.dir = TRUE]

(* A block has the entries of a directory or part of the data of a file.   *)
EntryValues == [state : {"end", "live", "deleted"}, name : STRING, first : Int,
                size : Int, dir : BOOLEAN]
Blocks == [entries : [Indices -> EntryValues], data : STRING \X Int]

ASSUME ImagesAssumption ==
    Images \subseteq [table : [Clusters -> NextValues], block : [Clusters -> Blocks],
                     last : Clusters]

NoData == <<"", 0>>
NoEntries == [i \in Indices |-> EndEntry]
Zero == [entries |-> NoEntries, data |-> NoData]
DataBlock(what, part) == [entries |-> NoEntries, data |-> <<what, part>>]
DirBlock(f) == [Zero EXCEPT !.entries = f @@ @]

-----------------------------------------------------------------------------
(* The clusters of a chain in order, up to what is not a cluster; as many  *)
(* as the filesystem has or more if it goes in a circle.                   *)
Chain(t, s) ==
    LET to[k \in 1 .. Last] ==
          IF k = 1 THEN s
          ELSE LET c == to[k - 1] IN IF c \in Clusters THEN t[c] ELSE FAT_EOF
        n == Cardinality({k \in 1 .. Last : to[k] \in Clusters})
    IN  [k \in 1 .. n |-> to[k]]

ClustersOf(chain) == {chain[k] : k \in DOMAIN chain}

(* fatnextentry(): the entries of the root directory, in order.            *)
Entries(f) ==
    LET chain == Chain(f.table, Root)
    IN  [k \in 1 .. Len(chain) * Slots |->
           EntryRef(chain[((k - 1) \div Slots) + 1], (k - 1) % Slots)]

EntryIn(f, p) == f.block[p.cluster].entries[p.slot]

Cached == [table |-> table, block |-> block]
EntryAt(p) == EntryIn(Cached, p)

(* fatlookupfile() and its version for the long names: the first entry of  *)
(* that name before the end, which may be deleted if its first letter is   *)
(* given as deleted.                                                       *)
Scanned(f) ==
    LET all  == Entries(f)
        ends == {k \in DOMAIN all : EntryIn(f, all[k]).state = "end"}
    IN  IF ends = {} THEN all ELSE SubSeq(all, 1, Min(ends) - 1)

LookedUp(f, state, n) ==
    LET all   == Scanned(f)
        named == {k \in DOMAIN all : /\ EntryIn(f, all[k]).name = n
                                     /\ EntryIn(f, all[k]).state = state}
    IN  IF named = {} THEN {} ELSE {all[Min(named)]}

Lookup(n) == LookedUp(Cached, "live", n)

Live(f) ==
    LET all == Scanned(f)
    IN  {all[k] : k \in {k \in DOMAIN all : EntryIn(f, all[k]).state = "live"}}

(* fatreferencegettarget().                                                *)
Target(p) == IF p.slot = NoSlot THEN table[p.cluster] ELSE EntryAt(p).first

(* What fatreferencesettarget() sets: a cluster or an entry.               *)
TargetSetNext(p, v) == IF p.slot = NoSlot THEN p.cluster :> v ELSE <<>>
TargetSetEntry(p, v) ==
    IF p.slot = NoSlot THEN <<>>
    ELSE p :> [EntryAt(p) EXCEPT !.first = IF v = FAT_EOF THEN FAT_UNUSED ELSE v]

-----------------------------------------------------------------------------
Sector(c) == <<"sector", c \div PerSector>>
Unit(c)   == <<"cluster", c>>
Info      == <<"sector", -1>>

(* Set the next of clusters and the entries at some places, in the cache.  *)
Update(nexts, entries) ==
    /\ table' = nexts @@ table
    /\ block' = [c \in Clusters |->
          LET here == {p \in DOMAIN entries : p.cluster = c}
          IN  [block[c] EXCEPT !.entries =
                 [i \in {p.slot : p \in here} |-> entries[EntryRef(c, i)]] @@ @]]
    /\ dirty' = dirty \cup {Sector(c) : c \in DOMAIN nexts}
                      \cup {Unit(p.cluster) : p \in DOMAIN entries}

(* What is written in clusters, with the others; it may not wait for the   *)
(* end: fatunitwriteback().                                                *)
WriteBlocks(blocks, immediate) ==
    /\ block' = blocks @@ block
    /\ IF immediate
       THEN device' = [device EXCEPT !.block = blocks @@ @] /\ UNCHANGED dirty
       ELSE dirty' = dirty \cup {Unit(c) : c \in DOMAIN blocks} /\ UNCHANGED device

UpTo(pcnext) == pc' = pcnext

(* A search that is done; the program takes its result.                    *)
Answered == fn = "none" /\ result # NoResult
TakeAnswer == Taken /\ UNCHANGED <<fn, last>>

Search(pcnext, b, e, s, n) ==
    /\ CallFind(b, e, s, n)
    /\ UpTo(pcnext)

SearchArea(pcnext) == Search(pcnext, request.begin, request.end, -1, 1)
SearchAll(pcnext, s) == Search(pcnext, FAT_FIRST, Last, s, 1)

(* The variables of main(), before it is run and after.                    *)
Nothing ==
    /\ at = NoRef /\ file = NoRef
    /\ left = 0 /\ size = 0
Forget ==
    /\ at' = NoRef /\ file' = NoRef
    /\ left' = 0 /\ size' = 0

ExitSaving ==
    /\ UpTo("idle") /\ ended' = "exit"
    /\ device' = [table |-> table, block |-> block, last |-> last]
    /\ dirty' = {} /\ fn' = "none" /\ Taken
    /\ Forget
    /\ UNCHANGED <<table, block, last, session, ghosts, output>>

(* exit(1): the cache is lost.                                             *)
Exit ==
    /\ UpTo("idle") /\ ended' = "exit"
    /\ table' = device.table /\ block' = device.block /\ dirty' = {}
    /\ last' = device.last /\ fn' = "none" /\ Taken
    /\ Forget
    /\ UNCHANGED <<device, session, ghosts, output>>

Init ==
    /\ device \in Images
    /\ table = device.table /\ block = device.block /\ dirty = {}
    /\ SearchInit /\ last = device.last
    /\ request \in Requests /\ request = CHOOSE q \in Requests : TRUE
    /\ pc = "idle" /\ Nothing /\ output = <<>>
    /\ sessions = 0 /\ ended = "none"
    /\ before = device /\ origin = device
    /\ grown = FALSE /\ misplaced = FALSE

(* fileoptiontoreference(): the files that are named, if they exist.       *)
Ref(f, state, n) ==
    LET refs == LookedUp(f, state, n)
    IN  IF refs = {} THEN NoRef ELSE CHOOSE p \in refs : TRUE

Undeleting == {"undelete", "recover"}

Open ==
    /\ pc = "idle" /\ sessions < MaxSessions
    /\ request' \in Requests
    /\ file' = Ref(device, IF request'.command \in Undeleting THEN "deleted" ELSE "live",
                   request'.file)
    /\ at' = IF request'.command = "concat" THEN Ref(device, "live", request'.other) ELSE NoRef
    /\ UpTo("start") /\ sessions' = sessions + 1 /\ ended' = "none"
    /\ before' = device /\ origin' = before
    /\ grown' = FALSE /\ misplaced' = FALSE /\ output' = <<>>
    /\ UNCHANGED <<search, device, memory, left, size>>

(* fatflush(): the sectors, then the clusters, each in the order they have *)
(* in their tree.                                                          *)
Close ==
    /\ pc = "close"
    /\ UpTo("flush")
    /\ dirty' = dirty \cup {Info}
    /\ Forget
    /\ UNCHANGED <<search, device, table, block, session, ended, ghosts, output>>

ClustersFirst(u) == u[1] = "sector" => \A w \in dirty : w[1] = "sector"
SectorsFirst(u) == u[1] = "cluster" => \A w \in dirty : w[1] = "cluster"

Flush(u) ==
    /\ pc = "flush" /\ u \in dirty /\ SectorsFirst(u)
    /\ device' = [device EXCEPT
          !.table = [c \in Clusters |-> IF Sector(c) = u THEN table[c] ELSE @[c]],
          !.block = [c \in Clusters |-> IF Unit(c) = u THEN block[c] ELSE @[c]],
          !.last = IF u = Info THEN last ELSE @]
    /\ dirty' = dirty \ {u}
    /\ UNCHANGED <<search, table, block, session, ended, ghosts, pc, local>>

Closed ==
    /\ pc = "flush" /\ dirty = {}
    /\ UpTo("idle") /\ ended' = "closed"
    /\ UNCHANGED <<search, device, memory, session, ghosts, local>>

Crash ==
    /\ pc = "flush" /\ dirty # {}
    /\ UpTo("crashed") /\ ended' = "crash"
    /\ UNCHANGED <<search, device, memory, session, ghosts, local>>

-----------------------------------------------------------------------------
(* createfile(): fatfindfreeentry() gives the wrong cluster if the free    *)
(* entry is the first of a cluster but of the first (see DirEntries).      *)
NewName == IF request.command = "link" THEN request.other ELSE request.file

Given(all, k) ==
    IF k > 1 /\ all[k].slot = 0 THEN EntryRef(all[k - 1].cluster, 0) ELSE all[k]

FreeEntry ==
    LET all  == Entries(Cached)
        free == {k \in DOMAIN all : EntryAt(all[k]).state # "live"}
    IN  IF free = {} THEN {} ELSE {<<all[Min(free)], Given(all, Min(free))>>}

CannotCreate ==
    IF request.command = "link"
    THEN UpTo("close") /\ TakeAnswer /\ Forget
         /\ UNCHANGED <<device, memory, session, ended, ghosts, output>>
    ELSE Exit

Create ==
    /\ pc = "create"
    /\ IF Lookup(NewName) # {} THEN CannotCreate
       ELSE IF FreeEntry = {}
       THEN /\ SearchAll("grow", -1)
            /\ UNCHANGED <<device, memory, session, ended, ghosts, local>>
       ELSE \E p \in FreeEntry :
            /\ Update(<<>>, p[2] :> File(NewName))
            /\ UpTo("created") /\ at' = p[2] /\ misplaced' = (p[1] # p[2])
            /\ UNCHANGED <<search, device, session, ended, grown, file, left, size, output>>

(* No entry is free: a cluster is added to the directory.                  *)
Grow ==
    /\ pc = "grow" /\ Answered
    /\ IF result = FAT_ERR THEN CannotCreate
       ELSE LET chain == Chain(table, Root)
            IN  /\ table' = [table EXCEPT ![result] = FAT_EOF, ![chain[Len(chain)]] = result]
                /\ block' = [block EXCEPT ![result] = DirBlock(0 :> File(NewName))]
                /\ dirty' = dirty \cup {Sector(result), Sector(chain[Len(chain)]), Unit(result)}
                /\ UpTo("created") /\ at' = EntryRef(result, 0) /\ grown' = TRUE
                /\ TakeAnswer
                /\ UNCHANGED <<device, session, ended, misplaced, file, left, size, output>>
=============================================================================
