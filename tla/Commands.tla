------------------------------ MODULE Commands ------------------------------
(***************************************************************************)
(* The commands of tools/fattool.c, one after the other on a filesystem.   *)
(***************************************************************************)
EXTENDS Session

(* The command starts; it may need a file.                                 *)
Starts(cmd) == pc = "start" /\ request.command = cmd

OnFile(cmd) == Starts(cmd) /\ file # NoRef

OnFiles  == {"delete", "link", "crop", "extend", "concat", "setfirst", "deletefile",
             "overwrite", "setsize", "setname", "undelete", "recover"}
Creating == {"writefile", "consecutive", "mkdir"}

(* The command is done, and the program goes to close.                     *)
Done == UpTo("close") /\ UNCHANGED <<session, ended, ghosts, local>>

(* Without the files it needs a command exits; link says so and closes.    *)
NotFound ==
    /\ pc = "start"
    /\ \/ request.command \in OnFiles /\ file = NoRef
       \/ request.command = "concat" /\ at = NoRef
       \/ request.command \in Creating /\ file # NoRef
    /\ IF request.command = "link" THEN Done /\ UNCHANGED <<search, device, memory>> ELSE Exit

DoneUpdate(nexts, entries) ==
    Update(nexts, entries) /\ Done /\ UNCHANGED <<search, device>>

All(v, set) == [c \in set |-> v]
ChainOf(p) == Chain(table, EntryAt(p).first)
Ceil(bytes) == (bytes + Bytes - 1) \div Bytes

-----------------------------------------------------------------------------
(* Commands on the entry of a file or on the entry of the table of a       *)
(* cluster; whoever gives them knows what is on the filesystem.            *)
SetName == OnFile("setname") /\ DoneUpdate(<<>>, file :> [EntryAt(file) EXCEPT !.name = request.other])

SetSize ==
    /\ OnFile("setsize")
    /\ IF EntryAt(file).dir THEN Exit
       ELSE DoneUpdate(<<>>, file :> [EntryAt(file) EXCEPT !.size = request.size])

SetFirst ==
    /\ OnFile("setfirst")
    /\ DoneUpdate(<<>>, file :> [EntryAt(file) EXCEPT !.first = request.cluster])

Delete == OnFile("delete") /\ DoneUpdate(<<>>, file :> [EntryAt(file) EXCEPT !.state = "deleted"])

SetNext == Starts("setnext") /\ DoneUpdate(request.cluster :> request.next, <<>>)

SetLast ==
    /\ Starts("last")
    /\ last' = request.cluster
    /\ Done
    /\ UNCHANGED <<memory, device, fn, result, locals>>

(* fatclusterwrite(): the cluster is written at once.                      *)
WriteCluster ==
    /\ Starts("write")
    /\ WriteBlocks(request.cluster :> DataBlock("new", 1), TRUE)
    /\ Done /\ UNCHANGED <<search, table>>

(* If some cluster is in use the user is asked before they are all marked. *)
Bads ==
    /\ Starts("bad")
    /\ CallAllocated(request.cluster, request.next, request.cluster)
    /\ UpTo("bad")
    /\ UNCHANGED <<device, memory, session, ended, ghosts, local>>

MarkBad ==
    /\ pc = "bad" /\ Answered
    /\ \/ /\ Update(All(FAT_BAD, request.cluster .. request.next), <<>>)
          /\ Done /\ TakeAnswer /\ UNCHANGED device
       \/ result # FAT_ERR /\ Exit

(* fatzero() on FAT32, and fatsparse(), that writes free clusters at once. *)
ZeroAll ==
    /\ Starts("zero")
    /\ DoneUpdate(Root :> FAT_EOF @@ All(FAT_UNUSED, Clusters),
                  All(EndEntry, {EntryRef(Root, i) : i \in Indices}))

InUse  == {c \in Clusters : ~ Free(c)}
Unused == {c \in Clusters : Free(c)}

Sparse ==
    /\ Starts("sparse")
    /\ WriteBlocks(All(Zero, Unused), TRUE)
    /\ Done /\ UNCHANGED <<search, table>>

-----------------------------------------------------------------------------
(* writefile: for each part of the input a cluster is found and written at *)
(* once, and then attached to the file.  A file that ends with its cluster *)
(* takes another, to find that its input has ended.                        *)
StartCreating ==
    /\ Starts("writefile") \/ Starts("mkdir")
    /\ file = NoRef
    /\ UpTo("create")
    /\ UNCHANGED <<search, device, memory, session, ended, ghosts, local>>

WriteFile ==
    /\ pc = "created" /\ request.command = "writefile"
    /\ UpTo("more")
    /\ file' = at /\ left' = request.size /\ size' = 0
    /\ UNCHANGED <<search, device, memory, session, ended, ghosts, at, output>>

More ==
    /\ pc = "more"
    /\ SearchArea("got")
    /\ UNCHANGED <<device, memory, session, ended, ghosts, local>>

WritePart ==
    /\ pc = "got" /\ Answered
    /\ IF result = FAT_ERR THEN Exit
       ELSE IF left = 0
       THEN /\ UpTo("written") /\ TakeAnswer
            /\ UNCHANGED <<device, memory, session, ended, ghosts, local>>
       ELSE /\ WriteBlocks(result :> DataBlock("new", (size \div Bytes) + 1), TRUE)
            /\ UpTo("attach")
            /\ UNCHANGED <<search, table, session, ended, ghosts, local>>

Attach ==
    /\ pc = "attach"
    /\ LET res == Min({left, Bytes})
       IN  /\ Update(result :> FAT_EOF @@ TargetSetNext(at, result),
                     TargetSetEntry(at, result))
           /\ at' = ClusterRef(result)
           /\ size' = size + res /\ left' = left - res
           /\ UpTo(IF res = Bytes THEN "more" ELSE "written")
    /\ TakeAnswer
    /\ UNCHANGED <<device, session, ended, ghosts, file, output>>

Written ==
    /\ pc = "written"
    /\ DoneUpdate(<<>>, file :> [EntryAt(file) EXCEPT !.size = size])

(* overwrite: the clusters of the file are written at once, at the end or  *)
(* not at all.                                                             *)
Overwrite ==
    /\ OnFile("overwrite")
    /\ IF EntryAt(file).dir THEN Exit
       ELSE LET chain == ChainOf(file)
                n     == Min({Len(chain), Ceil(request.size)})
                part(c) == CHOOSE k \in 1 .. n : chain[k] = c
            IN  /\ IF request.option = "test" THEN UNCHANGED <<device, block, dirty>>
                   ELSE WriteBlocks([c \in ClustersOf(SubSeq(chain, 1, n)) |->
                                       DataBlock("new", part(c))],
                                    request.option = "immediate")
                /\ Done /\ UNCHANGED <<search, table>>

-----------------------------------------------------------------------------
(* consecutive: the sequence is found before the file is created, and is   *)
(* not yet in use if the directory takes a cluster then.                   *)
Consecutive ==
    /\ Starts("consecutive") /\ file = NoRef
    /\ Search("sequence", request.begin, request.end, -1, Ceil(request.size))
    /\ UNCHANGED <<device, memory, session, ended, ghosts, local>>

Sequence ==
    /\ pc = "sequence" /\ Answered
    /\ IF result = FAT_ERR THEN Exit
       ELSE /\ left' = result /\ UpTo("create") /\ TakeAnswer
            /\ UNCHANGED <<device, memory, session, ended, ghosts, at, file, size, output>>

ChainSequence ==
    /\ pc = "created" /\ request.command = "consecutive"
    /\ LET final == left + Ceil(request.size) - 1
       IN  DoneUpdate([c \in left .. final |-> IF c = final THEN FAT_EOF ELSE c + 1],
                      at :> [EntryAt(at) EXCEPT !.size = request.size, !.first = left])

(* mkdir: the entry is that of a directory before its cluster is found.    *)
MakeDir ==
    /\ pc = "created" /\ request.command = "mkdir"
    /\ Update(<<>>, at :> [EntryAt(at) EXCEPT !.dir = TRUE])
    /\ SearchArea("dir")
    /\ UNCHANGED <<device, session, ended, ghosts, local>>

DirCluster ==
    /\ pc = "dir" /\ Answered
    /\ IF result = FAT_ERR THEN Exit
       ELSE /\ Update(result :> FAT_EOF,
                 TargetSetEntry(at, result) @@ EntryRef(result, 0) :> Dir(".", result)
                 @@ EntryRef(result, 1) :> Dir("..", 0)
                 @@ All(EndEntry, {EntryRef(result, i) : i \in Indices}))
            /\ Done /\ TakeAnswer /\ UNCHANGED device

(* fatlink(): another file with the clusters of the file, but the first.   *)
Link ==
    /\ OnFile("link")
    /\ LET chain == ChainOf(file)
           n     == request.cluster
       IN  IF n > 0 /\ n >= Len(chain)
           THEN Done /\ UNCHANGED <<search, device, memory>>
           ELSE /\ left' = (IF n = 0 THEN EntryAt(file).first ELSE chain[n + 1])
                /\ UpTo("create")
                /\ UNCHANGED <<search, device, memory, session, ended, ghosts, at, file, size, output>>

Linked ==
    /\ pc = "created" /\ request.command = "link"
    /\ DoneUpdate(<<>>, at :> [EntryAt(at) EXCEPT
          !.first = left, !.dir = EntryAt(file).dir,
          !.size = IF request.size > 0 THEN request.size
                   ELSE EntryAt(file).size - request.cluster * Bytes])

-----------------------------------------------------------------------------
(* dircount(): a directory has other entries than its dot files.           *)
NonEmpty(chain) ==
    LET entry(k) == block[chain[(k \div Slots) + 1]].entries[k % Slots]
    IN  \E k \in 0 .. Len(chain) * Slots - 1 :
           /\ entry(k).state = "live" /\ entry(k).name \notin {".", ".."}
           /\ \A j \in 0 .. k : entry(j).state # "end"

(* deletefile: the chain is freed, and the entry deleted or erased.  The   *)
(* loop does not end if the chain ends in a bad cluster.                   *)
DeletedEntry ==
    [IF request.option = "erase" THEN EndEntry ELSE EntryAt(file) EXCEPT !.state = "deleted"]

DeleteFile ==
    /\ OnFile("deletefile")
    /\ LET chain == ChainOf(file)
       IN  IF /\ EntryAt(file).dir /\ request.option # "force"
              /\ request.option = "dir" => NonEmpty(chain)
           THEN Exit
           ELSE IF \/ chain = <<>> /\ EntryAt(file).first # FAT_UNUSED
                   \/ chain # <<>> /\ table[chain[Len(chain)]] \in {FAT_BAD, FAT_ERR}
           THEN /\ UpTo("forever")
                /\ UNCHANGED <<search, device, memory, session, ended, ghosts, local>>
           ELSE DoneUpdate(All(FAT_UNUSED, ClustersOf(chain)), file :> DeletedEntry)

(* crop: the reference follows the chain for the clusters of that size.    *)
KeptOver(chain, bytes) == Min({Len(chain), (bytes \div Bytes) + 1})
Kept(chain, bytes) == IF bytes > 0 THEN Min({Len(chain), Ceil(bytes)}) ELSE 0

Crop ==
    /\ OnFile("crop")
    /\ LET chain == ChainOf(file)
           kept  == Kept(chain, IF request.size = -1 THEN EntryAt(file).size ELSE request.size)
           ref   == IF kept = 0 THEN file ELSE ClusterRef(chain[kept])
           rest  == ClustersOf(SubSeq(chain, kept + 1, Len(chain)))
       IN  DoneUpdate(TargetSetNext(ref, FAT_EOF) @@
                         All(FAT_UNUSED, IF request.option = "free" THEN rest ELSE {}),
                      TargetSetEntry(ref, FAT_EOF))

(* concat: the second chain after the first, whose last cluster is padded. *)
Concat ==
    /\ OnFile("concat") /\ at # NoRef
    /\ LET chain == ChainOf(file)
           ref   == IF chain = <<>> THEN file ELSE ClusterRef(chain[Len(chain)])
       IN  IF Len(chain) = Last
           THEN /\ UpTo("forever")
                /\ UNCHANGED <<search, device, memory, session, ended, ghosts, local>>
           ELSE DoneUpdate(TargetSetNext(ref, EntryAt(at).first),
                  file :> [EntryAt(file) EXCEPT
                          !.size = (Len(chain) * Bytes) + EntryAt(at).size,
                          !.first = IF chain = <<>> THEN EntryAt(at).first ELSE @])

(* extend: the chain is followed; it is freed after the size, or clusters  *)
(* are added to it.  Following it to what is no cluster exits the program. *)
Extend ==
    /\ OnFile("extend")
    /\ UpTo("extend")
    /\ at' = ClusterRef(EntryAt(file).first)
    /\ left' = request.size /\ size' = FAT_UNUSED
    /\ UNCHANGED <<search, device, memory, session, ended, ghosts, file, output>>

ExtendNextUnended(c, next) ==
    /\ at' = ClusterRef(next) /\ size' = next /\ left' = left - Bytes
    /\ IF left - Bytes <= -Bytes THEN Update(c :> FAT_UNUSED, <<>>)
       ELSE UNCHANGED memory
    /\ UNCHANGED <<search, pc>>

ExtendNext(c, next) ==
    /\ at' = ClusterRef(next) /\ size' = next /\ left' = left - Bytes
    /\ IF left - Bytes <= -Bytes THEN Update(c :> FAT_UNUSED, <<>>)
       ELSE IF left <= Bytes THEN Update(c :> FAT_EOF, <<>>)
       ELSE UNCHANGED memory
    /\ UNCHANGED <<search, pc>>

ExtendLoop ==
    /\ pc = "extend" /\ (left > 0 \/ size # FAT_EOF)
    /\ LET c == at.cluster
           next == table[c]
       IN  IF c \notin Clusters THEN Exit
           ELSE /\ IF left > Bytes /\ next \in {FAT_EOF, FAT_UNUSED}
                   THEN /\ SearchArea("extended") /\ left' = left - Bytes
                        /\ UNCHANGED <<memory, at, size>>
                   ELSE ExtendNext(c, next)
                /\ UNCHANGED <<device, session, ended, ghosts, file, output>>

Extended ==
    /\ pc = "extended" /\ Answered
    /\ IF result = FAT_ERR THEN Exit
       ELSE /\ Update(result :> FAT_EOF @@ at.cluster :> result, <<>>)
            /\ at' = ClusterRef(result) /\ size' = result
            /\ UpTo("extend") /\ TakeAnswer
            /\ UNCHANGED <<device, session, ended, ghosts, file, left, output>>

ExtendEnd ==
    /\ pc = "extend" /\ left <= 0 /\ size = FAT_EOF
    /\ IF request.size = 0 THEN DoneUpdate(<<>>, TargetSetEntry(file, FAT_EOF))
       ELSE Done /\ UNCHANGED <<search, device, memory>>

(* createchain: the first cluster is given, or is found twice.             *)
CreateChain ==
    /\ Starts("createchain")
    /\ IF request.cluster # 0
       THEN /\ at' = ClusterRef(request.cluster) /\ last' = request.cluster + 1
            /\ left' = request.size /\ UpTo("chain")
            /\ UNCHANGED <<fn, result, locals>>
       ELSE SearchArea("chainfirst") /\ UNCHANGED <<at, left>>
    /\ UNCHANGED <<device, memory, session, ended, ghosts, file, size, output>>

ChainFirst ==
    /\ pc = "chainfirst" /\ Answered
    /\ at' = ClusterRef(result) /\ left' = request.size
    /\ UpTo("chain") /\ TakeAnswer
    /\ UNCHANGED <<device, memory, session, ended, ghosts, file, size, output>>

ChainLoop ==
    /\ pc = "chain"
    /\ IF left <= 0 THEN Done /\ UNCHANGED <<search, device, memory>>
       ELSE SearchArea("chained") /\ UNCHANGED <<device, memory, session, ended, ghosts, local>>

Chained ==
    /\ pc = "chained" /\ Answered
    /\ IF at.cluster = FAT_ERR \/ result = FAT_ERR THEN Exit
       ELSE /\ Update(result :> FAT_EOF @@ at.cluster :> result, <<>>)
            /\ at' = ClusterRef(result) /\ left' = left - Bytes
            /\ UpTo("chain") /\ TakeAnswer
            /\ UNCHANGED <<device, session, ended, ghosts, file, size, output>>

-----------------------------------------------------------------------------
(* undelete and recover: after the first cluster of a deleted file come    *)
(* the next free ones, whether the first is free or not.  The first letter *)
(* is given.                                                               *)
Recover ==
    /\ OnFile("undelete") \/ OnFile("recover")
    /\ UpTo("recover")
    /\ at' = file
    /\ left' = EntryAt(file).size /\ size' = EntryAt(file).first
    /\ UNCHANGED <<search, device, memory, session, ended, ghosts, file, output>>

RecoverFrom(c) == IntervalNext(c, FAT_FIRST, Last)

RecoverRead ==
    /\ pc = "recover" /\ left > 0
    /\ IF size \notin Clusters THEN Exit
       ELSE LET from == IF request.command = "recover" THEN size ELSE EntryAt(file).first
            IN  /\ left' = left - Bytes
                /\ IF request.command = "recover"
                   THEN /\ output' = Append(output, block[size].data)
                        /\ UNCHANGED <<memory, at>>
                   ELSE /\ Update(size :> FAT_EOF @@ TargetSetNext(at, size),
                                  TargetSetEntry(at, size))
                        /\ at' = ClusterRef(size) /\ UNCHANGED output
                /\ SearchAll("recovered", RecoverFrom(from))
                /\ UNCHANGED <<device, session, ended, ghosts, file, size>>

Recovered ==
    /\ pc = "recovered" /\ Answered
    /\ size' = result /\ UpTo("recover") /\ TakeAnswer
    /\ UNCHANGED <<device, memory, session, ended, ghosts, at, file, left, output>>

RecoverEnd ==
    /\ pc = "recover" /\ left <= 0
    /\ DoneUpdate(<<>>, IF request.command = "recover" THEN <<>>
                        ELSE file :> [EntryAt(file) EXCEPT !.state = "live"])

-----------------------------------------------------------------------------
(* A function of the library exits the program.                            *)
SearchExits == fn = "exit" /\ Exit

Searched == Searching /\ UNCHANGED <<device, block, dirty, session, ended, ghosts, pc, local>>

Commanded ==
    \/ NotFound \/ SetName \/ SetSize \/ SetFirst \/ Delete \/ SetNext \/ SetLast
    \/ WriteCluster \/ Bads \/ MarkBad \/ ZeroAll \/ Sparse
    \/ StartCreating \/ Create \/ Grow
    \/ WriteFile \/ More \/ WritePart \/ Attach \/ Written \/ Overwrite
    \/ Consecutive \/ Sequence \/ ChainSequence \/ MakeDir \/ DirCluster
    \/ Link \/ Linked \/ DeleteFile \/ Crop \/ Concat
    \/ Extend \/ ExtendLoop \/ Extended \/ ExtendEnd
    \/ CreateChain \/ ChainFirst \/ ChainLoop \/ Chained
    \/ Recover \/ RecoverRead \/ Recovered \/ RecoverEnd
    \/ SearchExits \/ Searched

Run == Commanded \/ Close \/ Closed \/ \E u \in dirty : Flush(u)
Next == Open \/ Run \/ Crash

Spec == Init /\ [][Next]_vars /\ WF_vars(Run)

-----------------------------------------------------------------------------
(* A filesystem is sound if every chain ends, no cluster is in two, and    *)
(* none is free.                                                           *)
EndsWell(f, s) ==
    LET chain == Chain(f.table, s)
    IN  IF chain = <<>> THEN s = FAT_UNUSED ELSE f.table[chain[Len(chain)]] = FAT_EOF

ClustersIn(f, p) == ClustersOf(Chain(f.table, EntryIn(f, p).first))
RootIn(f) == ClustersOf(Chain(f.table, Root))
Reached(f) == RootIn(f) \cup UNION {ClustersIn(f, p) : p \in Live(f)}
Leaked(f)  == {c \in Clusters : f.table[c] \notin {FAT_UNUSED, FAT_BAD}} \ Reached(f)

Sound(f) ==
    /\ EndsWell(f, Root)
    /\ \A p \in Live(f) :
          /\ EndsWell(f, EntryIn(f, p).first)
          /\ ClustersIn(f, p) \cap RootIn(f) = {}
          /\ \A q \in Live(f) \ {p} : ClustersIn(f, p) \cap ClustersIn(f, q) = {}

(* readfile: the clusters of the chain up to the size of the file.         *)
ReadFile(f, p) ==
    LET chain == Chain(f.table, EntryIn(f, p).first)
    IN  [k \in 1 .. Min({Len(chain), Ceil(EntryIn(f, p).size)}) |->
           f.block[chain[k]].data]

Input(n) == [k \in 1 .. n |-> <<"new", k>>]

(* The clusters that are given by number, or in an entry that was deleted. *)
Touched ==
    CASE request.command \in {"setnext", "write", "createchain"} -> {request.cluster}
      [] request.command = "bad" -> request.cluster .. request.next
      [] request.command = "undelete" ->
            {EntryIn(before, p).first : p \in LookedUp(before, "deleted", request.file)}
      [] OTHER -> {}

ByNumber == {"link", "concat", "setfirst", "setnext", "bad"}
Regular ==
    /\ Sound(before) /\ ~ misplaced
    /\ request.command \notin ByNumber
    /\ Touched \cap Reached(before) = {}

(* A sequence that is looked for in an area that goes round, or of a single*)
(* cluster, may be found with clusters that are in use.                    *)
Astray ==
    /\ request.command = "consecutive" /\ request.begin >= request.end
    /\ Ceil(request.size) > 1
CrossLinks == Astray \/ (request.command = "consecutive" /\ grown)
ClosedNow == pc = "idle" /\ ended = "closed"

Same(f, g, p) ==
    LET chain == Chain(g.table, EntryIn(g, p).first)
    IN  /\ EntryIn(f, p) = EntryIn(g, p)
        /\ Chain(f.table, EntryIn(f, p).first) = chain
        /\ \A c \in ClustersOf(chain) : f.block[c] = g.block[c]

Careful ==
    /\ Sound(before) /\ ~ misplaced /\ ~ Astray
    /\ Touched \cap RootIn(before) = {} /\ request.command # "zero"

(* Files that a command does not name stay as they are, at every moment    *)
(* and wherever the program exits or crashes: their entries, their chains  *)
(* and their clusters on the device.  A command that is given numbers of   *)
(* clusters changes only the files that have them.                         *)
OthersKept ==
    Careful =>
       \A p \in Live(before) :
         \/ EntryIn(before, p).name \in {request.file, request.other}
         \/ Touched \cap ClustersIn(before, p) # {}
         \/ p \in Live(device) /\ Same(device, before, p)

Leaving ==
    \/ request.command \in {"delete", "createchain"}
    \/ request.command = "crop" /\ request.option = "leave"

(* A sound filesystem stays so, and no clusters are lost but by the        *)
(* commands that leave them; consecutive may take a cluster twice.         *)
SoundKept ==
    ClosedNow /\ Regular /\ ~ CrossLinks =>
       Sound(device) /\ (Leaving \/ Leaked(device) \subseteq Leaked(before))

(* With consecutive a sound filesystem stays so: the clusters of the file  *)
(* are of no other, as the manual says.                                    *)
ConsecutiveSound ==
    ClosedNow /\ Regular /\ request.command = "consecutive" => Sound(device)

(* A program that exits changed nothing but free clusters.                 *)
ExitHarmless ==
    pc = "idle" /\ ended = "exit" =>
       /\ device.table = before.table
       /\ \A c \in Clusters :
             before.table[c] # FAT_UNUSED => device.block[c] = before.block[c]

(* The commands that create a file write its entry after its chain: a      *)
(* crash leaves clusters that are lost, and no file with others, unless    *)
(* the directory was extended.                                             *)
CreationSound ==
    /\ Regular /\ ~ grown /\ ~ Astray
    /\ request.command \in {"writefile", "consecutive", "mkdir", "undelete"}
    => Sound(device)

(* The file is what was asked for.                                         *)
CreatedAsAsked ==
    ClosedNow /\ Regular /\ ~ CrossLinks =>
       \A p \in LookedUp(device, "live", request.file) :
          LET entry == EntryIn(device, p)
              chain == Chain(device.table, entry.first)
              long  == Ceil(request.size)
          IN  CASE request.command = "writefile" ->
                      /\ entry.size = request.size /\ Len(chain) = long
                      /\ ReadFile(device, p) = Input(long)
                [] request.command = "consecutive" ->
                      /\ entry.size = request.size
                      /\ chain = [k \in 1 .. long |-> entry.first + k - 1]
                [] request.command = "mkdir" ->
                      /\ entry.dir /\ Len(chain) = 1
                      /\ device.block[chain[1]].entries
                           = DirBlock(0 :> Dir(".", chain[1]) @@ 1 :> Dir("..", 0)).entries
                [] request.command = "extend" -> Len(chain) = long
                [] request.command = "crop" ->
                      Len(chain) = Min({Cardinality(ClustersIn(before, p)),
                         IF request.size = -1 THEN Ceil(entry.size) ELSE long})
                [] OTHER -> TRUE

(* A file that was deleted is given back by undelete and recover if each   *)
(* of its clusters is the next that is free after the one before.          *)
NextFree(f, c) ==
    LET free == {d \in Clusters : f.table[d] = FAT_UNUSED}
        up   == {d \in free : d > c}
    IN  IF up # {} THEN Min(up) ELSE IF free # {} THEN Min(free) ELSE c

JustDeleted(p) ==
    /\ EntryIn(before, p) = [EntryIn(origin, p) EXCEPT !.state = "deleted"]
    /\ before.table = All(FAT_UNUSED, ClustersIn(origin, p)) @@ origin.table

GivenBack ==
    ClosedNow /\ request.command \in {"undelete", "recover"} =>
       \A p \in LookedUp(origin, "live", request.file) :
          LET chain == Chain(origin.table, EntryIn(origin, p).first)
          IN  /\ JustDeleted(p) /\ Sound(origin)
              /\ Len(chain) = Ceil(EntryIn(origin, p).size)
              /\ \A k \in 1 .. Len(chain) - 1 : NextFree(before, chain[k]) = chain[k + 1]
              => IF request.command = "recover" THEN output = ReadFile(origin, p)
                 ELSE Same(device, origin, p)

(* A command gives the file that was asked for: new, changed or given back.*)
AsAsked == CreatedAsAsked /\ GivenBack

(* On a sound filesystem every command comes to an end; one that searches  *)
(* in an area of a single cluster may not.                                 *)
CommandEnds ==
    /\ pc = "start" /\ Sound(before) /\ request.begin # request.end
    ~> pc \in {"idle", "crashed"}
=============================================================================
