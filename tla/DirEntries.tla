----------------------------- MODULE DirEntries -----------------------------
(***************************************************************************)
(* The entries of one directory: lib/directory.c searches for free ones    *)
(* and extends the directory, lib/long.c stores a long name in the parts   *)
(* before the entry of the file, and finds and deletes it.                 *)
(*                                                                         *)
(* An entry is told by its position in the directory, from zero: position  *)
(* p is entry p % Slots of cluster p \div Slots of the chain.              *)
(***************************************************************************)
EXTENDS Integers, Sequences

CONSTANTS
    Names,        \* names of files
    Parts,        \* parts of each long name; none if the name is a short one
    Stem,         \* short name of each, before a number is added to it
    Slots,        \* entries of a cluster
    Clusters,     \* clusters the directory may have
    MaxFiles,     \* bound on the files of the directory
    FixedRoots,   \* may the directory be the root of FAT12 or FAT16?
    BadReads      \* sets of clusters that cannot be read

(* The number of a part is kept in six bits.                               *)
MaxParts == 63

ASSUME EntriesAssumption ==
    /\ Names # {} /\ Parts \in [Names -> 0 .. MaxParts]
    /\ DOMAIN Stem = Names
    /\ Slots \in Nat \ {0} /\ MaxFiles \in Nat \ {0}
    /\ Clusters \subseteq Nat /\ Clusters # {}
    /\ FixedRoots \subseteq BOOLEAN

VARIABLES
    chain,        \* clusters of the directory
    entry,        \* content of each cluster
    free,         \* clusters that are not used
    fixed,        \* is it the root of a FAT12 or FAT16?
    unreadable,
    search,       \* the search of free entries for a file, or other work
    files,        \* the files created and not deleted
    misplaced,    \* was the first entry of a cluster given as one of another?
    cut,          \* were clusters cut off the chain?
    orphaned      \* did a deletion leave parts of a long name?

ghosts == <<files, misplaced, cut, orphaned>>
vars == <<chain, entry, free, fixed, unreadable, search, ghosts>>

Indices == 0 .. Slots - 1
Numbers == 0 .. MaxFiles
Aliases == {<<Stem[n], k>> : n \in Names, k \in Numbers}
Files   == [id : 1 .. MaxFiles, name : Names, alias : Aliases]

End     == [kind |-> "end"]
Deleted == [kind |-> "deleted"]
Short(alias, id) == [kind |-> "short", alias |-> alias, id |-> id]
Long(name, part, first, alias) ==
    [kind |-> "long", name |-> name, part |-> part, first |-> first, sum |-> alias]

Entries == {End, Deleted}
   \cup {Short(a, id) : a \in Aliases, id \in 1 .. MaxFiles}
   \cup {Long(n, p, b, a) : n \in Names, p \in 1 .. MaxParts, b \in BOOLEAN, a \in Aliases}

Idle == [state |-> "idle"]

(* directoryclean at a cluster of the chain.                               *)
Cleaning(k) == [state |-> "cleaning", at |-> k]

(* The variables of fatfindfreelong(): the last free entry that was found, *)
(* the first of the consecutive ones and how many they are.                *)
Search(state, name, alias, pos, start, consecutive) ==
    [state |-> state, name |-> name, alias |-> alias, pos |-> pos,
     start |-> start, consecutive |-> consecutive]

(* The type of the state.                                                  *)
TypeOK ==
    /\ chain \in Seq(Clusters) /\ Len(chain) > 0
    /\ entry \in [Clusters -> [Indices -> Entries]]
    /\ free \subseteq Clusters
    /\ \A k \in DOMAIN chain : /\ chain[k] \notin free
                               /\ \A j \in DOMAIN chain : chain[j] = chain[k] => j = k
    /\ files \subseteq Files
    /\ search \in {Idle} \cup [state : {"cleaning"}, at : Nat \ {0}]
                   \cup [state : {"search", "found"}, name : Names, alias : Aliases,
                         pos : Int, start : Int, consecutive : Nat]

-----------------------------------------------------------------------------
(* fatnextentry(): reading a cluster may fail, and the directory seems to  *)
(* end before it does.                                                     *)
At(p) == entry[chain[p \div Slots + 1]][p % Slots]

CanReadTo(k) == \A j \in 1 .. k : chain[j] \notin unreadable
LastRead == CHOOSE k \in 1 .. Len(chain) :
               CanReadTo(k) /\ (k < Len(chain) => ~ CanReadTo(k + 1))

(* The positions of all entries, and of those that can be read.            *)
Whole == 0 .. Len(chain) * Slots - 1
Readable == 0 .. LastRead * Slots - 1

Exists(p) == At(p).kind \notin {"end", "deleted"}

(* Scans stop at the first end entry.                                      *)
Before(p, positions) == {q \in positions : q < p}
Scanned(positions) ==
    {p \in positions : \A q \in Before(p + 1, positions) : At(q).kind # "end"}

(* The file that is listed at a short entry has a long name if the parts   *)
(* before it are all there, in order and with its checksum: fatlongscan(). *)
IsRun(s, p) ==
    \A q \in s .. p - 1 :
       /\ At(q).kind = "long"
       /\ At(q).part = p - q
       /\ At(q).first = (q = s)
       /\ At(q).sum = At(p).alias

LongStart(p) ==
    IF \E s \in Before(p, Whole) : IsRun(s, p)
    THEN CHOOSE s \in Before(p, Whole) : IsRun(s, p) ELSE p

(* The name that is listed: that of the parts, or the short name.          *)
Listed(p) ==
    IF LongStart(p) = p THEN {At(p).alias}
    ELSE {At(q).name : q \in LongStart(p) .. p - 1}

NameOf(n) == {IF Parts[n] = 0 THEN <<Stem[n], 0>> ELSE n}

(* fatlookupfilelongboth() and fatlookupfile().                            *)
ShortsIn(positions) == {p \in Scanned(positions) : At(p).kind = "short"}
FoundLong(n)  == {p \in ShortsIn(Readable) : Listed(p) = NameOf(n)}
FoundShort(a) == {p \in ShortsIn(Readable) : At(p).alias = a}

First(positions) == CHOOSE p \in positions : \A q \in positions : p <= q

-----------------------------------------------------------------------------
(* _fatshorttoshort() and _fatlongtoshort(): the short name of a file is   *)
(* its name if it is short, and the first that is not used otherwise.      *)
Alias(n) ==
    IF Parts[n] = 0 THEN <<Stem[n], 0>>
    ELSE CHOOSE a \in Aliases :
            /\ a[1] = Stem[n] /\ FoundShort(a) = {}
            /\ \A k \in Numbers : k < a[2] => FoundShort(<<Stem[n], k>>) # {}

(* A directory is empty at first, of the first cluster (which one it is     *)
(* makes no difference); what is in free clusters is not erased.            *)
Old == Short(CHOOSE a \in Aliases : TRUE, 1)

Init ==
    /\ chain = <<First(Clusters)>> /\ free = Clusters \ {First(Clusters)}
    /\ entry = [c \in Clusters |-> [i \in Indices |-> IF c = chain[1] THEN End ELSE Old]]
    /\ fixed \in FixedRoots
    /\ unreadable \in BadReads /\ chain[1] \notin unreadable
    /\ search = Idle
    /\ files = {} /\ misplaced = FALSE /\ cut = FALSE /\ orphaned = FALSE

Looking(n, alias) ==
    /\ search' = Search("search", n, alias, -1, -1, 0)
    /\ UNCHANGED <<chain, entry, free, fixed, unreadable, ghosts>>

(* Numbers that tell files from one another.                               *)
Ids == {id \in 1 .. MaxFiles : \A f \in files : f.id # id}

(* createfile() of fattool.c, for each of the two sets of functions: the   *)
(* file must not exist already.                                            *)
BeginShort(n) ==
    /\ search = Idle /\ Ids # {}
    /\ Parts[n] = 0 /\ FoundShort(<<Stem[n], 0>>) = {}
    /\ Looking(n, <<Stem[n], 0>>)

BeginLong(n) ==
    /\ search = Idle /\ Ids # {}
    /\ FoundLong(n) = {}
    /\ Looking(n, Alias(n))

-----------------------------------------------------------------------------
(* fatfindfreeentry() from position p.  The cluster it gives is that of    *)
(* the entry before the one it found: it is the wrong one if that is the   *)
(* first of a cluster.                                                     *)
FreeFrom(p) == {q \in Readable : q >= p /\ ~ Exists(q)}
FreeAfter(p) == {q \in Readable : q > p /\ ~ Exists(q)}
Given(q) == IF q > 0 /\ q % Slots = 0 THEN q - Slots ELSE q

(* fatfindfreelong(): after a free entry is found, is it next to the last? *)
Continue(p) ==
    LET next == search.consecutive > 0 /\ search.pos + 1 = p
        n == IF next THEN search.consecutive + 1 ELSE 1
    IN  search' = [search EXCEPT
          !.state = IF n > Parts[search.name] THEN "found" ELSE "search",
          !.pos = p, !.start = IF next THEN @ ELSE p, !.consecutive = n]

FindFree ==
    /\ search.state = "search"
    /\ FreeAfter(search.pos) # {}
    /\ LET q == First(FreeAfter(search.pos))
       IN  /\ Continue(Given(q))
           /\ misplaced' = (misplaced \/ Given(q) # q)
    /\ UNCHANGED <<chain, entry, free, fixed, unreadable, files, cut, orphaned>>

(* There is none: a cluster is added after the last that was read, filled  *)
(* with zeros, and stays in the cache.                                     *)
Taken(c) == free \ {c}

Zeroed(c) == [entry EXCEPT ![c] = [i \in Indices |-> End]]

Extend(c) ==
    /\ search.state = "search"
    /\ FreeAfter(search.pos) = {}
    /\ ~ fixed /\ c \in free
    /\ chain' = Append(SubSeq(chain, 1, LastRead), c)
    /\ free' = Taken(c)
    /\ entry' = Zeroed(c)
    /\ Continue(LastRead * Slots)
    /\ unreadable' = unreadable \ {c}
    /\ cut' = (cut \/ LastRead < Len(chain))
    /\ UNCHANGED <<fixed, files, misplaced, orphaned>>

NoRoom ==
    /\ search.state = "search"
    /\ FreeAfter(search.pos) = {}
    /\ fixed \/ free = {}
    /\ search' = Idle
    /\ UNCHANGED <<chain, entry, free, fixed, unreadable, ghosts>>

(* The entries at these positions become those.                            *)
Stored(positions, these) ==
    [c \in Clusters |-> [i \in Indices |->
        LET here == {q \in positions : chain[q \div Slots + 1] = c /\ q % Slots = i}
        IN  IF here = {} THEN entry[c][i] ELSE these[First(here)]]]

Filled(positions, value) == Stored(positions, [q \in positions |-> value])

(* fatcreatefileshortlong() once the entries are found: the parts from the *)
(* last to the first, then the short entry.                                *)
Written(n, alias, start, p, id) ==
    Stored(start .. p,
           [q \in start .. p |->
               IF q = p THEN Short(alias, id)
               ELSE Long(n, Parts[n] - (q - start), q = start, alias)])

Create ==
    /\ search.state = "found"
    /\ LET id == First(Ids)
           s == search
       IN  /\ entry' = Written(s.name, s.alias, s.start, s.pos, id)
           /\ files' = files \cup {[id |-> id, name |-> s.name, alias |-> s.alias]}
    /\ search' = Idle
    /\ UNCHANGED <<chain, free, fixed, unreadable, misplaced, cut, orphaned>>

-----------------------------------------------------------------------------
(* The entries from s to p are marked as deleted.                          *)
ErasedToEnd(s, p) == Filled(s .. p, End)
Erased(s, p) == Filled(s .. p, Deleted)

Forgotten(p) == {f \in files : f.id # At(p).id}

(* fatdeletelong() and fatentrydelete(), as fattool.c calls them.          *)
DeleteLong(n) ==
    /\ search = Idle /\ FoundLong(n) # {}
    /\ LET p == First(FoundLong(n))
       IN  entry' = Erased(LongStart(p), p) /\ files' = Forgotten(p)
    /\ UNCHANGED <<chain, free, fixed, unreadable, search, misplaced, cut, orphaned>>

(* The short name only: the parts of the long name, if any, are left.      *)
DeleteShort(a) ==
    /\ search = Idle /\ FoundShort(a) # {}
    /\ LET p == First(FoundShort(a))
       IN  /\ entry' = Erased(p, p) /\ files' = Forgotten(p)
           /\ orphaned' = (orphaned \/ LongStart(p) # p)
    /\ UNCHANGED <<chain, free, fixed, unreadable, search, misplaced, cut>>

(* directoryclean in fattool.c: the clusters with no file are taken out of *)
(* the chain and freed.  Whether one is unused is seen when the traversal  *)
(* is at what leads to it; the one after a cluster that was taken out is   *)
(* not looked at, and the walk stops at one that cannot be read.  The      *)
(* first has the dot files or is that of the root.                         *)
UnusedFirst(c) == entry[c][0].kind \in {"end", "deleted"}
Unused(c) == \A i \in Indices : entry[c][i].kind \in {"end", "deleted"}

Clean ==
    /\ search = Idle
    /\ search' = Cleaning(1)
    /\ UNCHANGED <<chain, entry, free, fixed, unreadable, ghosts>>

GoesOn(k) == k < Len(chain) /\ chain[k + 1] \notin unreadable

Without(s, k) == [j \in 1 .. Len(s) - 1 |-> s[IF j < k THEN j ELSE j + 1]]

KeptTaken(c) == free
Returned(c) == free \cup {c}

CleanNext ==
    /\ search.state = "cleaning"
    /\ LET k == search.at
       IN  /\ GoesOn(k)
           /\ IF Unused(chain[k + 1])
              THEN chain' = Without(chain, k + 1) /\ free' = Returned(chain[k + 1])
              ELSE UNCHANGED <<chain, free>>
           /\ search' = Cleaning(k + 1)
    /\ UNCHANGED <<entry, fixed, unreadable, ghosts>>

(* Then directorylast: the entries after that of the last file are zeroed. *)
(* The rest of the directory after a cluster that cannot be read is not    *)
(* seen, and is after an end if there is something to zero.                *)
CleanLast ==
    LET shorts == ShortsIn(Readable)
        after  == {q \in Readable : \A p \in shorts : q > p}
    IN  /\ search.state = "cleaning" /\ ~ GoesOn(search.at) /\ search' = Idle
        /\ IF shorts = {} THEN UNCHANGED <<entry, cut>>
           ELSE /\ entry' = Filled(after, End)
                /\ cut' = (cut \/ (after # {} /\ LastRead < Len(chain)))
        /\ UNCHANGED <<chain, free, fixed, unreadable, files, misplaced, orphaned>>

(* filldeleted: the end entries are marked as deleted.                     *)
FillDeleted ==
    /\ search = Idle
    /\ entry' = Filled({q \in Readable : At(q) = End}, Deleted)
    /\ UNCHANGED <<chain, free, fixed, unreadable, search, ghosts>>

(* Another program finds that some other cluster cannot be read.           *)
Reopen ==
    /\ search = Idle
    /\ unreadable' \in BadReads /\ chain[1] \notin unreadable'
    /\ UNCHANGED <<chain, entry, free, fixed, search, ghosts>>

Searching == FindFree \/ (\E c \in Clusters : Extend(c)) \/ NoRoom \/ Create
             \/ CleanNext \/ CleanLast

Requested ==
    \/ \E n \in Names : BeginShort(n) \/ BeginLong(n) \/ DeleteLong(n)
    \/ \E a \in Aliases : DeleteShort(a)
    \/ Clean \/ FillDeleted

(* Nothing more is asked of a directory that was damaged; this bounds the  *)
(* directories explored, and the properties say nothing of them.           *)
Next ==
    \/ ~ misplaced /\ ~ cut /\ Requested
    \/ Searching \/ Reopen

Spec == Init /\ [][Next]_vars /\ WF_vars(Searching)

-----------------------------------------------------------------------------
(* The entries fatfindfreelong() gives are free: creating a file           *)
(* overwrites no other.                                                    *)
FreeIsFree ==
    search.state = "found" =>
       \A q \in search.start .. search.pos : ~ Exists(q)

(* Whatever is created and deleted, with long names or short, each file    *)
(* has one entry, and nothing else is found, as long as no entry is given  *)
(* with the wrong cluster and no cluster is cut off.                       *)
EntriesKept ==
    ~ misplaced /\ ~ cut =>
       /\ {[id |-> At(p).id, alias |-> At(p).alias] : p \in ShortsIn(Whole)}
             = {[id |-> f.id, alias |-> f.alias] : f \in files}
       /\ \A p, q \in ShortsIn(Whole) : At(p).id = At(q).id => p = q

(* Each is listed under the name it was created with, if no deletion by    *)
(* short name left parts that a later file may take for its own.           *)
NamesKept ==
    ~ misplaced /\ ~ cut /\ ~ orphaned =>
       \A p \in ShortsIn(Whole), f \in files :
          At(p).id = f.id => Listed(p) = NameOf(f.name)

(* The files of the directory are those that were created and not deleted. *)
FilesKept == EntriesKept /\ NamesKept

(* Nothing is after the first end entry: a file created at the end leaves  *)
(* an end after it.                                                        *)
NothingAfterEnd ==
    ~ misplaced /\ ~ cut => \A p \in Whole \ Scanned(Whole) : At(p) = End

(* Every cluster is in the chain or free, and not both, unless the search  *)
(* cut some off the chain.                                                 *)
ClustersKept ==
    LET own == {chain[k] : k \in DOMAIN chain}
    IN  TypeOK /\ own \cap free = {} /\ (~ cut => own \cup free = Clusters)

(* The search of consecutive entries ends, however the free ones are       *)
(* scattered.                                                              *)
SearchEnds == search # Idle ~> (search = Idle \/ misplaced)
=============================================================================
