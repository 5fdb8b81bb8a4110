------------------------------ MODULE Traverse ------------------------------
(***************************************************************************)
(* _fatreferenceexecute() of lib/reference.c: a callback is run on every   *)
(* cluster reference, in order, and may move clusters meanwhile.  The      *)
(* recursion is a stack of frames; a step is a call to the callback or the *)
(* passage to the next entry of a directory.                               *)
(*                                                                         *)
(* The pointers of the program are its frames and the inverse FAT: a unit  *)
(* with a usage counter of zero may be deleted from the cache.             *)
(***************************************************************************)
EXTENDS InverseFat, Sequences

CONSTANTS
    Roots,        \* filesystems to start from
    BadReads,     \* sets of clusters that cannot be read
    BadWrites     \* sets of clusters that cannot be written

VARIABLES
    fs,
    rev,          \* the inverse FAT
    refer,        \* unit->refer of each unit
    cached,       \* units in the cache
    dirty,        \* units of the cache with u->dirty set
    unreadable, unwritable,
    stack,        \* the frames, the last first
    status        \* what the last frame to end returned

disk == <<unreadable, unwritable>>
memory == <<fs, rev, refer, cached, dirty>>
traversal == <<stack, status>>

CHAIN  == "chain"
RECUR  == "recur"
DELETE == "delete"
ORIG   == "orig"
ALL    == "all"
Flags  == {CHAIN, RECUR, DELETE, ORIG, ALL}
NORMAL == {CHAIN, RECUR, DELETE}
CondNever(recur) == {CHAIN, DELETE}
Cond(recur) == {CHAIN, DELETE} \cup (IF recur THEN {RECUR} ELSE {})

Pcs == {"self", "chain", "enter", "entries", "leave", "again", "againchain", "end"}

Frame == [ref : References, start : References, dir : References,
          pc : Pcs, scan : Int, res : SUBSET Flags,
          unit : Units \cup {NoUnit}, index : -1 .. Slots - 1,
          prev : Units \cup {NoUnit}, status : {0, -1}]

NewFrame(ref, start, dir) ==
    [ref |-> ref, start |-> start, dir |-> dir, pc |-> "self", scan |-> 0,
     res |-> {}, unit |-> NoUnit, index |-> -1, prev |-> NoUnit, status |-> 0]

Top == Head(stack)

-----------------------------------------------------------------------------
(* The cache of clusters: reading a cluster fails only if it is not there, *)
(* deleting one succeeds only if it is clean and no pointer is counted.    *)
CannotRead(s) == {c \in unreadable : s.fs.at[c] \notin s.cached}
ReadInto(s, c) == [s EXCEPT !.cached = @ \cup {s.fs.at[c]}]

Touched(s, u) == [s EXCEPT !.cached = @ \cup {u}, !.dirty = @ \cup {u}]

Refer(s, u, n) ==
    IF u = NoUnit THEN s ELSE [s EXCEPT !.refer[u] = @ + n]

Deletable(s, u) == u \in s.cached /\ s.refer[u] = 0 /\ u \notin s.dirty

Deleted(s, u) ==
    IF Deletable(s, u) THEN [s EXCEPT !.cached = @ \ {u}] ELSE s


(* fatunitwriteback() of units, those that can be.                         *)
WrittenBack(s, us) ==
    [s EXCEPT !.dirty = {u \in @ : u \notin us
                                     \/ NumberOf(s.fs, u) \in unwritable}]

(* fatreferencesettarget() marks the unit of an entry as dirty.            *)
TargetSet(s, r, n) ==
    LET t == [s EXCEPT !.fs = SetTarget(s.fs, r, n)]
    IN  IF IsEntry(r) THEN Touched(t, r.directory) ELSE t

(* fatentrydelete(), fatentrysetsize(), and a cluster marked as free.      *)
EntryDeleted(s, r) ==
    Touched([s EXCEPT !.fs.kind[r.directory][r.index] = "deleted"], r.directory)

SizeSet(s, u, i, n) == Touched([s EXCEPT !.sizes[u][i] = n], u)

Freed(s, c) == [s EXCEPT !.fs.next[c] = FAT_UNUSED]

(* FATEXECUTEFIXDOT: . and .. are those of the directory the entry is in   *)
(* and of the one that is in.                                              *)
FixedDotCrossed(s, call) ==
    LET of == IF KindOf(s.fs, call.ref) = "dotdot" THEN call.start ELSE call.dir
        first == Target(s.fs, of)
    IN  TargetSet(s, call.ref, IF first = s.fs.root THEN FAT_UNUSED ELSE first)

FixedDot(s, call) ==
    LET of == IF KindOf(s.fs, call.ref) = "dot" THEN call.start ELSE call.dir
        first == Target(s.fs, of)
    IN  TargetSet(s, call.ref, IF first = s.fs.root THEN FAT_UNUSED ELSE first)

IsDirRef(f, call) ==
    IF IsEntry(call.ref) THEN IsDirectory(f, call.ref)
    ELSE IsDirectory(f, call.start)

State == [fs |-> fs, rev |-> rev, refer |-> refer, cached |-> cached,
          dirty |-> dirty]

Memory(s) ==
    /\ fs' = s.fs
    /\ rev' = s.rev
    /\ refer' = s.refer
    /\ cached' = s.cached
    /\ dirty' = s.dirty

-----------------------------------------------------------------------------
(* The calls of a frame.                                                   *)
Call(frame, ref, direction) ==
    IF ref = frame.ref
    THEN [ref |-> ref, start |-> frame.start, dir |-> frame.dir,
          direction |-> direction]
    ELSE [ref |-> ref, start |-> frame.ref, dir |-> frame.start,
          direction |-> direction]

Pending ==
    CASE Top.pc = "self"       -> Call(Top, Top.ref, 0)
      [] Top.pc = "chain"      -> Call(Top, Following(Top.scan), 0)
      [] Top.pc = "enter"      -> Call(Top, Top.ref, 1)
      [] Top.pc = "leave"      -> Call(Top, Top.ref, -1)
      [] Top.pc = "again"      -> Call(Top, Top.ref, -2)
      [] Top.pc = "againchain" -> Call(Top, Following(Top.scan), -2)

Calling == stack # <<>> /\ Top.pc \notin {"entries", "end"}

(* The chain goes on, a directory is entered, or the frame ends.           *)
AfterChain(f, frame) ==
    IF CHAIN \in frame.res /\ frame.scan >= FAT_ROOT
    THEN [frame EXCEPT !.pc = "chain"]
    ELSE [frame EXCEPT !.pc =
            IF RECUR \in frame.res /\ IsDirectory(f, frame.ref)
                 /\ ~ IsDotFile(f, frame.ref)
            THEN "enter" ELSE "end"]

IsDeleted(f, r) == IsEntry(r) /\ KindOf(f, r) = "deleted"

AfterAgain(frame) ==
    [frame EXCEPT !.pc = IF CHAIN \in frame.res /\ frame.scan >= FAT_FIRST
                         THEN "againchain" ELSE "end"]

(* What a callback did and returned.                                       *)
Answer(s, res) == [s |-> s, res |-> res]

(* The chain is followed as the callback left it, or as it was before.     *)
Scanning(f, frame, ref, res) ==
    [frame EXCEPT !.res = res,
                  !.scan = Target(IF ORIG \in res THEN fs ELSE f, ref)]

ScanningTable(f, frame, res) ==
    [frame EXCEPT !.res = res,
                  !.scan = NextCluster(IF ORIG \in res THEN fs ELSE f, @)]

(* What the frame does with the result of the call, in the state s after   *)
(* it; the first cluster of a directory is read when entering it.          *)
AfterCall(s, res) ==
    LET first == Target(s.fs, Top.ref)
        leave == [Top EXCEPT !.pc = "leave"]
    IN  CASE Top.pc = "self" ->
               IF IsDeleted(s.fs, Top.ref) THEN [Top EXCEPT !.pc = "end"]
               ELSE AfterChain(s.fs, Scanning(s.fs, Top, Top.ref, res))
          [] Top.pc = "chain" ->
               AfterChain(s.fs, ScanningTable(s.fs, Top, res))
          [] Top.pc = "enter" ->
               IF first < FAT_ROOT THEN leave
               ELSE IF first \in CannotRead(s) THEN [leave EXCEPT !.status = -1]
               ELSE [Top EXCEPT !.pc = "entries", !.index = -1,
                                !.unit = s.fs.at[first], !.prev = s.fs.at[first]]
          [] Top.pc = "leave" -> [Top EXCEPT !.pc = "again"]
          [] Top.pc = "again" ->
               AfterAgain(Scanning(s.fs, Top, Top.ref, res))
          [] Top.pc = "againchain" ->
               AfterAgain(ScanningTable(s.fs, Top, res))

AfterRead(s) ==
    LET first == Target(s.fs, Top.ref)
    IN  IF Top.pc = "enter" /\ first >= FAT_ROOT /\ first \notin CannotRead(s)
        THEN ReadInto(s, first) ELSE s

(* The callback ran: s is the state it left, res what it returned.         *)
Returned(s, res) ==
    /\ Memory(AfterRead(s))
    /\ stack' = <<AfterCall(s, res)>> \o Tail(stack)
    /\ UNCHANGED status

-----------------------------------------------------------------------------
(* fatnextentry(): the unit and the index, or the error.                   *)
NextEntrySame(s, frame) ==
    LET at(u, i) == [unit |-> u, index |-> i,
                     err |-> IF s.fs.kind[u][i] = "end" THEN 1 ELSE 0]
    IN  at(frame.unit, (frame.index + 1) % Slots)

NextEntry(s, frame) ==
    LET n == NextCluster(s.fs, NumberOf(s.fs, frame.unit))
        at(u, i) == [unit |-> u, index |-> i,
                     err |-> IF s.fs.kind[u][i] = "end" THEN 1 ELSE 0]
        none(err) == [unit |-> NoUnit, index |-> 0, err |-> err]
    IN  IF frame.index + 1 < Slots   THEN at(frame.unit, frame.index + 1)
        ELSE IF n \in {FAT_EOF, FAT_UNUSED} THEN none(-1)
        ELSE IF n < FAT_FIRST        THEN none(-2)
        ELSE IF n \in CannotRead(s)  THEN none(-3)
        ELSE at(s.fs.at[n], 0)

(* The previous cluster of the directory is written and deleted.           *)
Dismissed(s, frame) ==
    IF DELETE \in frame.res /\ s.refer[frame.prev] = 0
    THEN Deleted(WrittenBack(s, {frame.prev}), frame.prev) ELSE s

Leave(s, frame, failed) ==
    /\ Memory(Dismissed(s, frame))
    /\ stack' = <<[frame EXCEPT !.pc = "leave",
                     !.status = IF failed THEN -1 ELSE @]>> \o Tail(stack)
    /\ UNCHANGED status

(* prevdir = dir, when the loop goes on: not if it is broken.              *)
Looped(frame) == [frame EXCEPT !.prev = frame.unit]

(* The loop over the entries of a directory.  A frame for the entry, whose *)
(* first statement counts it as a pointer to the unit.                     *)
Advance ==
    /\ stack # <<>> /\ Top.pc = "entries"
    /\ LET e == NextEntry(State, Top)
           s == IF e.unit \in {NoUnit, Top.unit} THEN State
                ELSE [State EXCEPT !.cached = @ \cup {e.unit}]
           t == IF e.unit = Top.prev THEN s ELSE Dismissed(s, Top)
           here == [Top EXCEPT !.unit = e.unit, !.index = e.index]
           entry == Entry(e.unit, e.index)
       IN  IF e.err # 0 THEN Leave(s, Top, e.err < -1)
           ELSE /\ UNCHANGED status
                /\ IF IsDeleted(s.fs, entry) /\ ALL \notin Top.res
                   THEN /\ Memory(t)
                        /\ stack' = <<Looped(here)>> \o Tail(stack)
                   ELSE /\ Memory(Refer(t, e.unit, 1))
                        /\ stack' = <<NewFrame(entry, Top.ref, Top.start), here>>
                                       \o Tail(stack)

(* The end of a frame; the error of an entry ends the loop of its          *)
(* directory, where prevdir may have been deleted already: what is read    *)
(* there is garbage, and is taken as a unit that is in use.                *)
Return ==
    /\ stack # <<>> /\ Top.pc = "end"
    /\ LET s == Refer(State, Top.ref.directory, -1)
           rest == Tail(stack)
       IN  IF rest = <<>> THEN Memory(s) /\ stack' = rest
           ELSE IF Top.status = 0
           THEN Memory(s) /\ stack' = <<Looped(Head(rest))>> \o Tail(rest)
           ELSE /\ Memory(Dismissed(s, Head(rest)))
                /\ stack' = <<[Head(rest) EXCEPT !.pc = "leave", !.status = -1]>>
                               \o Tail(rest)
    /\ status' = Top.status

(* fatreferenceexecute(): the reference is its own start and directory.    *)
Begin(r) ==
    /\ Memory(Refer(State, r.directory, 1))
    /\ stack' = <<NewFrame(r, r, r)>>
    /\ status' = 0

(* _fatfixdot(), the callback of fatfixdot().                              *)
FixDot ==
    IF IsDotFile(fs, Pending.ref)
    THEN Returned(FixedDot(State, Pending), {})
    ELSE Returned(State, {RECUR, DELETE})

(* _fatinversecreate(), the callback of fatinversecreate(): a cluster that *)
(* has a reference already is not followed again.                          *)
InverseCreate(s, call) ==
    LET r == call.ref
        target == Target(s.fs, r)
        new == [s EXCEPT !.rev = InverseSet(s.fs, @, r, Flag(IsDirRef(s.fs, call)))]
    IN  IF call.direction # 0 THEN Answer(s, {DELETE})
        ELSE IF IsDotFile(s.fs, r) THEN Answer(s, {})
        ELSE IF target >= FAT_FIRST /\ s.rev[target].ref # Void
             THEN Answer(s, {})
        ELSE Answer(IF target < FAT_ROOT THEN new ELSE Refer(new, r.directory, 1),
                    NORMAL)

-----------------------------------------------------------------------------
(* Every pointer the traversal will use again is to a unit in the cache:   *)
(* those of the entries being visited and the directory cluster scanned.   *)
Pointers(frame) ==
    ({frame.ref.directory, frame.start.directory, frame.dir.directory}
       \cup (IF frame.pc = "entries" THEN {frame.unit} ELSE {}))
    \ {NoUnit}

NoDangling ==
    \A k \in DOMAIN stack : Pointers(stack[k]) \subseteq cached
=============================================================================
