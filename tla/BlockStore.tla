----------------------------- MODULE BlockStore -----------------------------
(***************************************************************************)
(* What a write-back cache of filesystem units promises to the code above  *)
(* it: every unit number names one block, a block read is the block last   *)
(* written, moved or swapped there, and nothing but a crash takes a write  *)
(* back.  `content` is what the program sees, `durable` what a program     *)
(* that starts afterwards would see, and `unsaved` tells where they may    *)
(* differ.                                                                 *)
(*                                                                         *)
(* The promise is void if the device fails to return what it holds         *)
(* (`reliable` is FALSE).  It is not if the device fails to store.         *)
(***************************************************************************)
CONSTANTS
    Numbers,     \* sector or cluster numbers of the units
    Blocks       \* possible contents of a unit, torn ones included

VARIABLES content, durable, unsaved, reliable

svars == <<content, durable, unsaved, reliable>>

Init ==
    /\ durable \in [Numbers -> Blocks]
    /\ content = durable /\ unsaved = {}
    /\ reliable \in BOOLEAN

Write(c, v) ==
    /\ content' = [content EXCEPT ![c] = v]
    /\ unsaved' = unsaved \cup {c}
    /\ UNCHANGED durable

(* The block at c is now at d; c reverts to what the device holds there.   *)
Move(c, d) ==
    /\ content' = [content EXCEPT ![d] = content[c], ![c] = durable[c]]
    /\ unsaved' = (unsaved \ {c}) \cup {d}
    /\ UNCHANGED durable

Swap(c, d) ==
    /\ content' = [content EXCEPT ![c] = content[d], ![d] = content[c]]
    /\ unsaved' = unsaved \cup {c, d}
    /\ UNCHANGED durable

(* Some of the blocks that are not saved are written; a write that fails   *)
(* may leave any bytes there.  The program sees none of it, and a block is *)
(* saved only if the device has it.                                        *)
Persist ==
    /\ durable' \in [Numbers -> Blocks]
    /\ unsaved' \subseteq unsaved
    /\ \A n \in Numbers \ unsaved : durable'[n] = durable[n]
    /\ \A n \in unsaved \ unsaved' : durable'[n] = content[n]
    /\ UNCHANGED content

Crash ==
    /\ content' = durable /\ unsaved' = {}
    /\ UNCHANGED durable

Unspecified ==
    /\ ~ reliable
    /\ content' \in [Numbers -> Blocks]
    /\ durable' \in [Numbers -> Blocks]
    /\ unsaved' \subseteq Numbers

Next ==
    /\ \/ \E c \in Numbers, v \in Blocks : Write(c, v)
       \/ \E c, d \in Numbers : c # d /\ (Move(c, d) \/ Swap(c, d))
       \/ Persist
       \/ Crash
       \/ Unspecified
    /\ UNCHANGED reliable

StoreSpec == Init /\ [][Next]_svars
=============================================================================
