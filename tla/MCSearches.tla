------------------------------ MODULE MCSearches ------------------------------
(* Every table of free and used clusters, with a bad one or with none, and *)
(* every order of the clusters of a file.                                  *)
EXTENDS Searches

MCLast == 6
MCMaxLength == 5

Marked == [Clusters -> {FAT_UNUSED, FAT_EOF}]
WithBad == {[t EXCEPT ![c] = FAT_BAD] : t \in Marked, c \in Clusters}

(* A chain over some of the clusters: an injective order of them.          *)
Orders == {p \in [1 .. 5 -> Clusters] :
              p[1] \in {3, 5} /\ \A i, j \in 1 .. 5 : p[i] = p[j] => i = j}
Chain(p, n) ==
    [c \in Clusters |->
        IF \E i \in 1 .. n - 1 : p[i] = c
        THEN p[(CHOOSE i \in 1 .. n - 1 : p[i] = c) + 1]
        ELSE IF p[n] = c THEN FAT_EOF ELSE FAT_UNUSED]

MCTables == Marked \cup WithBad \cup {Chain(p, 5) : p \in Orders}
=============================================================================
