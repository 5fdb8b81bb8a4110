------------------------------ MODULE MCCommands ------------------------------
(* Filesystems of six clusters with a root directory of one or two, full   *)
(* or not, and commands on their files.                                    *)
EXTENDS Commands

MCLast == 7
MCSlots == 2
MCBytes == 2
MCPerSector == 4

(* What is in a free cluster looks like a directory.                       *)
Junk == [entries |-> [i \in Indices |-> [File("z") EXCEPT !.first = 3]],
         data |-> <<"old", 0>>]

(* A filesystem with these files (name, chain, size), then deleted ones    *)
(* (name, first cluster, size) in its directory.                           *)
Image(root, files, gone, from) ==
    LET chains == {root} \cup {files[j][2] : j \in DOMAIN files}
        entry(j) ==
          IF j \in DOMAIN files
          THEN [File(files[j][1]) EXCEPT
                  !.first = IF files[j][2] = <<>> THEN FAT_UNUSED ELSE files[j][2][1],
                  !.size = files[j][3]]
          ELSE IF j - Len(files) \in DOMAIN gone
          THEN LET old == gone[j - Len(files)]
               IN  [File(old[1]) EXCEPT
                      !.state = "deleted", !.first = old[2], !.size = old[3]]
          ELSE EndEntry
        with(c) == {chain \in chains : c \in ClustersOf(chain)}
        of(c)   == CHOOSE chain \in with(c) : TRUE
        place(c) == CHOOSE k \in DOMAIN of(c) : of(c)[k] = c
    IN  [table |-> [c \in Clusters |->
            IF with(c) = {} THEN FAT_UNUSED
            ELSE IF place(c) = Len(of(c)) THEN FAT_EOF ELSE of(c)[place(c) + 1]],
         block |-> [c \in Clusters |->
            IF with(c) = {} THEN Junk
            ELSE IF of(c) = root
            THEN DirBlock([i \in Indices |-> entry((place(c) - 1) * Slots + i + 1)])
            ELSE DataBlock(files[CHOOSE j \in DOMAIN files : files[j][2] = of(c)][1],
                           place(c))],
         last |-> from]

(* One with a directory that is not empty.                                 *)
WithDirectory ==
    [Image(<<2>>, << <<"a", <<3>>, 1>>, <<"n", <<5>>, 0>> >>, << >>, 2) EXCEPT
       !.block[2].entries[1].dir = TRUE,
       !.block[5] = DirBlock(0 :> Dir(".", 5) @@ 1 :> File("y"))]

MCImages == {
    WithDirectory,
    Image(<<2>>, << <<"a", <<3, 5>>, 3>> >>, << >>, 2),
    Image(<<2>>, << <<"a", <<3, 4>>, 4>>, <<"b", <<6>>, 1>> >>, << >>, 6),
    Image(<<2>>, << <<"a", <<4, 5, 6>>, 6>>, <<"b", <<>>, 0>> >>, << >>, 7),
    Image(<<2, 7>>, << <<"a", <<3>>, 2>>, <<"b", <<5, 4>>, 4>> >>, << <<"x", 4, 3>> >>, 4),
    Image(<<2, 4>>, << <<"b", <<7>>, 1>> >>, << <<"a", 3, 2>>, <<"x", 7, 2>> >>, 3)}

Default == [command |-> "", file |-> "", other |-> "", size |-> 0, cluster |-> 0,
            next |-> 0, option |-> "", begin |-> FAT_FIRST, end |-> Last]
R(cmd, name, args) == [command |-> cmd, file |-> name] @@ args @@ Default

MCRequests ==
    {R("writefile", "n", [size |-> k]) : k \in {0, 2, 3}}
    \cup {R("writefile", "n", [size |-> 3, begin |-> 6, end |-> 4]),
          R("writefile", "a", [size |-> 1]),
          R("deletefile", "a", <<>>), R("deletefile", "b", <<>>),
          R("deletefile", "n", [option |-> "dir"]), R("deletefile", "n", [option |-> "force"]), R("deletefile", "n", <<>>),
          R("deletefile", "a", [option |-> "erase"]),
          R("undelete", "a", <<>>), R("undelete", "b", <<>>), R("undelete", "x", <<>>),
          R("recover", "a", <<>>), R("recover", "b", <<>>),
          R("delete", "a", <<>>),
          R("overwrite", "a", [size |-> 3, option |-> "immediate"]),
          R("overwrite", "a", [size |-> 4]), R("overwrite", "a", [size |-> 4, option |-> "test"]),
          R("consecutive", "n", [size |-> 3]), R("consecutive", "n", [size |-> 2]),
          R("consecutive", "n", [size |-> 6, begin |-> 6, end |-> 4]),
          R("mkdir", "n", <<>>), R("mkdir", "n", [begin |-> 5, end |-> 5]),
          R("crop", "a", [size |-> 2, option |-> "free"]),
          R("crop", "a", [size |-> -1, option |-> "free"]),
          R("crop", "b", [size |-> 1, option |-> "leave"]),
          R("extend", "a", [size |-> 0]), R("extend", "a", [size |-> 2]),
          R("extend", "a", [size |-> 6]), R("extend", "b", [size |-> 3]),
          R("concat", "a", [other |-> "b"]), R("concat", "b", [other |-> "a"]),
          R("link", "a", [other |-> "n", cluster |-> 1]), R("link", "b", [other |-> "n"]),
          R("createchain", "", [size |-> 3]), R("createchain", "", [size |-> 3, cluster |-> 5]),
          R("createchain", "", [size |-> 2, cluster |-> 7]),
          R("setname", "a", [other |-> "n"]), R("setsize", "a", [size |-> 1]),
          R("setfirst", "b", [cluster |-> 4]),
          R("setnext", "", [cluster |-> 4, next |-> FAT_EOF]),
          R("setnext", "", [cluster |-> 3, next |-> 5]),
          R("write", "", [cluster |-> 5]), R("bad", "", [cluster |-> 5, next |-> 6]),
          R("last", "", [cluster |-> 5]), R("zero", "", <<>>), R("sparse", "", <<>>)}
=============================================================================
