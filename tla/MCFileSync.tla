------------------------------- MODULE MCFileSync -------------------------------
(***************************************************************************)
(* An instance of FileSync: the clients and the file server start with     *)
(* files of one length and different content; a transfer that breaks off   *)
(* leaves an empty one.                                                    *)
(***************************************************************************)
EXTENDS FileSync, TLC

CONSTANTS p1, p2  \* the two pieces

MCInit ==
    /\ Init
    /\ \A c \in Client, n \in Name : local[c][n] \in {Absent, <<p1, p2>>}
    /\ \A n \in Name : repo[n] \in {Absent, <<p2, p1>>}

MCSpec == MCInit /\ [][Next]_vars

ClientsAndNames == Permutations(Client) \cup Permutations(Name)

================================================================================
