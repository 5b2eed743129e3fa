------------------------------- MODULE MCRestore -------------------------------
(***************************************************************************)
(* Instances of Restore for TLC.  Chunks u, v and w have one key, x has    *)
(* another.  Client p2's file shares v with p1's.                          *)
(***************************************************************************)
EXTENDS Restore

CONSTANTS u, v, w, x, k1, k2, p1, p2

Keys2 == [c \in Chunk |-> IF c = x THEN k2 ELSE k1]

Of(f1, f2) == [cl \in Client |-> IF cl = p1 THEN f1 ELSE f2]
SharedVersions == {Of(<< <<u, v>>, <<v, w, x>> >>, <<>>),
                   Of(<< <<u, x>> >>, << <<u>> >>),
                   Of(<< <<u>> >>, << <<u, v>> >>)}
=============================================================================
