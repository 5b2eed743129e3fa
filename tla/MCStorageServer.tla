--------------------------- MODULE MCStorageServer ---------------------------
(***************************************************************************)
(* Instances of StorageServer for TLC: the first client uploads as p1, the *)
(* second uploads or downloads as p1 or uploads as p2.                     *)
(***************************************************************************)
EXTENDS StorageServer

CONSTANTS s1, s2, p1, p2, u

TwoLogins ==
  [k \in Conn |->
     IF k = s1 THEN {<<"upload", p1>>}
     ELSE {<<"upload", p1>>, <<"download", p1>>, <<"upload", p2>>}]
=============================================================================
