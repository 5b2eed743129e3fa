---------------------------- MODULE ContainerStore ----------------------------
(***************************************************************************)
(* Containers (server/storage_core.cc): every upload session fills one at  *)
(* a time in memory and writes it to a file of its own when the next chunk *)
(* does not fit, or at its end.  A container is a sequence of stored       *)
(* chunks; where a chunk is, is the container's id and an offset.          *)
(***************************************************************************)
EXTENDS Sequences, Integers, FiniteSets

CONSTANTS
  Client,          \* client ids
  ContainerSize    \* MAX_CONTAINER_SIZE, in chunks

ASSUME ContainerAssumption ==
  /\ IsFiniteSet(Client)
  /\ ContainerSize \in Nat \ {0}

VARIABLES
  saved,        \* the container files of each client id, in order
  cur,          \* ClientVar::_cur_container, the one being filled
  opened        \* its file has been created and is not completely written

containerVars == <<saved, cur, opened>>

ContainerId == Client \X (Nat \ {0})

ContainerTypeOK(Item) ==
  /\ saved \in [Client -> Seq(Seq(Item))]
  /\ cur \in [Client -> Seq(Item)]
  /\ \A cl \in Client : Len(cur[cl]) <= ContainerSize
  /\ opened \in [Client -> BOOLEAN]

ContainerInit ==
  /\ saved = [cl \in Client |-> <<>>]
  /\ cur = [cl \in Client |-> <<>>]
  /\ opened = [cl \in Client |-> FALSE]

(* CreateUUID: an id nobody has used.                                      *)
CurId(cl) == <<cl, Len(saved[cl]) + 1>>

IsSaved(id) == id[2] <= Len(saved[id[1]])
IsOpened(id) == id = CurId(id[1]) /\ opened[id[1]]

(* What a reader of the file finds: all of it, or however much of it is    *)
(* there yet; nothing at all if there is no file.                          *)
FileBytes(id) ==
  IF IsSaved(id) THEN {saved[id[1]][id[2]]}
  ELSE IF IsOpened(id) THEN {SubSeq(cur[id[1]], 1, k) : k \in 0 .. Len(cur[id[1]])}
  ELSE {}

(* Faulty variants, named for their fault, show that a property notices it.*)
HasRoomForOneMore(cl) == Len(cur[cl]) <= ContainerSize

HasRoom(cl) == Len(cur[cl]) < ContainerSize

(* WriteChunk, once there is room, and the address it fills in.            *)
AddItem(cl, item) ==
  /\ HasRoom(cl)
  /\ cur' = [cur EXCEPT ![cl] = Append(@, item)]
  /\ UNCHANGED <<saved, opened>>

OffsetAfterwards(cl) == Len(cur[cl]) + 2
NextOffset(cl) == Len(cur[cl]) + 1

(* SaveContainer creates the file, then writes it; the next container is   *)
(* filled from its start.                                                  *)
OpenFile(cl) ==
  /\ ~opened[cl]
  /\ opened' = [opened EXCEPT ![cl] = TRUE]
  /\ UNCHANGED <<saved, cur>>

CloseFile(cl) ==
  /\ opened[cl]
  /\ saved' = [saved EXCEPT ![cl] = Append(@, cur[cl])]
  /\ cur' = [cur EXCEPT ![cl] = <<>>]
  /\ opened' = [opened EXCEPT ![cl] = FALSE]
=============================================================================
