---------------------------- MODULE StorageServer ----------------------------
(***************************************************************************)
(* The life of the storage server: its main thread accepts connections and *)
(* gives each a thread of ServerOptThd::Run, which serves one upload or    *)
(* download under the lock of its client id; CTRL-C stops it, and only     *)
(* then are the in-memory indexes written to files.                        *)
(*                                                                         *)
(* What lies on disk are recipes, containers and the index file.  A        *)
(* connection is one run of a client program; UploadPipeline and Restore   *)
(* have the threads of a session, here each upload is a sequence of chunks,*)
(* each recorded in the index at once, and its container becomes a file    *)
(* when the threads are joined.                                            *)
(***************************************************************************)
EXTENDS Integers, FiniteSets

CONSTANTS
  Conn,           \* connections: runs of client programs
  NoConn,
  Client,         \* client ids.  Each has one file here, and no two ids
                  \*   share a recipe
  NoClient,
  Logins,         \* the login messages that each client program may send:
                  \*   an operation and a client id
  Chunk,
  Garbage,        \* an index entry that was only partly in the file
  MaxDown         \* bound: how often the server goes down

ASSUME ServerAssumption ==
  /\ IsFiniteSet(Conn) /\ NoConn \notin Conn /\ Garbage \notin Conn
  /\ NoConn # Garbage
  /\ NoClient \notin Client
  /\ Logins \in [Conn -> SUBSET ({"upload", "download"} \X Client)]
  /\ MaxDown \in Nat

VARIABLES
  main,           \* the main thread: "accept", "push", "join", "close",
                  \*   or "down" for no process
  accepted,       \* the connection in its hands
  thd_list,       \* the connections whose threads it knows
  client,         \* the client programs
  at,             \* the session threads, by connection
  login,          \* the login message of a session: opt_type and client_id
  holder,         \* client_lck_idx_: the session that holds the mutex of each
                  \*   client id
  index,          \* fp_2_addr_db: whose container a chunk is in
  container,      \* the containers that are files: by connection
  recv,           \* of an upload: the chunks received, the recipe's end
  recipe,         \* the recipe file of each client id
  got,            \* the recipe that a download session has opened
  fp_file,        \* the file of the fp index: its entries, whether complete
  n_down,
  last,           \* history: the last upload of a client id that came to its end
  cut,            \* history: the client ids whose upload was cut off since
  died,           \* history: a client program died
  crashed,        \* history: the server crashed
  exited,         \* history: one of its threads called exit(EXIT_FAILURE)
  unlisted        \* history: CTRL-C came between a thread and its push_back

mainVars == <<main, accepted, thd_list>>
diskVars == <<container, recipe, fp_file>>
sessionVars == <<login, recv, got>>
historyVars == <<last, cut, died, crashed, exited, unlisted>>
vars == <<mainVars, client, at, holder, index, diskVars, sessionVars, n_down,
          historyVars>>

Absent == [exists |-> FALSE, complete |-> FALSE, chunks |-> {}]
Nothing == [chunks |-> {}, end |-> FALSE]
NoLogin == <<"none", NoClient>>
Uploads(k) == login[k][1] = "upload"
ClientId(k) == login[k][2]
EmptyIndex == [c \in Chunk |-> NoConn]

Init ==
  /\ main = "accept" /\ accepted = NoConn /\ thd_list = {}
  /\ client = [k \in Conn |-> "off"]
  /\ at = [k \in Conn |-> "off"]
  /\ login = [k \in Conn |-> NoLogin]
  /\ holder = [id \in Client |-> NoConn]
  /\ index = EmptyIndex
  /\ container = {}
  /\ recv = [k \in Conn |-> Nothing]
  /\ recipe = [id \in Client |-> Absent]
  /\ got = [k \in Conn |-> Absent]
  /\ fp_file = [entries |-> EmptyIndex, complete |-> TRUE]
  /\ n_down = 0
  /\ last = [id \in Client |-> Absent]
  /\ cut = {} /\ died = FALSE /\ crashed = FALSE /\ exited = FALSE /\ unlisted = FALSE

Up == main # "down"
Goto(k, place) == at' = [at EXCEPT ![k] = place]

-----------------------------------------------------------------------------
(* The process ends, by exit() in any of its threads, by a crash, or at    *)
(* the end of CTRLC.  Of a recipe that is being written the file has been  *)
(* truncated and may have any part of the batches that were written.       *)

Writing(id) == {k \in Conn : at[k] \in {"upload", "delete"} /\ ClientId(k) = id}
CutOff(id) ==
  {[exists |-> TRUE, complete |-> FALSE, chunks |-> S] :
     S \in SUBSET UNION {recv[k].chunks : k \in Writing(id)}}
RecipesLeft(id) == IF Writing(id) = {} THEN {recipe[id]} ELSE CutOff(id)

Ends(clients) ==
  /\ main' = "down" /\ accepted' = NoConn /\ thd_list' = {}
  /\ client' = [k \in Conn |-> IF clients[k] = "off" THEN "off" ELSE "gone"]
  /\ at' = [k \in Conn |-> IF clients[k] = "off" THEN "off" ELSE "end"]
  /\ holder' = [id \in Client |-> NoConn]
  /\ index' = EmptyIndex
  /\ recipe' \in {r \in [Client -> UNION {RecipesLeft(id) : id \in Client}] :
                    \A id \in Client : r[id] \in RecipesLeft(id)}
  /\ cut' = cut \cup {id \in Client : Writing(id) # {}}
  /\ n_down' = n_down + 1
  /\ login' = [k \in Conn |-> NoLogin]
  /\ recv' = [k \in Conn |-> Nothing] /\ got' = [k \in Conn |-> Absent]
  /\ UNCHANGED <<container, last, unlisted>>

ProcessEnds == Ends(client) /\ UNCHANGED died

Exit ==
  /\ ProcessEnds
  /\ exited' = TRUE
  /\ UNCHANGED <<fp_file, crashed>>

Crash ==
  /\ Up /\ n_down < MaxDown
  /\ ProcessEnds
  /\ crashed' = TRUE
  /\ UNCHANGED <<fp_file, exited>>

(* OpenDB.  The index file of a process that died while it wrote it has    *)
(* any of the entries, and of one more a part.                             *)
Garbled(entries) ==
  {[c \in Chunk |-> IF c \in S THEN entries[c] ELSE NoConn] : S \in SUBSET Chunk}
  \cup {[c \in Chunk |-> IF c = g THEN Garbage
                         ELSE IF c \in S THEN entries[c] ELSE NoConn] :
          g \in {h \in Chunk : entries[h] # NoConn}, S \in SUBSET Chunk}

(* Faulty variants: the end of the file is seen one entry too early, or    *)
(* only after an entry was read from what is behind it.                    *)
LoadedDropLast ==
  {[c \in Chunk |-> IF c = g THEN NoConn ELSE fp_file.entries[c]] : g \in Chunk}

LoadedTooFar ==
  {[c \in Chunk |-> IF c = g /\ fp_file.entries[c] # NoConn THEN Garbage
                                                            ELSE fp_file.entries[c]] :
     g \in Chunk}

Loaded == IF fp_file.complete THEN {fp_file.entries} ELSE Garbled(fp_file.entries)

Restart ==
  /\ ~Up /\ n_down <= MaxDown
  /\ main' = "accept"
  /\ index' \in Loaded
  /\ UNCHANGED <<accepted, thd_list, client, at, holder, diskVars, sessionVars,
                 n_down, historyVars>>

-----------------------------------------------------------------------------
(* The main thread.  ListenSSL accepts a connection and does the handshake,*)
(* and a thread is started; a client that dies in the handshake makes the  *)
(* server exit.                                                            *)

Accept(k) ==
  /\ main = "accept" /\ client[k] = "off"
  /\ main' = "push" /\ accepted' = k
  /\ client' = [client EXCEPT ![k] = "alive"]
  /\ Goto(k, "login")
  /\ UNCHANGED <<thd_list, holder, index, diskVars, sessionVars, n_down, historyVars>>

HandshakeFails(k) ==
  /\ main = "accept" /\ client[k] = "off"
  /\ Ends([client EXCEPT ![k] = "gone"])
  /\ died' = TRUE /\ exited' = TRUE
  /\ UNCHANGED <<fp_file, crashed>>

PushBack ==
  /\ main = "push"
  /\ main' = "accept" /\ accepted' = NoConn
  /\ thd_list' = thd_list \cup {accepted}
  /\ UNCHANGED <<client, at, holder, index, diskVars, sessionVars, n_down, historyVars>>

(* CTRLC, on the main thread: it joins the session threads it knows of,    *)
(* whatever they wait for, and then writes the index.                      *)
Interrupt ==
  /\ main \in {"accept", "push"} /\ n_down < MaxDown
  /\ main' = "join" /\ accepted' = NoConn
  /\ unlisted' = (unlisted \/ main = "push")
  /\ UNCHANGED <<thd_list, client, at, holder, index, diskVars, sessionVars, n_down,
                 last, cut, died, crashed, exited>>

(* A faulty variant: the threads are only asked whether they run.          *)
NobodyJoined(S) == TRUE
Joined(S) == \A k \in S : at[k] = "end"

(* ~InMemoryDatabase truncates the file before it writes it.               *)
OpenIndexFile ==
  /\ main = "join" /\ Joined(thd_list)
  /\ main' = "close"
  /\ fp_file' = [entries |-> index, complete |-> FALSE]
  /\ UNCHANGED <<accepted, thd_list, client, at, holder, index, container, recipe,
                 sessionVars, n_down, historyVars>>

CloseIndexFile ==
  /\ main = "close"
  /\ ProcessEnds
  /\ fp_file' = [fp_file EXCEPT !.complete = TRUE]
  /\ UNCHANGED <<crashed, exited>>

-----------------------------------------------------------------------------
(* A client program dies, at any moment.                                   *)
Die(k) ==
  /\ client[k] = "alive"
  /\ client' = [client EXCEPT ![k] = "gone"]
  /\ died' = TRUE
  /\ UNCHANGED <<mainVars, at, holder, index, diskVars, sessionVars, n_down, last, cut,
                 crashed, exited, unlisted>>

(* ReceiveData finds that the connection is closed: in an orderly way, for *)
(* which the client must have `said' all, or because it died.              *)
ClientCloses(k, said) ==
  /\ client[k] = "gone" \/ said
  /\ client' = [client EXCEPT ![k] = "gone"]

-----------------------------------------------------------------------------
(* ServerOptThd::Run *)

SessionOnly ==
  UNCHANGED <<mainVars, client, index, diskVars, n_down, historyVars>>

(* Sending to a client that is gone may fail, and then the server exits.   *)
SendFails(k) == client[k] # "alive" /\ Exit

(* A client program logs in for an upload or a download.  The default of   *)
(* the switch over msg_type, which exits with the lock held                *)
(* (server_opt_thd.cc:111-114), has no case here: SenderThd::UploadLogin   *)
(* and DataRetrieverThd::DownloadLogin send no other type.                 *)
RecvLogin(k, msg) ==
  /\ at[k] = "login"
  /\ \/ /\ client[k] = "alive"
        /\ login' = [login EXCEPT ![k] = msg]
        /\ Goto(k, "lock")
        /\ UNCHANGED <<holder, recv, got>>
        /\ SessionOnly
     \/ client[k] # "alive" /\ Exit

(* A faulty variant: the lock is taken if it is free, and passed if not.   *)
TryLock(k) ==
  /\ at[k] = "lock"
  /\ holder' = [holder EXCEPT ![ClientId(k)] = IF @ = NoConn THEN k ELSE @]
  /\ Goto(k, "check")
  /\ UNCHANGED sessionVars
  /\ SessionOnly

(* LockClientID: find or make the mutex, and lock it.                      *)
Lock(k) ==
  /\ at[k] = "lock" /\ holder[ClientId(k)] = NoConn
  /\ holder' = [holder EXCEPT ![ClientId(k)] = k]
  /\ Goto(k, "check")
  /\ UNCHANGED sessionVars
  /\ SessionOnly

(* CheckFileStat fails: SERVER_FILE_NON_EXIST, the close of the client, and*)
(* then the unlock.                                                        *)
Reject(k) ==
  /\ at[k] = "check"
  /\ ~Uploads(k) /\ ~recipe[ClientId(k)].exists
  /\ \/ /\ Goto(k, "rejected")
        /\ UNCHANGED <<holder, sessionVars>>
        /\ SessionOnly
     \/ SendFails(k)

(* A faulty variant: the early return without the unlock.                  *)
EndRejectedLocked(k) ==
  /\ at[k] = "rejected" /\ ClientCloses(k, TRUE)
  /\ Goto(k, "end")
  /\ UNCHANGED <<mainVars, holder, index, diskVars, sessionVars, n_down, historyVars>>

(* The client answers SERVER_FILE_NON_EXIST by exit                        *)
(* (data_retriever_thd.cc:214-217), so that ReceiveData finds the          *)
(* connection closed.  The exit for a client that sends something instead  *)
(* (server_opt_thd.cc:140-143) has no case here: no client program does.   *)
EndRejected(k) ==
  /\ at[k] = "rejected" /\ ClientCloses(k, TRUE)
  /\ Goto(k, "unlock")
  /\ UNCHANGED <<mainVars, holder, index, diskVars, sessionVars, n_down, historyVars>>

(* Otherwise, new ClientVar: an upload truncates the recipe and writes a   *)
(* head that says nothing yet, a download opens it; and the response.      *)
OpenRecipe(k) ==
  LET id == ClientId(k) IN
  /\ at[k] = "check"
  /\ \/ /\ Uploads(k)
        /\ Goto(k, "upload")
        /\ recipe' = [recipe EXCEPT ![id] =
                        [exists |-> TRUE, complete |-> FALSE, chunks |-> {}]]
        /\ UNCHANGED got
     \/ /\ ~Uploads(k) /\ recipe[id].exists
        /\ Goto(k, "download")
        /\ got' = [got EXCEPT ![k] = recipe[id]]
        /\ UNCHANGED recipe
  /\ UNCHANGED <<mainVars, client, holder, index, container, fp_file, login,
                 recv, n_down, historyVars>>

LoginResponseFails(k) ==
  /\ at[k] = "upload" /\ recv[k] = Nothing
  /\ SendFails(k)

(* The upload's threads: a chunk is in the index, or it gets into it with  *)
(* the container that this session is filling.                             *)
RecvChunk(k, c) ==
  /\ at[k] = "upload" /\ client[k] = "alive" /\ ~recv[k].end
  /\ c \notin recv[k].chunks
  /\ recv' = [recv EXCEPT ![k].chunks = @ \cup {c}]
  /\ index' = IF index[c] = NoConn THEN [index EXCEPT ![c] = k] ELSE index
  /\ UNCHANGED <<mainVars, client, at, holder, diskVars, login, got, n_down,
                 historyVars>>

(* ProcessRecipeEnd.                                                       *)
RecvRecipeEnd(k) ==
  /\ at[k] = "upload" /\ client[k] = "alive" /\ ~recv[k].end
  /\ recv' = [recv EXCEPT ![k].end = TRUE]
  /\ UNCHANGED <<at, holder, login, got>>
  /\ SessionOnly

(* The client has closed the connection, or it broke: either way the       *)
(* threads finish what they have, the last of them with SaveContainer.     *)
JoinUpload(k) ==
  /\ at[k] = "upload" /\ ClientCloses(k, recv[k].end)
  /\ Goto(k, "delete")
  /\ container' = container \cup {k}
  /\ UNCHANGED <<mainVars, holder, index, recipe, fp_file, sessionVars,
                 n_down, historyVars>>

(* delete cur_client closes the recipe, and with it the file has all that  *)
(* was written to it; the fps of an incomplete batch are written only by   *)
(* ProcessRecipeEnd.                                                       *)
DeleteVar(k) ==
  LET id == ClientId(k)
      whole == [exists |-> TRUE, complete |-> TRUE, chunks |-> recv[k].chunks]
  IN
  /\ at[k] = "delete"
  /\ Goto(k, "unlock")
  /\ \/ /\ recv[k].end
        /\ recipe' = [recipe EXCEPT ![id] = whole]
        /\ last' = [last EXCEPT ![id] = whole]
        /\ cut' = cut \ {id}
     \/ /\ ~recv[k].end
        /\ \E S \in SUBSET recv[k].chunks :
             recipe' = [recipe EXCEPT ![id] =
                          [exists |-> TRUE, complete |-> FALSE, chunks |-> S]]
        /\ cut' = cut \cup {id}
        /\ UNCHANGED last
  /\ UNCHANGED <<mainVars, client, holder, index, container, fp_file, sessionVars,
                 n_down, died, crashed, exited, unlisted>>

(* The download's threads: a chunk that the index does not know, or a      *)
(* client that is gone, stops the server.                                  *)
SendFile(k) ==
  /\ at[k] = "download"
  /\ \/ /\ \A c \in got[k].chunks : index[c] # NoConn
        /\ Goto(k, "sent")
        /\ UNCHANGED <<holder, sessionVars>>
        /\ SessionOnly
     \/ /\ \E c \in got[k].chunks : index[c] \in {NoConn, Garbage}
        /\ Exit
     \/ SendFails(k)

EndDownload(k) ==
  /\ at[k] = "sent" /\ ClientCloses(k, TRUE)
  /\ Goto(k, "unlock")
  /\ UNCHANGED <<mainVars, holder, index, diskVars, sessionVars, n_down, historyVars>>

(* UnlockClientID, at the end of Run.                                      *)
Unlock(k) ==
  /\ at[k] = "unlock"
  /\ holder' = [holder EXCEPT ![ClientId(k)] = NoConn]
  /\ Goto(k, "end")
  /\ login' = [login EXCEPT ![k] = NoLogin]
  /\ recv' = [recv EXCEPT ![k] = Nothing]
  /\ got' = [got EXCEPT ![k] = Absent]
  /\ SessionOnly

-----------------------------------------------------------------------------

Session(k) ==
  \/ \E msg \in Logins[k] : RecvLogin(k, msg)
  \/ Lock(k) \/ Reject(k) \/ EndRejected(k)
  \/ OpenRecipe(k) \/ LoginResponseFails(k) \/ RecvRecipeEnd(k)
  \/ \E c \in Chunk : RecvChunk(k, c)
  \/ JoinUpload(k) \/ DeleteVar(k) \/ SendFile(k) \/ EndDownload(k) \/ Unlock(k)

MainThread == PushBack \/ OpenIndexFile \/ CloseIndexFile

Next ==
  \/ Up /\ (\E k \in Conn : Accept(k) \/ HandshakeFails(k) \/ Session(k))
  \/ Up /\ (MainThread \/ Interrupt)
  \/ \E k \in Conn : Die(k)
  \/ Crash \/ Restart

Spec == Init /\ [][Next]_vars

(* Every thread that can go on goes on; a client program comes to its end, *)
(* so that ReceiveData returns.                                            *)
Fairness ==
  /\ WF_vars(Up /\ MainThread)
  /\ \A k \in Conn : WF_vars(Up /\ Session(k))

FairSpec == Spec /\ Fairness

-----------------------------------------------------------------------------
(* Properties *)

Place == {"off", "login", "lock", "check", "rejected", "upload",
          "delete", "download", "sent", "unlock", "end"}
Recipe == [exists : BOOLEAN, complete : BOOLEAN, chunks : SUBSET Chunk]
Index == [Chunk -> Conn \cup {NoConn, Garbage}]

(* The shape of the state (ServerOptThd, server_main.cc): in particular a  *)
(* session that has gone past LockClientID holds the lock of its client id *)
(* until it unlocks it, and nobody else does.                              *)
LockedPlaces == {"check", "rejected", "upload", "delete", "download", "sent", "unlock"}
TypeOK ==
  /\ main \in {"accept", "push", "join", "close", "down"}
  /\ accepted \in Conn \cup {NoConn} /\ (main = "push" => accepted \in Conn)
  /\ thd_list \subseteq Conn
  /\ client \in [Conn -> {"off", "alive", "gone"}]
  /\ at \in [Conn -> Place]
  /\ login \in [Conn -> ({"upload", "download"} \X Client) \cup {NoLogin}]
  /\ holder \in [Client -> Conn \cup {NoConn}]
  /\ index \in Index /\ fp_file \in [entries : Index, complete : BOOLEAN]
  /\ container \subseteq Conn
  /\ recv \in [Conn -> [chunks : SUBSET Chunk, end : BOOLEAN]]
  /\ recipe \in [Client -> Recipe] /\ got \in [Conn -> Recipe]
  /\ last \in [Client -> Recipe] /\ cut \subseteq Client
  /\ n_down \in Nat
  /\ {died, crashed, exited, unlisted} \subseteq BOOLEAN

(* At most one session of a client id is between LockClientID and          *)
(* UnlockClientID, and it is the one that holds the mutex                  *)
(* (server_opt_thd.cc:92: "ensure only one client with the same id").      *)
OneSessionPerId ==
  \A k \in Conn : at[k] \in LockedPlaces => holder[ClientId(k)] = k

(* What a download has opened is, to its end, the whole recipe of the last *)
(* upload that came to its end, unless an upload after that was cut off by *)
(* the death of its client or of the server: the unlock comes after the    *)
(* recipe is closed, and no upload truncates it meanwhile.                 *)
ServesLastUpload ==
  \A k \in Conn : at[k] \in {"download", "sent"} =>
    LET id == ClientId(k) IN
    /\ got[k] = recipe[id]
    /\ got[k] = last[id] \/ id \in cut

(* An entry of the fp index, and of its file, leads to a container that is *)
(* a file, or will be one when the session that fills it is joined.  Since *)
(* CTRLC joins all sessions before it stores the index, this outlives every*)
(* stop and crash; only a session CTRLC did not know of is an exception,   *)
(* and the garbled entry of a file that was not completely written.        *)
Filling(k) == at[k] = "upload"
IndexLeadsToContainers ==
  /\ ~unlisted => \A c \in Chunk :
       /\ index[c] \in {NoConn, Garbage} \cup container \cup {k \in Conn : Filling(k)}
       /\ fp_file.entries[c] \in {NoConn, Garbage} \cup container
  /\ \A c \in Chunk : index[c] = Garbage => crashed \/ exited

(* The inductive invariant of StorageServerProofs, TypeOK and the above    *)
(* with what they need: a client has a session only when it runs; a session*)
(* past its login message has a client id; without a writer the recipe is  *)
(* what the last upload left; the main thread knows every session, and none*)
(* is left when there is no process, or when it writes the index; and a    *)
(* file of the index is incomplete, or has a garbled entry, only if a      *)
(* process died.                                                           *)
Begun == \A k \in Conn : client[k] = "off" => at[k] = "off"
LoggedIn ==
  \A k \in Conn : at[k] \in LockedPlaces \cup {"lock"} =>
    login[k] \in {"upload", "download"} \X Client
RecipeIsLast ==
  \A id \in Client : Writing(id) = {} => recipe[id] = last[id] \/ id \in cut
Idle(k) == at[k] \in {"off", "end"}
Listed ==
  Up /\ ~unlisted => \A k \in Conn :
    Idle(k) \/ k \in thd_list \/ (main = "push" /\ k = accepted)
NoneLeft ==
  main = "down" \/ (main = "close" /\ ~unlisted) => \A k \in Conn : Idle(k)
FileWhole ==
  /\ ~fp_file.complete => main = "close" \/ crashed \/ exited
  /\ \A c \in Chunk : fp_file.entries[c] = Garbage => crashed \/ exited

IInv ==
  /\ TypeOK /\ Begun /\ LoggedIn /\ OneSessionPerId
  /\ RecipeIsLast /\ ServesLastUpload
  /\ Listed /\ NoneLeft /\ FileWhole /\ IndexLeadsToContainers

(* As long as every process stored its index before it ended, every chunk  *)
(* of every complete recipe is in the index, also after restarts.          *)
KnownIndex == IF Up THEN index ELSE fp_file.entries
NothingForgotten ==
  ~crashed /\ ~exited /\ ~unlisted =>
    \A id \in Client : recipe[id].complete =>
      \A c \in recipe[id].chunks : KnownIndex[c] # NoConn

(* No thread calls exit() unless a client died, or chunks were forgotten   *)
(* because a process ended without storing its index.                      *)
ExitHasCause == exited => died \/ crashed \/ unlisted

(* What these two need besides IInv: the index has what was received, and  *)
(* CTRLC stores all of it; a client is gone before the end of its session, *)
(* and an upload without its recipe end, only if it died; and a recipe     *)
(* that has some of the chunks of an upload has all, or has a reason.      *)
ReceivedKnown == \A k \in Conn : \A c \in recv[k].chunks : Up /\ index[c] # NoConn
AllStored == main = "close" /\ ~unlisted => fp_file.entries = index
GoneHasCause ==
  ~died => \A k \in Conn :
    /\ client[k] = "gone" => at[k] \in {"delete", "unlock", "end"}
    /\ at[k] = "delete" => recv[k].end
PartHasCause ==
  \A id \in Client :
    recipe[id].complete \/ recipe[id].chunks = {} \/ died \/ crashed \/ unlisted

KInv ==
  /\ NothingForgotten /\ ReceivedKnown /\ AllStored
  /\ ExitHasCause /\ GoneHasCause /\ PartHasCause

(* Nobody waits for ever.  A client that logs in is served, or rejected, to*)
(* the end of its session, even if it has to wait for others with its      *)
(* client id, unless the server goes down; and CTRL-C, which joins all     *)
(* sessions it knows of, comes to the end of the process.                  *)
WaitsEnd ==
  /\ \A k \in Conn : at[k] = "login" ~> at[k] = "end"
  /\ main = "join" ~> main = "down"
=============================================================================
