------------------------ MODULE StorageServerProofs ------------------------
(***************************************************************************)
(* Proofs about StorageServer, for every set of connections, client ids    *)
(* and chunks and every order of starts, stops and crashes: the locks of   *)
(* the client ids, what a download reads, and where the fp index leads.    *)
(***************************************************************************)
EXTENDS StorageServer, TLAPS

(* All that a definition of the module's state and shape stands for.       *)
LEMMA LoginInClient ==
  ASSUME LoggedIn, NEW k \in Conn, at[k] \in LockedPlaces \cup {"lock"}
  PROVE  ClientId(k) \in Client
BY DEF LoggedIn, ClientId

LEMMA InitIInv == ASSUME Init PROVE IInv
<1> USE ServerAssumption DEF Init
<1>1. TypeOK
  BY DEF TypeOK, NoLogin, EmptyIndex, Nothing, Absent, Index, Recipe, Place
<1>2. Begun /\ LoggedIn /\ OneSessionPerId
  BY DEF Begun, LoggedIn, OneSessionPerId, LockedPlaces
<1>3. RecipeIsLast /\ ServesLastUpload
  BY DEF RecipeIsLast, ServesLastUpload
<1>4. Listed /\ NoneLeft /\ FileWhole
  BY DEF Listed, NoneLeft, FileWhole, Idle, EmptyIndex
<1>5. IndexLeadsToContainers
  BY DEF IndexLeadsToContainers, EmptyIndex
<1> QED BY <1>1, <1>2, <1>3, <1>4, <1>5 DEF IInv

(* The end of the process, however it comes.                               *)
LEMMA EndsStep ==
  ASSUME IInv, NEW clients \in [Conn -> {"off", "alive", "gone"}], Ends(clients),
         {died', crashed', exited'} \subseteq BOOLEAN,
         crashed => crashed', exited => exited',
         \/ fp_file' = fp_file /\ (crashed' \/ exited')
         \/ main = "close" /\ fp_file' = [fp_file EXCEPT !.complete = TRUE]
  PROVE  IInv'
<1> USE ServerAssumption
<1>1. \A k \in Conn : at'[k] \in {"off", "end"}
  BY DEF Ends
<1>2. recipe' \in [Client -> Recipe]
  <2>1. ASSUME NEW id \in Client PROVE RecipesLeft(id) \subseteq Recipe
    <3>1. UNION {recv[k].chunks : k \in Writing(id)} \subseteq Chunk
      BY DEF IInv, TypeOK, Writing
    <3>2. CutOff(id) \subseteq Recipe
      <4>1. ASSUME NEW S \in SUBSET UNION {recv[k].chunks : k \in Writing(id)}
            PROVE  [exists |-> TRUE, complete |-> FALSE, chunks |-> S] \in Recipe
        BY <3>1, S \subseteq Chunk DEF Recipe
      <4> QED BY <4>1 DEF CutOff
    <3> QED BY <3>2 DEF RecipesLeft, IInv, TypeOK
  <2> QED BY <2>1 DEF Ends
<1>3. fp_file' \in [entries : Index, complete : BOOLEAN] /\ fp_file'.entries = fp_file.entries
  BY DEF IInv, TypeOK
<1>4. TypeOK'
  <2>1. main' = "down" /\ accepted' = NoConn /\ thd_list' = {}
    BY DEF Ends
  <2>2. client' \in [Conn -> {"off", "alive", "gone"}] /\ at' \in [Conn -> Place]
    BY DEF Ends, Place
  <2>3. /\ login' \in [Conn -> ({"upload", "download"} \X Client) \cup {NoLogin}]
        /\ holder' \in [Client -> Conn \cup {NoConn}]
        /\ index' \in Index
    BY DEF Ends, EmptyIndex, Index
  <2>4. recv' \in [Conn -> [chunks : SUBSET Chunk, end : BOOLEAN]] /\ got' \in [Conn -> Recipe]
    BY DEF Ends, Nothing, Absent, Recipe
  <2>5. /\ last' \in [Client -> Recipe] /\ cut' \subseteq Client /\ n_down' \in Nat
        /\ container' \subseteq Conn
        /\ {died, crashed, exited, unlisted}' \subseteq BOOLEAN
    BY DEF Ends, IInv, TypeOK
  <2> QED BY <1>2, <1>3, <2>1, <2>2, <2>3, <2>4, <2>5 DEF TypeOK
<1>10. Begun'
  BY DEF Ends, Begun
<1>5. (LoggedIn /\ OneSessionPerId /\ ServesLastUpload)'
  BY <1>1 DEF LoggedIn, OneSessionPerId, ServesLastUpload, LockedPlaces
<1>6. RecipeIsLast'
  <2>1. ASSUME NEW id \in Client, id \notin cut' PROVE recipe'[id] = last'[id]
    <3>1. Writing(id) = {}
      BY <2>1 DEF Ends
    <3>2. RecipesLeft(id) = {recipe[id]} /\ id \notin cut
      BY <2>1, <3>1 DEF Ends, RecipesLeft
    <3> QED BY <3>1, <3>2, <2>1 DEF Ends, IInv, RecipeIsLast
  <2> QED BY <2>1 DEF RecipeIsLast
<1>7. (Listed /\ NoneLeft)'
  BY <1>1 DEF Ends, Listed, NoneLeft, Idle, Up
<1>8. FileWhole'
  BY <1>3 DEF IInv, TypeOK, FileWhole
<1>9. IndexLeadsToContainers'
  BY <1>3 DEF Ends, IInv, IndexLeadsToContainers, EmptyIndex
<1> QED BY <1>4, <1>5, <1>6, <1>7, <1>8, <1>9, <1>10 DEF IInv

LEMMA ProcessStep ==
  ASSUME IInv PROVE Exit \/ Crash \/ CloseIndexFile => IInv'
<1> USE ServerAssumption
<1>1. ASSUME Exit PROVE IInv'
  BY <1>1, EndsStep DEF Exit, ProcessEnds, IInv, TypeOK
<1>2. ASSUME Crash PROVE IInv'
  BY <1>2, EndsStep DEF Crash, ProcessEnds, IInv, TypeOK
<1>3. ASSUME CloseIndexFile PROVE IInv'
  BY <1>3, EndsStep DEF CloseIndexFile, ProcessEnds, IInv, TypeOK
<1> QED BY <1>1, <1>2, <1>3

LEMMA HandshakeStep ==
  ASSUME IInv, NEW k \in Conn, HandshakeFails(k) PROVE IInv'
<1>1. [client EXCEPT ![k] = "gone"] \in [Conn -> {"off", "alive", "gone"}]
  BY DEF IInv, TypeOK
<1> QED BY <1>1, EndsStep DEF HandshakeFails, IInv, TypeOK

-----------------------------------------------------------------------------
(* The main thread, and what is outside of it.                             *)

LEMMA RestartStep == ASSUME IInv, Restart PROVE IInv'
<1> USE ServerAssumption
<1>1. index' \in Index /\ \A c \in Chunk : index'[c] \in {NoConn, Garbage, fp_file.entries[c]}
  BY DEF Restart, Loaded, Garbled, Index, IInv, TypeOK
<1>2. \A c \in Chunk : index'[c] = Garbage => crashed \/ exited
  BY <1>1 DEF Restart, Loaded, IInv, FileWhole, Up
<1>3. TypeOK'
  BY <1>1 DEF Restart, IInv, TypeOK, mainVars, diskVars, sessionVars, historyVars
<1>4. (Begun /\ LoggedIn /\ OneSessionPerId /\ ServesLastUpload /\ RecipeIsLast)'
  BY DEF Restart, IInv, Begun, LoggedIn, OneSessionPerId, ServesLastUpload, RecipeIsLast, ClientId,
         Writing, diskVars, sessionVars, historyVars
<1>5. (Listed /\ NoneLeft /\ FileWhole)'
  BY DEF Restart, IInv, Listed, NoneLeft, FileWhole, Idle, Up, diskVars, historyVars
<1>6. IndexLeadsToContainers'
  BY <1>1, <1>2 DEF Restart, IInv, IndexLeadsToContainers, Filling, diskVars, historyVars
<1> QED BY <1>3, <1>4, <1>5, <1>6 DEF IInv

(* What the main thread and a client do alone leaves sessions and files as *)
(* they are.                                                               *)
LEMMA SessionsUntouched ==
  ASSUME IInv, UNCHANGED <<at, holder, recipe, login, got, last, cut>>
  PROVE  (LoggedIn /\ OneSessionPerId /\ ServesLastUpload /\ RecipeIsLast)'
BY DEF IInv, LoggedIn, OneSessionPerId, ServesLastUpload, RecipeIsLast, ClientId, Writing

LEMMA PushBackStep == ASSUME IInv, PushBack PROVE IInv'
<1> USE ServerAssumption DEF PushBack
<1>1. TypeOK'
  BY DEF IInv, TypeOK, sessionVars, diskVars, historyVars
<1>2. (Begun /\ LoggedIn /\ OneSessionPerId /\ ServesLastUpload /\ RecipeIsLast)'
  BY SessionsUntouched DEF IInv, TypeOK, Begun, sessionVars, diskVars, historyVars
<1>3. (Listed /\ NoneLeft)'
  BY DEF IInv, Listed, NoneLeft, Idle, Up, historyVars
<1>4. (FileWhole /\ IndexLeadsToContainers)'
  BY DEF IInv, FileWhole, IndexLeadsToContainers, Filling, diskVars, historyVars
<1> QED BY <1>1, <1>2, <1>3, <1>4 DEF IInv

LEMMA InterruptStep == ASSUME IInv, Interrupt PROVE IInv'
<1> USE ServerAssumption DEF Interrupt
<1>1. TypeOK'
  BY DEF IInv, TypeOK, sessionVars, diskVars
<1>2. (Begun /\ LoggedIn /\ OneSessionPerId /\ ServesLastUpload /\ RecipeIsLast)'
  BY SessionsUntouched DEF IInv, TypeOK, Begun, sessionVars, diskVars
<1>3. (Listed /\ NoneLeft)'
  BY DEF IInv, TypeOK, Listed, NoneLeft, Idle, Up
<1>4. (FileWhole /\ IndexLeadsToContainers)'
  BY DEF IInv, TypeOK, FileWhole, IndexLeadsToContainers, Filling, diskVars
<1> QED BY <1>1, <1>2, <1>3, <1>4 DEF IInv

LEMMA OpenIndexFileStep == ASSUME IInv, OpenIndexFile PROVE IInv'
<1> USE ServerAssumption DEF OpenIndexFile
<1>1. TypeOK'
  BY DEF IInv, TypeOK, sessionVars, historyVars
<1>2. (Begun /\ LoggedIn /\ OneSessionPerId /\ ServesLastUpload /\ RecipeIsLast)'
  BY SessionsUntouched DEF IInv, TypeOK, Begun, sessionVars, historyVars
<1>3. ~unlisted => \A k \in Conn : Idle(k)
  BY DEF IInv, Listed, Idle, Up, Joined
<1>4. (Listed /\ NoneLeft)'
  BY <1>3 DEF Listed, NoneLeft, Idle, Up, historyVars
<1>5. FileWhole'
  BY DEF IInv, FileWhole, IndexLeadsToContainers, historyVars
<1>6. IndexLeadsToContainers'
  BY <1>3 DEF IInv, IndexLeadsToContainers, Filling, Idle, historyVars
<1> QED BY <1>1, <1>2, <1>4, <1>5, <1>6 DEF IInv

LEMMA DieStep == ASSUME IInv, NEW k \in Conn, Die(k) PROVE IInv'
<1> USE ServerAssumption DEF Die
<1>1. TypeOK'
  BY DEF IInv, TypeOK, mainVars, sessionVars, diskVars
<1>2. (Begun /\ LoggedIn /\ OneSessionPerId /\ ServesLastUpload /\ RecipeIsLast)'
  BY SessionsUntouched DEF IInv, TypeOK, Begun, sessionVars, diskVars
<1>3. (Listed /\ NoneLeft)'
  BY DEF IInv, Listed, NoneLeft, Idle, Up, mainVars
<1>4. (FileWhole /\ IndexLeadsToContainers)'
  BY DEF IInv, FileWhole, IndexLeadsToContainers, Filling, mainVars, diskVars
<1> QED BY <1>1, <1>2, <1>3, <1>4 DEF IInv


LEMMA AcceptStep == ASSUME IInv, NEW k \in Conn, Accept(k) PROVE IInv'
<1> USE ServerAssumption DEF Accept
<1>1. at[k] = "off" /\ at' = [at EXCEPT ![k] = "login"]
  BY DEF IInv, Begun, Goto
<1>2. TypeOK'
  BY DEF IInv, TypeOK, Goto, Place, sessionVars, diskVars, historyVars
<1>3. (Begun /\ LoggedIn /\ OneSessionPerId)'
  BY <1>1 DEF IInv, TypeOK, Begun, LoggedIn, OneSessionPerId, LockedPlaces, ClientId, sessionVars
<1>4. (ServesLastUpload /\ RecipeIsLast)'
  BY <1>1 DEF IInv, TypeOK, ServesLastUpload, RecipeIsLast, Writing, ClientId, sessionVars,
              diskVars, historyVars
<1>5. (Listed /\ NoneLeft)'
  BY <1>1 DEF IInv, TypeOK, Listed, NoneLeft, Idle, Up, historyVars
<1>6. (FileWhole /\ IndexLeadsToContainers)'
  BY <1>1 DEF IInv, TypeOK, FileWhole, IndexLeadsToContainers, Filling, diskVars, historyVars
<1> QED BY <1>2, <1>3, <1>4, <1>5, <1>6 DEF IInv

-----------------------------------------------------------------------------
(* The sessions.  A session that does a step is known to the main thread,  *)
(* and there is a process.                                                 *)

LEMMA ListedStep ==
  ASSUME IInv, NEW k \in Conn, NEW place, ~Idle(k), at' = [at EXCEPT ![k] = place],
         UNCHANGED <<mainVars, unlisted>>
  PROVE  (Listed /\ NoneLeft)'
BY DEF IInv, TypeOK, Listed, NoneLeft, Idle, Up, mainVars

(* A step that neither touches what lies on disk nor the index keeps all   *)
(* that is said of them.                                                   *)
LEMMA DiskStep ==
  ASSUME IInv, NEW k \in Conn, NEW place, at[k] # "upload", at' = [at EXCEPT ![k] = place],
         UNCHANGED <<main, index, container, fp_file, crashed, exited, unlisted>>
  PROVE  (FileWhole /\ IndexLeadsToContainers)'
<1>1. \A j \in Conn : Filling(j) => Filling(j)'
  BY DEF IInv, TypeOK, Filling
<1>2. FileWhole'
  BY DEF IInv, TypeOK, FileWhole
<1> QED BY <1>1, <1>2 DEF IInv, IndexLeadsToContainers

(* A step that changes no recipe, and starts or ends neither an upload nor *)
(* a download.                                                             *)
LEMMA RecipeStep ==
  ASSUME IInv, NEW k \in Conn, NEW place,
         at[k] \notin {"upload", "delete", "download", "sent"},
         place \notin {"upload", "delete", "download", "sent"},
         at' = [at EXCEPT ![k] = place], \A j \in Conn : j # k => login'[j] = login[j] /\ got'[j] = got[j],
         UNCHANGED <<recipe, last, cut>>
  PROVE  (ServesLastUpload /\ RecipeIsLast)'
BY DEF IInv, TypeOK, ServesLastUpload, RecipeIsLast, Writing, ClientId

(* A step of a session that has the lock keeps it.                         *)
LEMMA LockedStep ==
  ASSUME IInv, NEW k \in Conn, NEW place \in LockedPlaces, at[k] \in LockedPlaces,
         at' = [at EXCEPT ![k] = place], UNCHANGED <<login, holder>>,
         client' = client \/ client' = [client EXCEPT ![k] = "gone"]
  PROVE  (Begun /\ LoggedIn /\ OneSessionPerId)'
BY DEF IInv, TypeOK, Begun, LoggedIn, OneSessionPerId, LockedPlaces, ClientId

LEMMA RecvLoginStep ==
  ASSUME IInv, NEW k \in Conn, NEW msg \in Logins[k], RecvLogin(k, msg) PROVE IInv'
<1> USE ServerAssumption DEF RecvLogin
<1>1. CASE Exit
  BY <1>1, ProcessStep
<1>2. CASE /\ login' = [login EXCEPT ![k] = msg]
           /\ Goto(k, "lock")
           /\ UNCHANGED <<holder, recv, got>>
           /\ SessionOnly
  <2> USE <1>2 DEF Goto, SessionOnly
  <2>1. msg \in {"upload", "download"} \X Client
    OBVIOUS
  <2>2. TypeOK'
    BY <2>1 DEF IInv, TypeOK, Place, mainVars, diskVars, historyVars
  <2>3. (Begun /\ LoggedIn /\ OneSessionPerId)'
    BY <2>1 DEF IInv, TypeOK, Begun, LoggedIn, OneSessionPerId, LockedPlaces, ClientId
  <2>4. (ServesLastUpload /\ RecipeIsLast)'
    BY RecipeStep DEF IInv, TypeOK, diskVars, historyVars
  <2>5. (Listed /\ NoneLeft)'
    BY ListedStep DEF Idle, historyVars
  <2>6. (FileWhole /\ IndexLeadsToContainers)'
    BY DiskStep DEF mainVars, diskVars, historyVars
  <2> QED BY <2>2, <2>3, <2>4, <2>5, <2>6 DEF IInv
<1> QED BY <1>1, <1>2

LEMMA LockStep == ASSUME IInv, NEW k \in Conn, Lock(k) PROVE IInv'
<1> USE ServerAssumption DEF Lock, Goto, SessionOnly
<1>1. ClientId(k) \in Client
  BY LoginInClient DEF IInv
<1>2. TypeOK'
  BY DEF IInv, TypeOK, Place, mainVars, diskVars, sessionVars, historyVars
<1>3. (Begun /\ LoggedIn /\ OneSessionPerId)'
  <2>1. \A j \in Conn : at[j] \in LockedPlaces => ClientId(j) # ClientId(k)
    BY DEF IInv, OneSessionPerId
  <2> QED BY <1>1, <2>1 DEF IInv, TypeOK, Begun, LoggedIn, OneSessionPerId, LockedPlaces,
                            ClientId, sessionVars
<1>4. (ServesLastUpload /\ RecipeIsLast)'
  BY RecipeStep DEF sessionVars, diskVars, historyVars
<1>5. (Listed /\ NoneLeft)'
  BY ListedStep DEF Idle, historyVars
<1>6. (FileWhole /\ IndexLeadsToContainers)'
  BY DiskStep DEF mainVars, diskVars, historyVars
<1> QED BY <1>2, <1>3, <1>4, <1>5, <1>6 DEF IInv

LEMMA RejectStep ==
  ASSUME IInv, NEW k \in Conn, Reject(k) \/ EndRejected(k) PROVE IInv'
<1> USE ServerAssumption
<1>1. CASE Exit
  BY <1>1, ProcessStep
<1>2. ASSUME at[k] \in {"check", "rejected"}, NEW place \in {"rejected", "unlock"},
             Goto(k, place), client' = client \/ client' = [client EXCEPT ![k] = "gone"],
             UNCHANGED <<mainVars, holder, index, diskVars, sessionVars, n_down, historyVars>>
      PROVE  IInv'
  <2> USE <1>2 DEF Goto
  <2>1. TypeOK'
    BY DEF IInv, TypeOK, Place, mainVars, diskVars, sessionVars, historyVars
  <2>2. (Begun /\ LoggedIn /\ OneSessionPerId)'
    BY LockedStep DEF LockedPlaces, sessionVars
  <2>3. (ServesLastUpload /\ RecipeIsLast)'
    BY RecipeStep DEF sessionVars, diskVars, historyVars
  <2>4. (Listed /\ NoneLeft)'
    BY ListedStep DEF Idle, historyVars
  <2>5. (FileWhole /\ IndexLeadsToContainers)'
    BY DiskStep DEF mainVars, diskVars, historyVars
  <2> QED BY <2>1, <2>2, <2>3, <2>4, <2>5 DEF IInv
<1>3. CASE Reject(k) /\ ~Exit
  BY <1>2, <1>3 DEF Reject, SendFails, SessionOnly, sessionVars
<1>4. CASE EndRejected(k)
  BY <1>2, <1>4 DEF EndRejected, ClientCloses
<1> QED BY <1>1, <1>3, <1>4

LEMMA OpenRecipeStep == ASSUME IInv, NEW k \in Conn, OpenRecipe(k) PROVE IInv'
<1> USE ServerAssumption DEF OpenRecipe, Goto
<1>1. at[k] = "check" /\ ClientId(k) \in Client /\ holder[ClientId(k)] = k
  BY LoginInClient DEF IInv, OneSessionPerId, LockedPlaces
<1>2. PICK place \in {"upload", "download"} : at' = [at EXCEPT ![k] = place]
  OBVIOUS
<1>3. TypeOK'
  <2>1. recipe' \in [Client -> Recipe]
    <3>1. [exists |-> TRUE, complete |-> FALSE, chunks |-> {}] \in Recipe
      BY DEF Recipe
    <3>2. recipe \in [Client -> Recipe]
      BY DEF IInv, TypeOK
    <3> QED BY <3>1, <3>2
  <2>2. got' \in [Conn -> Recipe]
    BY <1>1 DEF IInv, TypeOK
  <2>3. at' \in [Conn -> Place]
    BY <1>2 DEF IInv, TypeOK, Place
  <2> QED BY <2>1, <2>2, <2>3 DEF IInv, TypeOK, mainVars, historyVars
<1>4. (Begun /\ LoggedIn /\ OneSessionPerId)'
  BY <1>1, <1>2, LockedStep DEF LockedPlaces
<1>5. ServesLastUpload'
  <2>1. \A j \in Conn : j # k /\ at[j] \in LockedPlaces => ClientId(j) # ClientId(k)
    BY <1>1 DEF IInv, OneSessionPerId
  <2>2. CASE Uploads(k)
    <3>1. /\ got' = got /\ login' = login /\ UNCHANGED <<last, cut>>
          /\ at' = [at EXCEPT ![k] = "upload"]
          /\ \A id \in Client \ {ClientId(k)} : recipe'[id] = recipe[id]
      BY <2>2 DEF IInv, TypeOK, historyVars
    <3>2. \A j \in Conn : at'[j] \in {"download", "sent"} =>
            j # k /\ at[j] \in {"download", "sent"} /\ ClientId(j) \in Client
      BY <3>1, LoginInClient DEF IInv, TypeOK, LockedPlaces
    <3> QED BY <2>1, <3>1, <3>2 DEF IInv, ServesLastUpload, LockedPlaces, ClientId
  <2>3. CASE ~Uploads(k)
    <3>1. Writing(ClientId(k)) = {}
      BY <1>1, <2>1 DEF Writing, LockedPlaces
    <3> QED BY <1>1, <2>1, <2>3, <3>1 DEF IInv, TypeOK, ServesLastUpload, RecipeIsLast,
                                        ClientId, historyVars
  <2> QED BY <2>2, <2>3
<1>6. RecipeIsLast'
  <2>1. CASE Uploads(k)
    <3>1. \A id \in Client : Writing(id)' = {} => id # ClientId(k) /\ Writing(id) = {}
      BY <1>1, <2>1 DEF IInv, TypeOK, Writing, ClientId
    <3> QED BY <1>1, <2>1, <3>1 DEF IInv, TypeOK, RecipeIsLast, historyVars
  <2>2. CASE ~Uploads(k)
    <3>1. \A id \in Client : Writing(id)' = {} => Writing(id) = {}
      BY <1>1, <2>2 DEF IInv, TypeOK, Writing, ClientId
    <3> QED BY <2>2, <3>1 DEF IInv, RecipeIsLast, historyVars
  <2> QED BY <2>1, <2>2
<1>7. (Listed /\ NoneLeft)'
  BY <1>1, <1>2, ListedStep DEF Idle, historyVars
<1>8. (FileWhole /\ IndexLeadsToContainers)'
  BY <1>1, <1>2, DiskStep DEF mainVars, historyVars
<1> QED BY <1>3, <1>4, <1>5, <1>6, <1>7, <1>8 DEF IInv

LEMMA RecvStep ==
  ASSUME IInv, NEW k \in Conn,
         RecvRecipeEnd(k) \/ (\E c \in Chunk : RecvChunk(k, c))
  PROVE  IInv'
<1> USE ServerAssumption
<1>1. /\ at[k] = "upload"
      /\ UNCHANGED <<mainVars, client, at, holder, diskVars, login, got, n_down, historyVars>>
  BY DEF RecvRecipeEnd, RecvChunk, SessionOnly
<1>2. /\ index' \in Index
      /\ \A c \in Chunk : index'[c] = index[c] \/ index'[c] = k
  BY DEF RecvRecipeEnd, RecvChunk, SessionOnly, IInv, TypeOK, Index
<1>3. recv' \in [Conn -> [chunks : SUBSET Chunk, end : BOOLEAN]]
  <2> DEFINE R == [chunks : SUBSET Chunk, end : BOOLEAN]
  <2>1. recv \in [Conn -> R]
    BY DEF IInv, TypeOK
  <2>2. CASE RecvRecipeEnd(k)
    BY <2>1, <2>2 DEF RecvRecipeEnd
  <2>3. ASSUME NEW c \in Chunk, RecvChunk(k, c) PROVE recv' \in [Conn -> R]
    BY <2>1, <2>3 DEF RecvChunk
  <2> QED BY <2>2, <2>3
<1>4. TypeOK'
  BY <1>1, <1>2, <1>3 DEF IInv, TypeOK, mainVars, diskVars, historyVars
<1>5. (Begun /\ LoggedIn /\ OneSessionPerId /\ ServesLastUpload /\ RecipeIsLast)'
  BY <1>1, SessionsUntouched DEF IInv, Begun, diskVars, historyVars
<1>6. (Listed /\ NoneLeft /\ FileWhole)'
  BY <1>1, <1>2 DEF IInv, Listed, NoneLeft, FileWhole, Idle, Up, mainVars, diskVars, historyVars
<1>7. IndexLeadsToContainers'
  BY <1>1, <1>2 DEF IInv, IndexLeadsToContainers, Filling, diskVars, historyVars
<1> QED BY <1>4, <1>5, <1>6, <1>7 DEF IInv

LEMMA JoinUploadStep == ASSUME IInv, NEW k \in Conn, JoinUpload(k) PROVE IInv'
<1> USE ServerAssumption DEF JoinUpload, Goto, ClientCloses
<1>1. TypeOK'
  BY DEF IInv, TypeOK, Place, mainVars, sessionVars, historyVars
<1>2. (Begun /\ LoggedIn /\ OneSessionPerId)'
  BY LockedStep DEF LockedPlaces, sessionVars
<1>3. (ServesLastUpload /\ RecipeIsLast)'
  BY DEF IInv, TypeOK, ServesLastUpload, RecipeIsLast, Writing, ClientId, sessionVars, historyVars
<1>4. (Listed /\ NoneLeft)'
  BY ListedStep DEF Idle, historyVars
<1>5. FileWhole'
  BY DEF IInv, FileWhole, mainVars, historyVars
<1>6. IndexLeadsToContainers'
  <2>1. \A j \in Conn : Filling(j) => Filling(j)' \/ j \in container'
    BY DEF IInv, TypeOK, Filling
  <2> QED BY <2>1 DEF IInv, IndexLeadsToContainers, historyVars
<1> QED BY <1>1, <1>2, <1>3, <1>4, <1>5, <1>6 DEF IInv

LEMMA DeleteVarStep == ASSUME IInv, NEW k \in Conn, DeleteVar(k) PROVE IInv'
<1> USE ServerAssumption
<1> DEFINE id == ClientId(k)
<1>1. /\ at[k] = "delete" /\ id \in Client /\ holder[id] = k
      /\ at' = [at EXCEPT ![k] = "unlock"]
      /\ UNCHANGED <<mainVars, client, holder, index, container, fp_file, sessionVars,
                     n_down, died, crashed, exited, unlisted>>
  BY LoginInClient DEF DeleteVar, Goto, IInv, OneSessionPerId, LockedPlaces
<1>2. PICK r \in Recipe :
        /\ recipe' = [recipe EXCEPT ![id] = r]
        /\ \/ last' = [last EXCEPT ![id] = r] /\ cut' = cut \ {id}
           \/ last' = last /\ cut' = cut \cup {id}
  <2>1. recv[k].chunks \subseteq Chunk
    BY DEF IInv, TypeOK
  <2>2. \A S \in SUBSET recv[k].chunks, b \in BOOLEAN :
          [exists |-> TRUE, complete |-> b, chunks |-> S] \in Recipe
    BY <2>1 DEF Recipe
  <2>3. CASE recv[k].end
    BY <2>2, <2>3 DEF DeleteVar
  <2>4. CASE ~recv[k].end
    BY <2>2, <2>4 DEF DeleteVar
  <2> QED BY <2>3, <2>4
<1>3. TypeOK'
  <2>1. recipe' \in [Client -> Recipe] /\ last' \in [Client -> Recipe] /\ cut' \subseteq Client
    BY <1>1, <1>2 DEF IInv, TypeOK
  <2>2. at' \in [Conn -> Place]
    BY <1>1 DEF IInv, TypeOK, Place
  <2> QED BY <1>1, <2>1, <2>2 DEF IInv, TypeOK, mainVars, sessionVars
<1>4. (Begun /\ LoggedIn /\ OneSessionPerId)'
  BY <1>1, LockedStep DEF LockedPlaces, sessionVars
<1>5. ServesLastUpload'
  <2>1. \A j \in Conn : at'[j] \in {"download", "sent"} =>
          at[j] \in {"download", "sent"} /\ ClientId(j) \in Client /\ ClientId(j) # id
    BY <1>1, LoginInClient DEF IInv, TypeOK, OneSessionPerId, LockedPlaces
  <2> QED BY <1>1, <1>2, <2>1 DEF IInv, TypeOK, ServesLastUpload, ClientId, sessionVars
<1>6. RecipeIsLast'
  <2>1. \A d \in Client \ {id} : Writing(d)' = {} => Writing(d) = {}
    BY <1>1 DEF IInv, TypeOK, Writing, ClientId, sessionVars
  <2>2. \A d \in Client \ {id} :
          recipe'[d] = recipe[d] /\ last'[d] = last[d] /\ (d \in cut' <=> d \in cut)
    BY <1>1, <1>2 DEF IInv, TypeOK
  <2>3. recipe'[id] = last'[id] \/ id \in cut'
    BY <1>1, <1>2 DEF IInv, TypeOK
  <2> QED BY <2>1, <2>2, <2>3 DEF IInv, RecipeIsLast
<1>7. (Listed /\ NoneLeft)'
  BY <1>1, ListedStep DEF Idle
<1>8. (FileWhole /\ IndexLeadsToContainers)'
  BY <1>1, DiskStep DEF mainVars
<1> QED BY <1>3, <1>4, <1>5, <1>6, <1>7, <1>8 DEF IInv

LEMMA DownloadStep ==
  ASSUME IInv, NEW k \in Conn, SendFile(k) \/ EndDownload(k) \/ LoginResponseFails(k)
  PROVE  IInv'
<1> USE ServerAssumption
<1>1. CASE Exit
  BY <1>1, ProcessStep
<1>2. ASSUME at[k] \in {"download", "sent"}, NEW place \in {"sent", "unlock"},
             Goto(k, place), client' = client \/ client' = [client EXCEPT ![k] = "gone"],
             UNCHANGED <<mainVars, holder, index, diskVars, sessionVars, n_down, historyVars>>
      PROVE  IInv'
  <2> USE <1>2 DEF Goto
  <2>1. TypeOK'
    BY DEF IInv, TypeOK, Place, mainVars, diskVars, sessionVars, historyVars
  <2>2. (Begun /\ LoggedIn /\ OneSessionPerId)'
    BY LockedStep DEF LockedPlaces, sessionVars
  <2>3. (ServesLastUpload /\ RecipeIsLast)'
    <3>1. \A j \in Conn : at'[j] \in {"download", "sent"} => at[j] \in {"download", "sent"}
      BY DEF IInv, TypeOK
    <3>2. \A id \in Client : Writing(id)' = {} => Writing(id) = {}
      BY DEF IInv, TypeOK, Writing, ClientId, sessionVars
    <3> QED BY <3>1, <3>2 DEF IInv, ServesLastUpload, RecipeIsLast, ClientId, sessionVars,
                              diskVars, historyVars
  <2>4. (Listed /\ NoneLeft)'
    BY ListedStep DEF Idle, historyVars
  <2>5. (FileWhole /\ IndexLeadsToContainers)'
    BY DiskStep DEF mainVars, diskVars, historyVars
  <2> QED BY <2>1, <2>2, <2>3, <2>4, <2>5 DEF IInv
<1>3. CASE SendFile(k) /\ ~Exit
  BY <1>2, <1>3 DEF SendFile, SendFails, SessionOnly, sessionVars
<1>4. CASE EndDownload(k)
  BY <1>2, <1>4 DEF EndDownload, ClientCloses
<1>5. CASE LoginResponseFails(k)
  BY <1>1, <1>5 DEF LoginResponseFails, SendFails
<1> QED BY <1>1, <1>3, <1>4, <1>5

LEMMA UnlockStep == ASSUME IInv, NEW k \in Conn, Unlock(k) PROVE IInv'
<1> USE ServerAssumption DEF Unlock, Goto, SessionOnly
<1>1. ClientId(k) \in Client /\ holder[ClientId(k)] = k
  BY LoginInClient DEF IInv, OneSessionPerId, LockedPlaces
<1>2. TypeOK'
  <2>1. recv' \in [Conn -> [chunks : SUBSET Chunk, end : BOOLEAN]] /\ got' \in [Conn -> Recipe]
    BY DEF IInv, TypeOK, Nothing, Absent, Recipe
  <2>2. /\ login' \in [Conn -> ({"upload", "download"} \X Client) \cup {NoLogin}]
        /\ at' \in [Conn -> Place] /\ holder' \in [Client -> Conn \cup {NoConn}]
    BY DEF IInv, TypeOK, Place
  <2> QED BY <2>1, <2>2 DEF IInv, TypeOK, mainVars, diskVars, historyVars
<1>3. (Begun /\ LoggedIn /\ OneSessionPerId)'
  <2>1. \A j \in Conn : j # k /\ at[j] \in LockedPlaces =>
          ClientId(j) # ClientId(k) /\ ClientId(j)' = ClientId(j)
    BY <1>1 DEF IInv, TypeOK, OneSessionPerId, ClientId
  <2> QED BY <1>1, <2>1 DEF IInv, TypeOK, Begun, LoggedIn, OneSessionPerId, LockedPlaces
<1>4. (ServesLastUpload /\ RecipeIsLast)'
  BY RecipeStep DEF IInv, TypeOK, diskVars, historyVars
<1>5. (Listed /\ NoneLeft)'
  BY ListedStep DEF Idle, historyVars
<1>6. (FileWhole /\ IndexLeadsToContainers)'
  BY DiskStep DEF mainVars, diskVars, historyVars
<1> QED BY <1>2, <1>3, <1>4, <1>5, <1>6 DEF IInv

-----------------------------------------------------------------------------

LEMMA StutterStep == ASSUME IInv, UNCHANGED vars PROVE IInv'
BY DEF vars, mainVars, diskVars, sessionVars, historyVars, IInv, TypeOK, Begun, LoggedIn,
       OneSessionPerId, RecipeIsLast, ServesLastUpload, Listed, NoneLeft, FileWhole,
       IndexLeadsToContainers, ClientId, Writing, Idle, Filling, Up

LEMMA SessionStep == ASSUME IInv, NEW k \in Conn, Session(k) PROVE IInv'
<1>1. CASE \E msg \in Logins[k] : RecvLogin(k, msg)
  BY <1>1, RecvLoginStep
<1>2. CASE Lock(k) \/ Reject(k) \/ EndRejected(k)
  BY <1>2, LockStep, RejectStep
<1>3. CASE OpenRecipe(k)
  BY <1>3, OpenRecipeStep
<1>4. CASE RecvRecipeEnd(k) \/ (\E c \in Chunk : RecvChunk(k, c))
  BY <1>4, RecvStep
<1>5. CASE JoinUpload(k) \/ DeleteVar(k)
  BY <1>5, JoinUploadStep, DeleteVarStep
<1>6. CASE SendFile(k) \/ EndDownload(k) \/ LoginResponseFails(k)
  BY <1>6, DownloadStep
<1>7. CASE Unlock(k)
  BY <1>7, UnlockStep
<1> QED BY <1>1, <1>2, <1>3, <1>4, <1>5, <1>6, <1>7 DEF Session

(* The inductive invariant: see StorageServer.  It rests on the lock of a  *)
(* client id (server_opt_thd.cc LockClientID), which Lock takes before any *)
(* recipe is opened and Unlock releases after it is closed, and on the     *)
(* joins of CTRLC, which come before the index is stored.                  *)
THEOREM Invariant == Spec => []IInv
<1>1. Init => IInv
  BY InitIInv
<1>2. IInv /\ [Next]_vars => IInv'
  <2> SUFFICES ASSUME IInv, [Next]_vars PROVE IInv'
    OBVIOUS
  <2>1. ASSUME NEW k \in Conn, Accept(k) \/ HandshakeFails(k) \/ Session(k) \/ Die(k)
        PROVE  IInv'
    BY <2>1, AcceptStep, HandshakeStep, SessionStep, DieStep
  <2>2. CASE MainThread \/ Interrupt
    BY <2>2, PushBackStep, OpenIndexFileStep, ProcessStep, InterruptStep DEF MainThread
  <2>3. CASE Crash \/ Restart
    BY <2>3, ProcessStep, RestartStep
  <2>4. CASE UNCHANGED vars
    BY <2>4, StutterStep
  <2> QED BY <2>1, <2>2, <2>3, <2>4 DEF Next
<1> QED BY <1>1, <1>2, PTL DEF Spec

(* The shape of the state.                                                 *)
THEOREM TypeCorrect == Spec => []TypeOK
BY Invariant, PTL DEF IInv

(* Whatever number of connections log in with an id, one at a time is      *)
(* served (server_opt_thd.cc:92).                                          *)
THEOREM OneSessionPerClientId == Spec => []OneSessionPerId
BY Invariant, PTL DEF IInv

(* A download reads the last finished upload, whole, or one that was cut   *)
(* off (server_opt_thd.cc Run, client_var.cc).                             *)
THEOREM DownloadsServeLastUpload == Spec => []ServesLastUpload
BY Invariant, PTL DEF IInv

(* The index, and the file that outlives the process, lead to containers   *)
(* that are files, or are being filled (server_main.cc CTRLC).             *)
THEOREM IndexSound == Spec => []IndexLeadsToContainers
BY Invariant, PTL DEF IInv

-----------------------------------------------------------------------------
(* The index of a server that never crashed forgets nothing, and nothing   *)
(* but a death, a crash or an unlisted session makes it call exit().       *)

LEMMA InitKInv == ASSUME Init PROVE KInv
BY DEF Init, KInv, NothingForgotten, ReceivedKnown, AllStored, ExitHasCause, GoneHasCause,
       PartHasCause, Absent, Nothing

(* A session between its login message and its end talks to a client that  *)
(* is there, or died.                                                      *)
LEMMA PartnerDied ==
  ASSUME IInv, KInv, NEW k \in Conn, client[k] # "alive",
         at[k] \notin {"off", "delete", "unlock", "end"}
  PROVE  died
BY DEF IInv, TypeOK, Begun, KInv, GoneHasCause

(* A session that has not come to its end is one of a running process, and *)
(* while the index is written only one that CTRLC did not know of.         *)
LEMMA BusyIsUp ==
  ASSUME IInv, NEW k \in Conn, ~Idle(k)
  PROVE  Up /\ (main = "close" => unlisted)
BY DEF IInv, NoneLeft, Up

LEMMA EndsKeepsK ==
  ASSUME IInv, KInv, NEW clients \in [Conn -> {"off", "alive", "gone"}], Ends(clients),
         crashed => crashed', exited => exited',
         exited' => died' \/ crashed' \/ unlisted',
         \/ crashed' \/ exited'
         \/ main = "close" /\ fp_file' = [fp_file EXCEPT !.complete = TRUE] /\ died' = died
  PROVE  KInv'
<1>1. /\ main' = "down" /\ unlisted' = unlisted
      /\ \A k \in Conn : recv'[k].chunks = {}
      /\ \A k \in Conn : at'[k] \in {"off", "end"} /\ (client'[k] = "gone" => at'[k] = "end")
  BY DEF Ends, Nothing
<1>2. (ReceivedKnown /\ AllStored /\ ExitHasCause /\ GoneHasCause)'
  BY <1>1 DEF ReceivedKnown, AllStored, ExitHasCause, GoneHasCause
<1>3. CASE crashed' \/ exited'
  BY <1>1, <1>2, <1>3 DEF KInv, NothingForgotten, PartHasCause
<1>4. CASE unlisted
  BY <1>1, <1>2, <1>4 DEF KInv, NothingForgotten, PartHasCause
<1>5. CASE ~crashed' /\ ~exited' /\ ~unlisted
  <2>1. /\ main = "close" /\ fp_file' = [fp_file EXCEPT !.complete = TRUE] /\ died' = died
        /\ ~crashed /\ ~exited
    BY <1>5
  <2>2. recipe' \in [Client -> UNION {RecipesLeft(id) : id \in Client}]
        /\ \A id \in Client : recipe'[id] = recipe[id]
    <3>1. \A id \in Client : Writing(id) = {}
      BY <1>5, <2>1 DEF IInv, NoneLeft, Idle, Writing
    <3> QED BY <3>1 DEF Ends, RecipesLeft
  <2>3. KnownIndex' = KnownIndex
    BY <1>1, <1>5, <2>1 DEF KInv, AllStored, KnownIndex, Up, IInv, TypeOK
  <2>4. NothingForgotten'
    BY <1>5, <2>1, <2>2, <2>3 DEF KInv, NothingForgotten
  <2>5. PartHasCause'
    BY <1>1, <1>5, <2>1, <2>2 DEF KInv, PartHasCause
  <2> QED BY <1>2, <2>4, <2>5 DEF KInv
<1> QED BY <1>3, <1>4, <1>5

LEMMA ExitKeepsK ==
  ASSUME IInv, KInv, Exit, died \/ crashed \/ unlisted PROVE KInv'
BY EndsKeepsK DEF Exit, ProcessEnds, Ends, IInv, TypeOK

LEMMA SendFailsKeepsK ==
  ASSUME IInv, KInv, NEW k \in Conn, at[k] \notin {"off", "delete", "unlock", "end"},
         client[k] # "alive", Exit
  PROVE  KInv'
BY PartnerDied, ExitKeepsK

LEMMA ProcessKeepsK ==
  ASSUME IInv, KInv, Crash \/ CloseIndexFile \/ (\E k \in Conn : HandshakeFails(k))
  PROVE  KInv'
<1>1. CASE Crash
  BY <1>1, EndsKeepsK DEF Crash, ProcessEnds, IInv, TypeOK
<1>2. CASE CloseIndexFile
  BY <1>2, EndsKeepsK DEF CloseIndexFile, ProcessEnds, Ends, KInv, ExitHasCause, IInv, TypeOK
<1>3. ASSUME NEW k \in Conn, HandshakeFails(k) PROVE KInv'
  <2>1. [client EXCEPT ![k] = "gone"] \in [Conn -> {"off", "alive", "gone"}]
    BY DEF IInv, TypeOK
  <2> QED BY <1>3, <2>1, EndsKeepsK DEF HandshakeFails
<1> QED BY <1>1, <1>2, <1>3

(* A step of a running process that changes neither index nor recipe.      *)
LEMMA IndexKept ==
  ASSUME KInv, Up, Up', main' = "close" => main = "close",
         \A k \in Conn : recv'[k].chunks \subseteq recv[k].chunks,
         UNCHANGED <<index, recipe, fp_file>>,
         crashed => crashed', exited => exited', unlisted => unlisted'
  PROVE  (NothingForgotten /\ ReceivedKnown /\ AllStored)'
BY DEF KInv, NothingForgotten, ReceivedKnown, AllStored, KnownIndex

LEMMA CausesKept ==
  ASSUME KInv, UNCHANGED <<recipe, exited>>,
         died => died', crashed => crashed', unlisted => unlisted'
  PROVE  (ExitHasCause /\ PartHasCause)'
BY DEF KInv, ExitHasCause, PartHasCause

LEMMA MainKeepsK ==
  ASSUME IInv, KInv,
         Restart \/ PushBack \/ Interrupt \/ OpenIndexFile \/ (\E k \in Conn : Die(k))
  PROVE  KInv'
<1>1. GoneHasCause'
  <2>1. ASSUME NEW k \in Conn, Die(k) PROVE GoneHasCause'
    BY <2>1 DEF Die, GoneHasCause
  <2>2. CASE Restart \/ PushBack \/ Interrupt \/ OpenIndexFile
    BY <2>2 DEF Restart, PushBack, Interrupt, OpenIndexFile, sessionVars, historyVars,
                KInv, GoneHasCause
  <2> QED BY <2>1, <2>2
<1>0. unlisted => unlisted'
  BY DEF Restart, PushBack, Interrupt, OpenIndexFile, Die, historyVars, IInv, TypeOK
<1>2. (ExitHasCause /\ PartHasCause)'
  <2>1. CASE Restart \/ PushBack
    BY <1>0, <2>1, CausesKept DEF Restart, PushBack, diskVars, historyVars
  <2>2. CASE Interrupt \/ OpenIndexFile
    BY <1>0, <2>2, CausesKept DEF Interrupt, OpenIndexFile, diskVars, historyVars
  <2>3. ASSUME NEW k \in Conn, Die(k) PROVE (ExitHasCause /\ PartHasCause)'
    BY <1>0, <2>3, CausesKept DEF Die, diskVars
  <2> QED BY <2>1, <2>2, <2>3
<1>3. (NothingForgotten /\ ReceivedKnown /\ AllStored)'
  <2>1. CASE Restart
    <3> USE <2>1 DEF Restart
    <3>1. (ReceivedKnown /\ AllStored)'
      BY DEF KInv, ReceivedKnown, AllStored, Up, sessionVars
    <3>2. NothingForgotten'
      <4>1. ~crashed /\ ~exited => index' = fp_file.entries
        BY DEF IInv, FileWhole, Loaded, Up
      <4> QED BY <4>1 DEF KInv, NothingForgotten, KnownIndex, Up, diskVars, historyVars
    <3> QED BY <3>1, <3>2
  <2>2. CASE PushBack \/ Interrupt
    BY <1>0, <2>2, IndexKept DEF PushBack, Interrupt, Up, diskVars, sessionVars, historyVars
  <2>3. CASE OpenIndexFile
    BY <2>3 DEF OpenIndexFile, KInv, NothingForgotten, ReceivedKnown, AllStored, KnownIndex,
                Up, sessionVars, historyVars
  <2>4. ASSUME NEW k \in Conn, Die(k) PROVE (NothingForgotten /\ ReceivedKnown /\ AllStored)'
    BY <2>4 DEF Die, mainVars, diskVars, sessionVars, KInv, NothingForgotten, ReceivedKnown,
                AllStored, KnownIndex, Up
  <2> QED BY <2>1, <2>2, <2>3, <2>4
<1> QED BY <1>1, <1>2, <1>3 DEF KInv

(* The steps of a session that only move it on, or close its connection in *)
(* order.                                                                  *)
LEMMA MoveKeepsK ==
  ASSUME IInv, KInv, NEW k \in Conn, NEW place,
         place \notin {"delete"}, at[k] \notin {"delete", "unlock", "end"},
         at' = [at EXCEPT ![k] = place],
         \/ client' = client
         \/ client' = [client EXCEPT ![k] = "gone"] /\ place = "unlock"
         \/ client' = [client EXCEPT ![k] = "alive"],
         Up, Up', main' # "close" \/ main' = main,
         UNCHANGED <<index, diskVars, recv, historyVars>>
  PROVE  KInv'
<1>1. GoneHasCause'
  BY DEF IInv, TypeOK, KInv, GoneHasCause, historyVars
<1>2. (ExitHasCause /\ PartHasCause)'
  BY CausesKept DEF diskVars, historyVars
<1>3. (NothingForgotten /\ ReceivedKnown /\ AllStored)'
  BY IndexKept DEF diskVars, historyVars
<1> QED BY <1>1, <1>2, <1>3 DEF KInv

LEMMA BeginKeepsK ==
  ASSUME IInv, KInv, NEW k \in Conn,
         Accept(k) \/ (\E msg \in Logins[k] : RecvLogin(k, msg)) \/ Lock(k)
  PROVE  KInv'
<1>1. CASE Accept(k)
  BY <1>1, MoveKeepsK DEF Accept, Goto, Up, IInv, Begun, sessionVars
<1>2. ASSUME NEW msg \in Logins[k], RecvLogin(k, msg) PROVE KInv'
  <2>1. CASE client[k] # "alive" /\ Exit
    BY <1>2, <2>1, SendFailsKeepsK DEF RecvLogin
  <2>2. CASE Goto(k, "lock") /\ UNCHANGED recv /\ SessionOnly
    BY <1>2, <2>2, MoveKeepsK, BusyIsUp DEF RecvLogin, Goto, SessionOnly, Idle, Up, mainVars
  <2> QED BY <1>2, <2>1, <2>2 DEF RecvLogin
<1>3. CASE Lock(k)
  BY <1>3, MoveKeepsK, BusyIsUp DEF Lock, Goto, SessionOnly, Idle, Up, mainVars, sessionVars
<1> QED BY <1>1, <1>2, <1>3

LEMMA RejectKeepsK ==
  ASSUME IInv, KInv, NEW k \in Conn,
         Reject(k) \/ EndRejected(k) \/ LoginResponseFails(k) \/ EndDownload(k)
  PROVE  KInv'
<1>1. CASE SendFails(k) /\ (Reject(k) \/ LoginResponseFails(k))
  BY <1>1, SendFailsKeepsK DEF Reject, LoginResponseFails, SendFails
<1>2. CASE Reject(k) /\ ~SendFails(k)
  BY <1>2, MoveKeepsK, BusyIsUp DEF Reject, Goto, SessionOnly, Idle, Up, mainVars, sessionVars
<1>3. CASE EndRejected(k) \/ EndDownload(k)
  BY <1>3, MoveKeepsK, BusyIsUp DEF EndRejected, EndDownload, ClientCloses, Goto, Idle, Up,
                                   mainVars, sessionVars
<1> QED BY <1>1, <1>2, <1>3 DEF LoginResponseFails

(* A recipe that is opened for writing has nothing of the upload yet.      *)
LEMMA OpenRecipeKeepsK == ASSUME IInv, KInv, NEW k \in Conn, OpenRecipe(k) PROVE KInv'
<1>1. at[k] = "check" /\ Up /\ (main = "close" => unlisted)
  BY BusyIsUp DEF OpenRecipe, Idle
<1>2. GoneHasCause'
  BY <1>1 DEF OpenRecipe, Goto, IInv, TypeOK, KInv, GoneHasCause, historyVars
<1>3. \A id \in Client :
        \/ recipe'[id] = recipe[id]
        \/ ~recipe'[id].complete /\ recipe'[id].chunks = {}
  BY DEF OpenRecipe, IInv, TypeOK
<1>4. (ExitHasCause /\ PartHasCause)'
  BY <1>3 DEF OpenRecipe, historyVars, KInv, ExitHasCause, PartHasCause
<1>5. (NothingForgotten /\ ReceivedKnown /\ AllStored)'
  BY <1>1, <1>3 DEF OpenRecipe, mainVars, historyVars, KInv, NothingForgotten, ReceivedKnown,
                    AllStored, KnownIndex, Up
<1> QED BY <1>2, <1>4, <1>5 DEF KInv

LEMMA RecvChunkKeepsK ==
  ASSUME IInv, KInv, NEW k \in Conn, NEW c \in Chunk, RecvChunk(k, c) PROVE KInv'
<1> USE ServerAssumption DEF RecvChunk
<1>1. Up /\ (main = "close" => unlisted)
  BY BusyIsUp DEF Idle
<1>2. index \in Index /\ index'[c] # NoConn
      /\ \A x \in Chunk : index[x] # NoConn => index'[x] # NoConn
  BY DEF IInv, TypeOK, Index
<1>3. \A j \in Conn : /\ recv'[j].chunks \subseteq recv[j].chunks \cup {c}
                      /\ recv'[j].end = recv[j].end
  BY DEF IInv, TypeOK
<1>4. (ReceivedKnown /\ AllStored)'
  BY <1>1, <1>2, <1>3 DEF KInv, ReceivedKnown, AllStored, Up, mainVars, historyVars, IInv, TypeOK
<1>5. NothingForgotten'
  <2>1. \A id \in Client : recipe[id].chunks \subseteq Chunk
    BY DEF IInv, TypeOK, Recipe
  <2> QED BY <1>1, <1>2, <2>1 DEF KInv, NothingForgotten, KnownIndex, Up, mainVars, diskVars,
                                  historyVars
<1>6. GoneHasCause'
  BY <1>3 DEF KInv, GoneHasCause, historyVars
<1>7. (ExitHasCause /\ PartHasCause)'
  BY CausesKept DEF diskVars, historyVars
<1> QED BY <1>4, <1>5, <1>6, <1>7 DEF KInv

LEMMA RecvRecipeEndKeepsK ==
  ASSUME IInv, KInv, NEW k \in Conn, RecvRecipeEnd(k) PROVE KInv'
<1> USE DEF RecvRecipeEnd, SessionOnly
<1>1. Up /\ Up' /\ main' = main
  BY BusyIsUp DEF Idle, Up, mainVars
<1>2. \A j \in Conn : /\ recv'[j].chunks = recv[j].chunks
                      /\ recv[j].end => recv'[j].end
  BY DEF IInv, TypeOK
<1>3. GoneHasCause'
  BY <1>2 DEF KInv, GoneHasCause, historyVars
<1>4. (ExitHasCause /\ PartHasCause)'
  BY CausesKept DEF diskVars, historyVars
<1>5. (NothingForgotten /\ ReceivedKnown /\ AllStored)'
  BY <1>1, <1>2, IndexKept DEF diskVars, historyVars
<1> QED BY <1>3, <1>4, <1>5 DEF KInv

LEMMA JoinUploadKeepsK == ASSUME IInv, KInv, NEW k \in Conn, JoinUpload(k) PROVE KInv'
<1> USE DEF JoinUpload, ClientCloses, Goto
<1>1. Up /\ Up' /\ main' = main
  BY BusyIsUp DEF Idle, Up, mainVars
<1>2. GoneHasCause'
  BY DEF IInv, TypeOK, KInv, GoneHasCause, sessionVars, historyVars
<1>3. (ExitHasCause /\ PartHasCause)'
  BY CausesKept DEF historyVars
<1>4. (NothingForgotten /\ ReceivedKnown /\ AllStored)'
  BY <1>1, IndexKept DEF sessionVars, historyVars
<1> QED BY <1>2, <1>3, <1>4 DEF KInv

(* A recipe is completed with chunks that the index knows by then, and cut *)
(* off only when the client has died.                                      *)
LEMMA DeleteVarKeepsK == ASSUME IInv, KInv, NEW k \in Conn, DeleteVar(k) PROVE KInv'
<1> USE DEF DeleteVar, Goto
<1>1. Up /\ Up' /\ main' = main /\ at[k] = "delete" /\ (main = "close" => unlisted)
  BY BusyIsUp DEF Idle, Up, mainVars
<1>2. \A id \in Client :
        \/ recipe'[id] = recipe[id]
        \/ recv[k].end /\ recipe'[id].complete /\ recipe'[id].chunks = recv[k].chunks
        \/ died /\ ~recipe'[id].complete
  BY <1>1 DEF IInv, TypeOK, KInv, GoneHasCause
<1>3. GoneHasCause'
  BY <1>1 DEF IInv, TypeOK, KInv, GoneHasCause, sessionVars
<1>4. (ExitHasCause /\ PartHasCause)'
  BY <1>2 DEF KInv, ExitHasCause, PartHasCause
<1>5. (ReceivedKnown /\ AllStored)'
  BY <1>1 DEF KInv, ReceivedKnown, AllStored, sessionVars
<1>6. NothingForgotten'
  BY <1>1, <1>2 DEF KInv, NothingForgotten, ReceivedKnown, KnownIndex
<1> QED BY <1>3, <1>4, <1>5, <1>6 DEF KInv

(* A download asks for chunks of a complete recipe: if one is missing, or  *)
(* its entry is garbled, a process ended without storing its index.        *)
LEMMA SendFileKeepsK == ASSUME IInv, KInv, NEW k \in Conn, SendFile(k) PROVE KInv'
<1>1. CASE SendFails(k)
  BY <1>1, SendFailsKeepsK DEF SendFile, SendFails
<1>2. CASE (\E c \in got[k].chunks : index[c] \in {NoConn, Garbage}) /\ Exit
  <2>1. PICK c \in got[k].chunks : index[c] \in {NoConn, Garbage}
    BY <1>2
  <2>2. at[k] = "download" /\ Up
    BY BusyIsUp DEF SendFile, Idle
  <2>3. ClientId(k) \in Client
    BY <2>2, LoginInClient DEF IInv, LockedPlaces
  <2>4. got[k] = recipe[ClientId(k)] /\ c \in Chunk
    BY <2>2, <2>3 DEF IInv, ServesLastUpload, TypeOK, Recipe
  <2>5. died \/ crashed \/ unlisted \/ exited
    <3>1. CASE index[c] = Garbage
      BY <2>4, <3>1 DEF IInv, IndexLeadsToContainers
    <3>2. CASE index[c] = NoConn
      BY <2>2, <2>3, <2>4, <3>2 DEF KInv, PartHasCause, NothingForgotten, KnownIndex
    <3> QED BY <2>1, <3>1, <3>2
  <2>6. died \/ crashed \/ unlisted
    BY <2>5 DEF KInv, ExitHasCause
  <2> QED BY <1>2, <2>6, ExitKeepsK
<1>3. CASE Goto(k, "sent") /\ UNCHANGED sessionVars /\ SessionOnly
  BY <1>3, MoveKeepsK, BusyIsUp DEF SendFile, Goto, SessionOnly, Idle, Up, mainVars, sessionVars
<1> QED BY <1>1, <1>2, <1>3 DEF SendFile

LEMMA UnlockKeepsK == ASSUME IInv, KInv, NEW k \in Conn, Unlock(k) PROVE KInv'
<1> USE DEF Unlock, Goto, SessionOnly
<1>1. Up /\ Up' /\ main' = main
  BY BusyIsUp DEF Idle, Up, mainVars
<1>2. \A j \in Conn : /\ j # k => recv'[j] = recv[j] /\ at'[j] = at[j]
                      /\ at'[k] = "end" /\ recv'[k].chunks = {}
  BY DEF IInv, TypeOK, Nothing
<1>3. GoneHasCause'
  BY <1>2 DEF KInv, GoneHasCause, historyVars
<1>4. (ExitHasCause /\ PartHasCause)'
  BY CausesKept DEF diskVars, historyVars
<1>5. (NothingForgotten /\ ReceivedKnown /\ AllStored)'
  BY <1>1, <1>2, IndexKept DEF diskVars, historyVars
<1> QED BY <1>3, <1>4, <1>5 DEF KInv

(* What Invariant leaves out: the index knows what any upload in progress  *)
(* has received and what complete recipes list (ReceivedKnown), CTRLC      *)
(* stores it as it is (AllStored), and a missing client has died unless its*)
(* session is at its end (GoneHasCause).                                   *)
THEOREM IndexInvariant == Spec => []KInv
<1>1. Init => KInv
  BY InitKInv
<1>2. IInv /\ KInv /\ [Next]_vars => KInv'
  <2> SUFFICES ASSUME IInv, KInv, [Next]_vars PROVE KInv'
    OBVIOUS
  <2>1. ASSUME NEW k \in Conn, Accept(k) \/ HandshakeFails(k) \/ Die(k) PROVE KInv'
    BY <2>1, BeginKeepsK, ProcessKeepsK, MainKeepsK
  <2>2. ASSUME NEW k \in Conn, Session(k) PROVE KInv'
    <3>1. CASE (\E msg \in Logins[k] : RecvLogin(k, msg)) \/ Lock(k)
      BY <3>1, BeginKeepsK
    <3>2. CASE Reject(k) \/ EndRejected(k) \/ LoginResponseFails(k) \/ EndDownload(k)
      BY <3>2, RejectKeepsK
    <3>3. CASE OpenRecipe(k) \/ RecvRecipeEnd(k) \/ (\E c \in Chunk : RecvChunk(k, c))
      BY <3>3, OpenRecipeKeepsK, RecvRecipeEndKeepsK, RecvChunkKeepsK
    <3>4. CASE JoinUpload(k) \/ DeleteVar(k) \/ SendFile(k) \/ Unlock(k)
      BY <3>4, JoinUploadKeepsK, DeleteVarKeepsK, SendFileKeepsK, UnlockKeepsK
    <3> QED BY <2>2, <3>1, <3>2, <3>3, <3>4 DEF Session
  <2>3. CASE MainThread \/ Interrupt \/ Crash \/ Restart
    BY <2>3, MainKeepsK, ProcessKeepsK DEF MainThread
  <2>4. CASE UNCHANGED vars
    BY <2>4 DEF vars, mainVars, diskVars, sessionVars, historyVars, KInv, NothingForgotten,
                ReceivedKnown, AllStored, ExitHasCause, GoneHasCause, PartHasCause, KnownIndex, Up
  <2> QED BY <2>1, <2>2, <2>3, <2>4 DEF Next
<1> QED BY <1>1, <1>2, Invariant, PTL DEF Spec

(* Every chunk of a complete recipe stays in the index, over any number of *)
(* graceful stops and restarts (server_main.cc CTRLC, in_mem_db.cc).       *)
THEOREM IndexForgetsNothing == Spec => []NothingForgotten
BY IndexInvariant, PTL DEF KInv

(* exit() is never called but for a client that died, a process that ended *)
(* without storing its index, or a session CTRLC did not know of.          *)
THEOREM ExitsHaveCause == Spec => []ExitHasCause
BY IndexInvariant, PTL DEF KInv

=============================================================================
