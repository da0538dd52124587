--------------------------- MODULE RegistryProofs ---------------------------
(* Proofs about Registry for every set of connections, files and blocks. *)
EXTENDS Registry, TLAPS, SequenceTheorems

\* Taking one entry out of a sequence leaves a sequence over the same set.
LEMMA RemovalType ==
  ASSUME NEW S, NEW s \in Seq(S), NEW i \in 1..Len(s)
  PROVE  SubSeq(s, 1, i-1) \o SubSeq(s, i+1, Len(s)) \in Seq(S)
<1>1. Len(s) \in Nat
  OBVIOUS
<1>2. \A j \in 1..Len(s) : s[j] \in S
  OBVIOUS
<1>3. SubSeq(s, 1, i-1) \in Seq(S)
  <2>1. \A j \in 1..(i-1) : s[j] \in S
    BY <1>1, <1>2
  <2> QED BY <1>1, <2>1, SubSeqProperties
<1>4. SubSeq(s, i+1, Len(s)) \in Seq(S)
  <2>1. \A j \in (i+1)..Len(s) : s[j] \in S
    BY <1>1, <1>2
  <2> QED BY <1>1, <2>1, SubSeqProperties
<1> QED BY <1>3, <1>4, ConcatProperties

\* A function updated at one point.
LEMMA UpdateType ==
  ASSUME NEW D, NEW R, NEW h \in [D -> R], NEW x, NEW v \in R
  PROVE  [h EXCEPT ![x] = v] \in [D -> R]
OBVIOUS

LEMMA UpdateAt ==
  ASSUME NEW D, NEW R, NEW h \in [D -> R], NEW x \in D, NEW v
  PROVE  [h EXCEPT ![x] = v][x] = v /\ \A y \in D \ {x} : [h EXCEPT ![x] = v][y] = h[y]
OBVIOUS

\* Updating what one connection knows of one block.
LEMMA DlType ==
  ASSUME NEW h \in [Conns -> [Blocks -> DlStates]], NEW c \in Conns, NEW b \in Blocks, NEW v \in DlStates
  PROVE  [h EXCEPT ![c][b] = v] \in [Conns -> [Blocks -> DlStates]]
<1>1. [h[c] EXCEPT ![b] = v] \in [Blocks -> DlStates]
  OBVIOUS
<1> QED BY <1>1

\* Updating the peers list of a block, a bag of peers.
LEMMA BagAdd ==
  ASSUME NEW g \in [Main -> Nat], NEW m \in Main
  PROVE  [g EXCEPT ![m] = @ + 1] \in [Main -> Nat]
<1>1. g[m] + 1 \in Nat
  OBVIOUS
<1> QED BY <1>1

LEMMA BagOneLess ==
  ASSUME NEW g \in [Main -> Nat], NEW m
  PROVE  [g EXCEPT ![m] = OneLess(@)] \in [Main -> Nat]
<1>1. CASE m \in Main
  <2>1. OneLess(g[m]) \in Nat
    BY <1>1 DEF OneLess
  <2> QED BY <1>1, <2>1
<1>2. CASE m \notin Main
  BY <1>2
<1> QED BY <1>1, <1>2

LEMMA BagAddAll ==
  ASSUME NEW g \in [Main -> Nat], NEW S
  PROVE  [m \in Main |-> IF m \in S THEN g[m] + 1 ELSE g[m]] \in [Main -> Nat]
<1>1. \A m \in Main : g[m] \in Nat /\ g[m] + 1 \in Nat
  OBVIOUS
<1> QED BY <1>1

\* Updating a draw.
LEMMA DrawType ==
  ASSUME NEW h \in [Conns -> Draws], NEW c \in Conns
  PROVE  /\ \A v \in [Main -> Nat] : [h EXCEPT ![c].peers = v] \in [Conns -> Draws]
         /\ \A m \in Main : [h EXCEPT ![c].peer = {m}] \in [Conns -> Draws]
         /\ h[c].left # 1 => [h EXCEPT ![c].left = @ - 1] \in [Conns -> Draws]
<1>1. h[c] \in Draws
  OBVIOUS
<1>2. ASSUME NEW v \in [Main -> Nat] PROVE [h[c] EXCEPT !.peers = v] \in Draws
  BY <1>1 DEF Draws
<1>3. ASSUME NEW m \in Main PROVE [h[c] EXCEPT !.peer = {m}] \in Draws
  BY <1>1 DEF Draws
<1>4. ASSUME h[c].left # 1 PROVE [h[c] EXCEPT !.left = @ - 1] \in Draws
  <2>1. h[c].left \in Nat \ {0}
    BY <1>1 DEF Draws
  <2>2. h[c].left - 1 \in Nat \ {0}
    BY <1>4, <2>1
  <2> QED BY <1>1, <2>2 DEF Draws
<1> QED BY <1>2, <1>3, <1>4

\* Types, with the connections each handler runs for: the constants of the
\* hello message are defined for main connections only.
TypeInv == TypeOK /\ Roles

LEMMA TypeInit == Init => TypeInv
BY ConnsAssumption, DataAssumption, AttemptsAssumption DEF Init, TypeInv, TypeOK, Roles, PCs, DlStates, Faults, Draws, NoDraw

LEMMA TypeStep == TypeInv /\ [Next]_vars => TypeInv'
<1> SUFFICES ASSUME TypeOK, Roles, [Next]_vars
             PROVE  TypeOK' /\ Roles'
  BY DEF TypeInv
<1> USE ConnsAssumption, DataAssumption
<1> USE DEF TypeOK, Roles, threadVars, clientVars, fileVars, blockVars, lockVars
<1>0. CASE UNCHANGED vars
  BY <1>0 DEF vars
<1>1. ASSUME NEW c \in Conns, Connect(c) PROVE TypeOK' /\ Roles'
  <2>1. pc' \in [Conns -> PCs]
    BY <1>1 DEF Connect, Goto, PCs
  <2>2. port' \in [Conns -> {PortOf[m] : m \in Main} \cup {NoPort}]
    <3>1. PICK p \in StalePorts : port' = [port EXCEPT ![c] = p]
      BY <1>1 DEF Connect
    <3>2. p \in {PortOf[m] : m \in Main} \cup {NoPort}
      BY DEF StalePorts
    <3> QED BY <1>1, <3>1, <3>2 DEF Connect
  <2>3. TypeOK'
    BY <1>1, <2>1, <2>2 DEF Connect
  <2>4. Roles'
    BY <1>1 DEF Connect, Goto
  <2> QED BY <2>3, <2>4
<1>2. ASSUME NEW c \in Conns, Disconnect(c) PROVE TypeOK' /\ Roles'
  <2>1. pc' \in [Conns -> PCs]
    BY <1>2 DEF Disconnect, Goto, PCs
  <2>2. TypeOK'
    BY <1>2, <2>1 DEF Disconnect
  <2>3. Roles'
    BY <1>2 DEF Disconnect, Goto
  <2> QED BY <2>2, <2>3
<1>3. ASSUME NEW c \in Conns, AddPeer(c) PROVE TypeOK' /\ Roles'
  <2>1. pc' \in [Conns -> PCs]
    BY <1>3 DEF AddPeer, Goto, PCs
  <2>2. started' \subseteq Main
    BY <1>3 DEF AddPeer
  <2>3. port' \in [Conns -> {PortOf[m] : m \in Main} \cup {NoPort}]
    BY <1>3 DEF AddPeer
  <2>4. peersList' \in Seq(Main)
    BY <1>3, AppendProperties DEF AddPeer
  <2>5. TypeOK'
    BY <1>3, <2>1, <2>2, <2>3, <2>4 DEF AddPeer
  <2>6. Roles'
    BY <1>3 DEF AddPeer, Goto
  <2> QED BY <2>5, <2>6
<1>4. ASSUME NEW c \in Conns, SendFilesList(c) PROVE TypeOK' /\ Roles'
  <2>1. seen' \in [Main -> SUBSET Files]
    BY <1>4 DEF SendFilesList
  <2>2. TypeOK'
    BY <1>4, <2>1 DEF SendFilesList
  <2>3. Roles'
    BY <1>4 DEF SendFilesList, Goto
  <2> QED BY <2>2, <2>3
<1>5. ASSUME NEW c \in Conns, ProcessBlockRequest(c) PROVE TypeOK' /\ Roles'
  <2>1. PICK b \in Blocks :
               /\ IF b \in blocksList
                  THEN /\ held' = [held EXCEPT ![c] = b] /\ gone' = [gone EXCEPT ![c] = FALSE]
                       /\ Goto(c, "GetPeerInfo") /\ UNCHANGED dl
                  ELSE /\ dl' = [dl EXCEPT ![c][b] = "lost"]
                       /\ UNCHANGED <<pc, held, gone>>
    BY <1>5 DEF ProcessBlockRequest, BlocksOf
  <2>2. c \notin Main
    BY <1>5 DEF ProcessBlockRequest
  <2>3. pc' \in [Conns -> PCs]
    BY <1>5, <2>1 DEF Goto, PCs
  <2>4. held' \in [Conns -> Blocks \cup {NoBlock}] /\ gone' \in [Conns -> BOOLEAN]
    <3>1. \/ held' = [held EXCEPT ![c] = b] /\ gone' = [gone EXCEPT ![c] = FALSE]
          \/ held' = held /\ gone' = gone
      BY <2>1
    <3>2. held' \in [Conns -> Blocks \cup {NoBlock}]
      <4>1. held \in [Conns -> Blocks \cup {NoBlock}]
        OBVIOUS
      <4>2. held' = [held EXCEPT ![c] = b] \/ held' = held
        BY <3>1
      <4> HIDE DEF TypeOK, Roles
      <4> QED BY <4>1, <4>2
    <3>3. gone' \in [Conns -> BOOLEAN]
      BY <3>1
    <3> QED BY <3>2, <3>3
  <2>5. dl' \in [Conns -> [Blocks -> DlStates]]
    <3>1. dl \in [Conns -> [Blocks -> DlStates]]
      OBVIOUS
    <3>2. dl' = dl \/ dl' = [dl EXCEPT ![c][b] = "lost"] \/ dl' = [dl EXCEPT ![c][b] = "reported"]
      BY <2>1
    <3>3. "lost" \in DlStates /\ "reported" \in DlStates
      BY DEF DlStates
    <3> HIDE DEF TypeOK, Roles
    <3>4. [dl EXCEPT ![c][b] = "lost"] \in [Conns -> [Blocks -> DlStates]]
      BY <3>1, <3>3, DlType
    <3>5. [dl EXCEPT ![c][b] = "reported"] \in [Conns -> [Blocks -> DlStates]]
      BY <3>1, <3>3, DlType
    <3> QED BY <3>1, <3>2, <3>4, <3>5
  <2>6. TypeOK'
    BY <1>5, <2>3, <2>4, <2>5 DEF ProcessBlockRequest
  <2>7. Roles'
    <3>1. CASE b \in blocksList
      <4>1. /\ pc' = [pc EXCEPT ![c] = "GetPeerInfo"] /\ held' = [held EXCEPT ![c] = b]
            /\ UNCHANGED <<started, todo>>
        BY <1>5, <2>1, <3>1 DEF ProcessBlockRequest, Goto
      <4> QED BY <2>2, <4>1
    <3>2. CASE b \notin blocksList
      <4>1. UNCHANGED <<pc, held, started, todo>>
        BY <1>5, <2>1, <3>2 DEF ProcessBlockRequest
      <4> QED BY <4>1
    <3> QED BY <3>1, <3>2
  <2> QED BY <2>6, <2>7
<1>6. ASSUME NEW c \in Conns, ReceiveSuccess(c) PROVE TypeOK' /\ Roles'
  <2>1. PICK b \in Blocks :
               /\ dl' = [dl EXCEPT ![c][b] = "reported"]
               /\ IF b \in blocksList
                  THEN /\ held' = [held EXCEPT ![c] = b] /\ gone' = [gone EXCEPT ![c] = FALSE]
                       /\ Goto(c, "AddPeerToBlock")
                  ELSE /\ Goto(c, "RemoveFromGlobal")
                       /\ UNCHANGED <<held, gone>>
    BY <1>6 DEF ReceiveSuccess, BlocksOf
  <2>2. c \notin Main
    BY <1>6 DEF ReceiveSuccess
  <2>3. pc' \in [Conns -> PCs]
    BY <1>6, <2>1 DEF Goto, PCs
  <2>4. held' \in [Conns -> Blocks \cup {NoBlock}] /\ gone' \in [Conns -> BOOLEAN]
    <3>1. \/ held' = [held EXCEPT ![c] = b] /\ gone' = [gone EXCEPT ![c] = FALSE]
          \/ held' = held /\ gone' = gone
      BY <2>1
    <3>2. held' \in [Conns -> Blocks \cup {NoBlock}]
      <4>1. held \in [Conns -> Blocks \cup {NoBlock}]
        OBVIOUS
      <4>2. held' = [held EXCEPT ![c] = b] \/ held' = held
        BY <3>1
      <4> HIDE DEF TypeOK, Roles
      <4> QED BY <4>1, <4>2
    <3>3. gone' \in [Conns -> BOOLEAN]
      BY <3>1
    <3> QED BY <3>2, <3>3
  <2>5. dl' \in [Conns -> [Blocks -> DlStates]]
    <3>1. dl \in [Conns -> [Blocks -> DlStates]]
      OBVIOUS
    <3>2. dl' = dl \/ dl' = [dl EXCEPT ![c][b] = "lost"] \/ dl' = [dl EXCEPT ![c][b] = "reported"]
      BY <2>1
    <3>3. "lost" \in DlStates /\ "reported" \in DlStates
      BY DEF DlStates
    <3> HIDE DEF TypeOK, Roles
    <3>4. [dl EXCEPT ![c][b] = "lost"] \in [Conns -> [Blocks -> DlStates]]
      BY <3>1, <3>3, DlType
    <3>5. [dl EXCEPT ![c][b] = "reported"] \in [Conns -> [Blocks -> DlStates]]
      BY <3>1, <3>3, DlType
    <3> QED BY <3>1, <3>2, <3>4, <3>5
  <2>6. TypeOK'
    BY <1>6, <2>3, <2>4, <2>5 DEF ReceiveSuccess
  <2>7. Roles'
    <3>1. CASE b \in blocksList
      <4>1. /\ pc' = [pc EXCEPT ![c] = "AddPeerToBlock"] /\ held' = [held EXCEPT ![c] = b]
            /\ UNCHANGED <<started, todo>>
        BY <1>6, <2>1, <3>1 DEF ReceiveSuccess, Goto
      <4> QED BY <2>2, <4>1
    <3>2. CASE b \notin blocksList
      <4>1. pc' = [pc EXCEPT ![c] = "RemoveFromGlobal"] /\ UNCHANGED <<held, started, todo>>
        BY <1>6, <2>1, <3>2 DEF ReceiveSuccess, Goto
      <4> QED BY <4>1
    <3> QED BY <3>1, <3>2
  <2> QED BY <2>6, <2>7
<1>7. ASSUME NEW c \in Conns, AddBlocks(c) PROVE TypeOK' /\ Roles'
  <2>1. pc' \in [Conns -> PCs]
    BY <1>7 DEF AddBlocks, Goto, PCs
  <2>2. blocksList' \subseteq Blocks
    BY <1>7 DEF AddBlocks
  <2>3. holders' \in [Blocks -> [Main -> Nat]]
    <3>1. c \in Main
      BY <1>7 DEF AddBlocks
    <3>2. \A b \in Blocks : [holders[b] EXCEPT ![c] = @ + 1] \in [Main -> Nat]
      BY <3>1, BagAdd
    <3> QED BY <1>7, <3>1, <3>2 DEF AddBlocks
  <2>4. fault' \in Faults
    BY <1>7 DEF AddBlocks, ChangeAt, FaultAt, Faults
  <2>5. TypeOK'
    BY <1>7, <2>1, <2>2, <2>3, <2>4 DEF AddBlocks
  <2>6. Roles'
    BY <1>7 DEF AddBlocks, Goto
  <2> QED BY <2>5, <2>6
<1>8. ASSUME NEW c \in Conns, GetFiles(c) PROVE TypeOK' /\ Roles'
  <2>1. pc' \in [Conns -> PCs]
    BY <1>8 DEF GetFiles, Goto, PCs
  <2>2. todo' \in [Conns -> SUBSET Files]
    BY <1>8 DEF GetFiles
  <2>3. filesLock' \in Conns \cup {NoConn}
    BY <1>8 DEF GetFiles
  <2>4. TypeOK'
    BY <1>8, <2>1, <2>2, <2>3 DEF GetFiles
  <2>5. Roles'
    BY <1>8 DEF GetFiles, Goto
  <2> QED BY <2>4, <2>5
<1>9. ASSUME NEW c \in Conns, MakeBlocksList(c) PROVE TypeOK' /\ Roles'
  <2>1. PICK f \in todo[c] :
          LET blocks == ListBlocks(f)
              number == IF f \in filesList THEN numberOfBlocks[f] ELSE NumOf[c][f]
          IN /\ filesList' = filesList \cup {f}
             /\ fileBlocks' = [fileBlocks EXCEPT ![f] = blocks]
             /\ numberOfBlocks' = [numberOfBlocks EXCEPT ![f] = number]
             /\ isComplete' = [isComplete EXCEPT ![f] = CompleteWith(f, blocks, number)]
             /\ todo' = [todo EXCEPT ![c] = @ \ {f}]
    BY <1>9 DEF MakeBlocksList
  <2>2. f \in Files /\ c \in Main
    BY <1>9 DEF MakeBlocksList
  <2>3. filesList' \subseteq Files
    BY <2>1, <2>2
  <2>4. fileBlocks' \in [Files -> SUBSET Blocks]
    BY <2>1, <2>2 DEF ListBlocks
  <2>5. NumOf[c][f] \in Nat
    BY <2>2
  <2>6. numberOfBlocks' \in [Files -> Nat]
    BY <2>1, <2>2, <2>5
  <2>7. isComplete' \in [Files -> BOOLEAN]
    BY <2>1, <2>2 DEF CompleteWith
  <2>8. todo' \in [Conns -> SUBSET Files]
    BY <2>1, <2>2
  <2>9. TypeOK'
    BY <1>9, <2>3, <2>4, <2>6, <2>7, <2>8 DEF MakeBlocksList
  <2>10. Roles'
    BY <1>9 DEF MakeBlocksList
  <2> QED BY <2>9, <2>10
<1>10. ASSUME NEW c \in Conns, GetFilesReturn(c) PROVE TypeOK' /\ Roles'
  <2>1. pc' \in [Conns -> PCs]
    BY <1>10 DEF GetFilesReturn, Goto, PCs
  <2>2. filesLock' \in Conns \cup {NoConn}
    BY <1>10 DEF GetFilesReturn
  <2>3. TypeOK'
    BY <1>10, <2>1, <2>2 DEF GetFilesReturn
  <2>4. Roles'
    BY <1>10 DEF GetFilesReturn, Goto
  <2> QED BY <2>3, <2>4
<1>11. ASSUME NEW c \in Conns, GetPeerInfo(c) PROVE TypeOK' /\ Roles'
  <2>1. pc' \in [Conns -> PCs]
    BY <1>11 DEF GetPeerInfo, Goto, PCs
  <2>2. draw' \in [Conns -> Draws]
    <3>1. held[c] \in Blocks /\ draw' = [draw EXCEPT ![c].peers = holders[held[c]]]
      BY <1>11 DEF GetPeerInfo
    <3>2. holders[held[c]] \in [Main -> Nat] /\ draw \in [Conns -> Draws]
      BY <3>1
    <3> HIDE DEF TypeOK, Roles
    <3> QED BY <3>1, <3>2, DrawType
  <2>3. fault' \in Faults
    BY <1>11 DEF GetPeerInfo, FaultAt, Faults
  <2>4. TypeOK'
    BY <1>11, <2>1, <2>2, <2>3 DEF GetPeerInfo
  <2>5. Roles'
    BY <1>11 DEF GetPeerInfo, Goto
  <2> QED BY <2>4, <2>5
<1>22. ASSUME NEW c \in Conns, ListAt(c) PROVE TypeOK' /\ Roles'
  <2>1. pc' \in [Conns -> PCs]
    BY <1>22 DEF ListAt, Goto, PCs
  <2>2. draw' \in [Conns -> Draws]
    <3>1. \/ UNCHANGED draw
          \/ draw[c].left # 1 /\ draw' = [draw EXCEPT ![c].left = @ - 1]
          \/ \E m \in Main : draw' = [draw EXCEPT ![c].peer = {m}]
      BY <1>22 DEF ListAt
    <3>2. draw \in [Conns -> Draws]
      OBVIOUS
    <3> HIDE DEF TypeOK, Roles
    <3>3. CASE draw[c].left # 1 /\ draw' = [draw EXCEPT ![c].left = @ - 1]
      <4>1. [draw EXCEPT ![c].left = @ - 1] \in [Conns -> Draws]
        BY <3>2, <3>3, DrawType
      <4> QED BY <3>3, <4>1
    <3>4. CASE \E m \in Main : draw' = [draw EXCEPT ![c].peer = {m}]
      <4>1. \A m \in Main : [draw EXCEPT ![c].peer = {m}] \in [Conns -> Draws]
        BY <3>2, DrawType
      <4> QED BY <3>4, <4>1
    <3> QED BY <3>1, <3>2, <3>3, <3>4
  <2>3. fault' \in Faults
    BY <1>22 DEF ListAt, FaultAt, Faults
  <2>4. TypeOK'
    BY <1>22, <2>1, <2>2, <2>3 DEF ListAt
  <2>5. Roles'
    <3>1. pc[c] = "list_at" /\ UNCHANGED <<held, started, todo>>
      BY <1>22 DEF ListAt, clientVars
    <3>2. UNCHANGED pc \/ \E l \in {"GetPeerInfo", "ReadPeer"} : pc' = [pc EXCEPT ![c] = l]
      BY <1>22 DEF ListAt, Goto
    <3>3. held[c] \in Blocks /\ c \notin Main
      BY <3>1
    <3>4. CASE UNCHANGED pc
      <4>1. UNCHANGED <<pc, held, started, todo>> /\ Roles
        BY <3>1, <3>4
      <4> HIDE DEF TypeOK, Roles
      <4> QED BY <4>1 DEF Roles
    <3>5. CASE \E l \in {"GetPeerInfo", "ReadPeer"} : pc' = [pc EXCEPT ![c] = l]
      <4>1. PICK l \in {"GetPeerInfo", "ReadPeer"} : pc' = [pc EXCEPT ![c] = l]
        BY <3>5
      <4>2. /\ pc \in [Conns -> PCs] /\ Roles /\ UNCHANGED <<held, started, todo>>
            /\ held[c] \in Blocks /\ c \notin Main
        BY <3>1, <3>3
      <4> HIDE DEF TypeOK, Roles
      <4> QED BY <4>1, <4>2 DEF Roles
    <3> QED BY <3>2, <3>4, <3>5
  <2> QED BY <2>4, <2>5
<1>23. ASSUME NEW c \in Conns, ReadPeer(c) PROVE TypeOK' /\ Roles'
  <2>1. pc' \in [Conns -> PCs]
    BY <1>23 DEF ReadPeer, Goto, PCs
  <2>2. held' \in [Conns -> Blocks \cup {NoBlock}] /\ gone' \in [Conns -> BOOLEAN]
    BY <1>23 DEF ReadPeer, DropBlock
  <2>3. draw' \in [Conns -> Draws]
    BY <1>23, AttemptsAssumption DEF ReadPeer, Draws, NoDraw
  <2>4. dl' \in [Conns -> [Blocks -> DlStates]]
    <3>1. c \in Conns /\ held[c] \in Blocks
      BY <1>23 DEF ReadPeer
    <3>2. dl' = [dl EXCEPT ![c][held[c]] = "named"]
      BY <1>23 DEF ReadPeer
    <3>3. "named" \in DlStates
      BY DEF DlStates
    <3>4. dl \in [Conns -> [Blocks -> DlStates]]
      OBVIOUS
    <3> HIDE DEF TypeOK, Roles
    <3> QED BY <3>1, <3>2, <3>3, <3>4, DlType
  <2>5. fault' \in Faults
    BY <1>23 DEF ReadPeer, Faults
  <2>6. TypeOK'
    BY <1>23, <2>1, <2>2, <2>3, <2>4, <2>5 DEF ReadPeer
  <2>7. Roles'
    BY <1>23 DEF ReadPeer, Goto, DropBlock
  <2> QED BY <2>6, <2>7
<1>12. ASSUME NEW c \in Conns, AddPeerToBlock(c) PROVE TypeOK' /\ Roles'
  <2>1. pc' \in [Conns -> PCs]
    BY <1>12 DEF AddPeerToBlock, Goto, PCs
  <2>2. found' \in [Conns -> SUBSET Main]
    <3>1. \A i \in 1..Len(peersList) : peersList[i] \in Main
      OBVIOUS
    <3>2. Len(peersList) \in Nat
      OBVIOUS
    <3>3. CASE \E i \in 1..Len(peersList) : found' = [found EXCEPT ![c] = {peersList[i]}]
      BY <3>1, <3>3
    <3>4. CASE found' = [found EXCEPT ![c] = IF Len(peersList) = 0 THEN {} ELSE {peersList[Len(peersList)]}]
      BY <3>1, <3>2, <3>4
    <3> QED BY <1>12, <3>3, <3>4 DEF AddPeerToBlock
  <2>3. fault' \in Faults
    BY <1>12 DEF AddPeerToBlock, FaultAt, Faults
  <2>4. TypeOK'
    BY <1>12, <2>1, <2>2, <2>3 DEF AddPeerToBlock
  <2>5. Roles'
    BY <1>12 DEF AddPeerToBlock, Goto
  <2> QED BY <2>4, <2>5
<1>13. ASSUME NEW c \in Conns, PushPeer(c) PROVE TypeOK' /\ Roles'
  <2>1. pc' \in [Conns -> PCs]
    BY <1>13 DEF PushPeer, Goto, PCs
  <2>2. held' \in [Conns -> Blocks \cup {NoBlock}]
    BY <1>13 DEF PushPeer, DropBlock
  <2>3. gone' \in [Conns -> BOOLEAN]
    BY <1>13 DEF PushPeer, DropBlock
  <2>4. found' \in [Conns -> SUBSET Main]
    BY <1>13 DEF PushPeer
  <2>5. holders' \in [Blocks -> [Main -> Nat]]
    <3>1. held[c] \in Blocks
      BY <1>13 DEF PushPeer
    <3>2. [m \in Main |-> IF m \in found[c] THEN holders[held[c]][m] + 1 ELSE holders[held[c]][m]] \in [Main -> Nat]
      <4>1. holders[held[c]] \in [Main -> Nat]
        BY <3>1
      <4> HIDE DEF TypeOK, Roles
      <4> QED BY <4>1, BagAddAll
    <3> QED BY <1>13, <3>1, <3>2 DEF PushPeer
  <2>6. fault' \in Faults
    BY <1>13 DEF PushPeer, ChangeAt, FaultAt, Faults
  <2>7. TypeOK'
    BY <1>13, <2>1, <2>2, <2>3, <2>4, <2>5, <2>6 DEF PushPeer
  <2>8. Roles'
    BY <1>13 DEF PushPeer, Goto, DropBlock
  <2> QED BY <2>7, <2>8
<1>14. ASSUME NEW c \in Conns, RemoveFromGlobal(c) PROVE TypeOK' /\ Roles'
  <2>1. pc' \in [Conns -> PCs]
    BY <1>14 DEF RemoveFromGlobal, Goto, PCs
  <2>2. peersList' \in Seq(Main)
    <3>1. \/ UNCHANGED peersList
          \/ \E i \in 1..Len(peersList) :
               peersList' = SubSeq(peersList, 1, i-1) \o SubSeq(peersList, i+1, Len(peersList))
      BY <1>14 DEF RemoveFromGlobal
    <3>2. peersList \in Seq(Main)
      OBVIOUS
    <3> HIDE DEF TypeOK, Roles
    <3>3. \A i \in 1..Len(peersList) :
            SubSeq(peersList, 1, i-1) \o SubSeq(peersList, i+1, Len(peersList)) \in Seq(Main)
      BY <3>2, RemovalType
    <3> QED BY <3>1, <3>2, <3>3
  <2>3. fault' \in Faults
    BY <1>14 DEF RemoveFromGlobal, FaultAt, Faults
  <2>4. TypeOK'
    BY <1>14, <2>1, <2>2, <2>3 DEF RemoveFromGlobal
  <2>5. Roles'
    BY <1>14 DEF RemoveFromGlobal, Goto
  <2> QED BY <2>4, <2>5
<1>15. ASSUME NEW c \in Conns, RemoveFromBlocks(c) PROVE TypeOK' /\ Roles'
  <2>1. pc' \in [Conns -> PCs]
    BY <1>15 DEF RemoveFromBlocks, Goto, PCs
  <2>2. holders' \in [Blocks -> [Main -> Nat]]
    <3>1. \A b \in Blocks : [holders[b] EXCEPT ![c] = OneLess(@)] \in [Main -> Nat]
      BY BagOneLess
    <3> QED BY <1>15, <3>1 DEF RemoveFromBlocks
  <2>3. fault' \in Faults
    BY <1>15 DEF RemoveFromBlocks, ChangeAt, FaultAt, Faults
  <2>4. TypeOK'
    BY <1>15, <2>1, <2>2, <2>3 DEF RemoveFromBlocks
  <2>5. Roles'
    BY <1>15 DEF RemoveFromBlocks, Goto
  <2> QED BY <2>4, <2>5
<1>16. ASSUME NEW c \in Conns, FreePeer(c) PROVE TypeOK' /\ Roles'
  <2>1. pc' \in [Conns -> PCs]
    BY <1>16 DEF FreePeer, Goto, PCs
  <2>2. TypeOK'
    BY <1>16, <2>1 DEF FreePeer
  <2>3. Roles'
    BY <1>16 DEF FreePeer, Goto
  <2> QED BY <2>2, <2>3
<1>17. ASSUME NEW c \in Conns, CheckBlocksList(c) PROVE TypeOK' /\ Roles'
  <2>1. pc' \in [Conns -> PCs]
    BY <1>17 DEF CheckBlocksList, Goto, PCs
  <2>2. blocksLock' \in Conns \cup {NoConn}
    BY <1>17 DEF CheckBlocksList
  <2>3. TypeOK'
    BY <1>17, <2>1, <2>2 DEF CheckBlocksList
  <2>4. Roles'
    BY <1>17 DEF CheckBlocksList, Goto
  <2> QED BY <2>3, <2>4
<1>18. ASSUME NEW c \in Conns, CheckNextBlock(c) PROVE TypeOK' /\ Roles'
  <2>1. pc' \in [Conns -> PCs]
    BY <1>18 DEF CheckNextBlock, Goto, PCs
  <2>2. held' \in [Conns -> Blocks \cup {NoBlock}]
    BY <1>18 DEF CheckNextBlock
  <2>3. gone' \in [Conns -> BOOLEAN]
    BY <1>18 DEF CheckNextBlock
  <2>4. fault' \in Faults
    BY <1>18 DEF CheckNextBlock, FaultAt, Faults
  <2>5. TypeOK'
    BY <1>18, <2>1, <2>2, <2>3, <2>4 DEF CheckNextBlock
  <2>6. Roles'
    BY <1>18 DEF CheckNextBlock, Goto
  <2> QED BY <2>5, <2>6
<1>19. ASSUME NEW c \in Conns, RemoveFromParentFile(c) PROVE TypeOK' /\ Roles'
  <2>1. pc' \in [Conns -> PCs]
    BY <1>19 DEF RemoveFromParentFile, Goto, PCs
  <2>2. fileBlocks' \in [Files -> SUBSET Blocks]
    <3>1. CASE FileOf[held[c]] \in filesList
      <4>1. fileBlocks[FileOf[held[c]]] \ {held[c]} \in SUBSET Blocks
        BY <3>1
      <4>2. fileBlocks' = [fileBlocks EXCEPT ![FileOf[held[c]]] = fileBlocks[FileOf[held[c]]] \ {held[c]}]
        BY <1>19, <3>1 DEF RemoveFromParentFile
      <4> QED BY <4>1, <4>2
    <3>2. CASE FileOf[held[c]] \notin filesList
      BY <1>19, <3>2 DEF RemoveFromParentFile
    <3> QED BY <3>1, <3>2
  <2>3. filesList' \subseteq Files
    BY <1>19 DEF RemoveFromParentFile, Emptied, CompleteWith
  <2>4. numberOfBlocks' \in [Files -> Nat]
    <3>1. CASE FileOf[held[c]] \in filesList
      <4> DEFINE f == FileOf[held[c]]
                 n == IF Emptied(fileBlocks[f] \ {held[c]}) THEN 0 ELSE numberOfBlocks[f]
      <4>1. numberOfBlocks' = [numberOfBlocks EXCEPT ![f] = n]
        BY <1>19, <3>1 DEF RemoveFromParentFile
      <4>2. n \in Nat /\ numberOfBlocks \in [Files -> Nat]
        BY <3>1
      <4> HIDE DEF n
      <4> QED BY <4>1, <4>2, UpdateType
    <3>2. CASE FileOf[held[c]] \notin filesList
      BY <1>19, <3>2 DEF RemoveFromParentFile
    <3> QED BY <3>1, <3>2
  <2>5. isComplete' \in [Files -> BOOLEAN]
    <3>1. CASE FileOf[held[c]] \in filesList
      <4> DEFINE f == FileOf[held[c]]
                 blocks == fileBlocks[f] \ {held[c]}
                 v == /\ ~ Emptied(blocks)
                      /\ IF held[c] \in fileBlocks[f] THEN CompleteWith(f, blocks, numberOfBlocks[f])
                                                      ELSE isComplete[f]
      <4>1. isComplete' = [isComplete EXCEPT ![f] = v]
        BY <1>19, <3>1 DEF RemoveFromParentFile
      <4>2. v \in BOOLEAN /\ isComplete \in [Files -> BOOLEAN]
        OBVIOUS
      <4> HIDE DEF v
      <4> QED BY <4>1, <4>2, UpdateType
    <3>2. CASE FileOf[held[c]] \notin filesList
      BY <1>19, <3>2 DEF RemoveFromParentFile
    <3> QED BY <3>1, <3>2
  <2>6. TypeOK'
    BY <1>19, <2>1, <2>2, <2>3, <2>4, <2>5 DEF RemoveFromParentFile
  <2>7. Roles'
    BY <1>19 DEF RemoveFromParentFile, Goto
  <2> QED BY <2>6, <2>7
<1>20. ASSUME NEW c \in Conns, FreeBlock(c) PROVE TypeOK' /\ Roles'
  <2>1. pc' \in [Conns -> PCs]
    BY <1>20 DEF FreeBlock, Goto, PCs
  <2>2. blocksList' \subseteq Blocks
    BY <1>20 DEF FreeBlock
  <2>3. holders' \in [Blocks -> [Main -> Nat]]
    BY <1>20 DEF FreeBlock
  <2>4. held' \in [Conns -> Blocks \cup {NoBlock}]
    BY <1>20 DEF FreeBlock
  <2>5. gone' \in [Conns -> BOOLEAN]
    BY <1>20 DEF FreeBlock
  <2>6. fault' \in Faults
    BY <1>20 DEF FreeBlock, ChangeAt, FaultAt, Faults
  <2>7. TypeOK'
    BY <1>20, <2>1, <2>2, <2>3, <2>4, <2>5, <2>6 DEF FreeBlock
  <2>8. Roles'
    BY <1>20 DEF FreeBlock, Goto
  <2> QED BY <2>7, <2>8
<1>21. ASSUME NEW c \in Conns, CheckBlocksReturn(c) PROVE TypeOK' /\ Roles'
  <2>1. pc' \in [Conns -> PCs]
    BY <1>21 DEF CheckBlocksReturn, Goto, PCs
  <2>2. blocksLock' \in Conns \cup {NoConn}
    BY <1>21 DEF CheckBlocksReturn
  <2>3. fault' \in Faults
    BY <1>21 DEF CheckBlocksReturn, FaultAt, Faults
  <2>4. TypeOK'
    BY <1>21, <2>1, <2>2, <2>3 DEF CheckBlocksReturn
  <2>5. Roles'
    BY <1>21 DEF CheckBlocksReturn, Goto
  <2> QED BY <2>4, <2>5
<1> QED
  BY <1>0, <1>1, <1>2, <1>3, <1>4, <1>5, <1>6, <1>7, <1>8, <1>9, <1>10, <1>11, <1>12, <1>13,
     <1>14, <1>15, <1>16, <1>17, <1>18, <1>19, <1>20, <1>21, <1>22, <1>23 DEF Next, Client, Serve

\* Each mutex is held exactly in its critical sections: the threads exclude
\* each other there.
LEMMA LockStep == TypeInv /\ LockOwners /\ [Next]_vars => LockOwners'
<1> SUFFICES ASSUME pc \in [Conns -> PCs], LockOwners, [Next]_vars
             PROVE  LockOwners'
  BY DEF TypeInv, TypeOK
<1> USE ConnsAssumption DEF LockOwners, Goto, lockVars
<1>0. CASE UNCHANGED vars
  BY <1>0 DEF vars, threadVars
<1>1. ASSUME NEW c \in Conns, Connect(c) PROVE LockOwners'
  BY <1>1 DEF Connect, threadVars
<1>2. ASSUME NEW c \in Conns, Disconnect(c) PROVE LockOwners'
  BY <1>2 DEF Disconnect, threadVars
<1>3. ASSUME NEW c \in Conns, AddPeer(c) PROVE LockOwners'
  BY <1>3 DEF AddPeer, threadVars
<1>4. ASSUME NEW c \in Conns, SendFilesList(c) PROVE LockOwners'
  BY <1>4 DEF SendFilesList, threadVars
<1>5. ASSUME NEW c \in Conns, ProcessBlockRequest(c) PROVE LockOwners'
  BY <1>5 DEF ProcessBlockRequest, threadVars
<1>6. ASSUME NEW c \in Conns, ReceiveSuccess(c) PROVE LockOwners'
  BY <1>6 DEF ReceiveSuccess, threadVars
<1>7. ASSUME NEW c \in Conns, AddBlocks(c) PROVE LockOwners'
  BY <1>7 DEF AddBlocks, threadVars
<1>8. ASSUME NEW c \in Conns, GetFiles(c) PROVE LockOwners'
  BY <1>8 DEF GetFiles, threadVars
<1>9. ASSUME NEW c \in Conns, MakeBlocksList(c) PROVE LockOwners'
  BY <1>9 DEF MakeBlocksList, threadVars
<1>10. ASSUME NEW c \in Conns, GetFilesReturn(c) PROVE LockOwners'
  BY <1>10 DEF GetFilesReturn, threadVars
<1>11. ASSUME NEW c \in Conns, GetPeerInfo(c) PROVE LockOwners'
  BY <1>11 DEF GetPeerInfo, threadVars
<1>22. ASSUME NEW c \in Conns, ListAt(c) PROVE LockOwners'
  BY <1>22 DEF ListAt, threadVars
<1>23. ASSUME NEW c \in Conns, ReadPeer(c) PROVE LockOwners'
  BY <1>23 DEF ReadPeer, threadVars
<1>12. ASSUME NEW c \in Conns, AddPeerToBlock(c) PROVE LockOwners'
  BY <1>12 DEF AddPeerToBlock, threadVars
<1>13. ASSUME NEW c \in Conns, PushPeer(c) PROVE LockOwners'
  BY <1>13 DEF PushPeer, threadVars
<1>14. ASSUME NEW c \in Conns, RemoveFromGlobal(c) PROVE LockOwners'
  BY <1>14 DEF RemoveFromGlobal, threadVars
<1>15. ASSUME NEW c \in Conns, RemoveFromBlocks(c) PROVE LockOwners'
  BY <1>15 DEF RemoveFromBlocks, threadVars
<1>16. ASSUME NEW c \in Conns, FreePeer(c) PROVE LockOwners'
  BY <1>16 DEF FreePeer, threadVars
<1>17. ASSUME NEW c \in Conns, CheckBlocksList(c) PROVE LockOwners'
  BY <1>17 DEF CheckBlocksList, threadVars
<1>18. ASSUME NEW c \in Conns, CheckNextBlock(c) PROVE LockOwners'
  BY <1>18 DEF CheckNextBlock, threadVars
<1>19. ASSUME NEW c \in Conns, RemoveFromParentFile(c) PROVE LockOwners'
  BY <1>19 DEF RemoveFromParentFile, threadVars
<1>20. ASSUME NEW c \in Conns, FreeBlock(c) PROVE LockOwners'
  BY <1>20 DEF FreeBlock, threadVars
<1>21. ASSUME NEW c \in Conns, CheckBlocksReturn(c) PROVE LockOwners'
  BY <1>21 DEF CheckBlocksReturn, threadVars
<1> QED
  BY <1>0, <1>1, <1>2, <1>3, <1>4, <1>5, <1>6, <1>7, <1>8, <1>9, <1>10, <1>11, <1>12, <1>13,
     <1>14, <1>15, <1>16, <1>17, <1>18, <1>19, <1>20, <1>21, <1>22, <1>23 DEF Next, Client, Serve

\* The safety properties, with what makes them inductive together.
SafetyInv == TypeInv /\ LockOwners /\ VictimIsFree /\ FileListsWellFormed /\ AnnouncedFindable

\* A file lists listed blocks only.
LEMMA FileListsStep == SafetyInv /\ [Next]_vars => FileListsWellFormed'
<1> SUFFICES ASSUME pc \in [Conns -> PCs], held \in [Conns -> Blocks \cup {NoBlock}], blocksList \subseteq Blocks,
                    started \subseteq Main, holders \in [Blocks -> [Main -> Nat]], todo \in [Conns -> SUBSET Files],
                    fileBlocks \in [Files -> SUBSET Blocks], filesList \subseteq Files,
                    numberOfBlocks \in [Files -> Nat], isComplete \in [Files -> BOOLEAN],
                    Roles, LockOwners, VictimIsFree, FileListsWellFormed, AnnouncedFindable, [Next]_vars
             PROVE  FileListsWellFormed'
  BY DEF SafetyInv, TypeInv, TypeOK
<1> USE ConnsAssumption, DataAssumption DEF FileListsWellFormed, Goto, BlocksOf
<1>0. CASE UNCHANGED vars
  BY <1>0 DEF vars, threadVars, clientVars, fileVars, blockVars, lockVars
<1>1. ASSUME NEW c \in Conns, Connect(c) PROVE FileListsWellFormed'
  BY <1>1 DEF Connect, threadVars, clientVars, fileVars, blockVars, lockVars
<1>2. ASSUME NEW c \in Conns, Disconnect(c) PROVE FileListsWellFormed'
  BY <1>2 DEF Disconnect, threadVars, clientVars, fileVars, blockVars, lockVars
<1>3. ASSUME NEW c \in Conns, AddPeer(c) PROVE FileListsWellFormed'
  BY <1>3 DEF AddPeer, threadVars, clientVars, fileVars, blockVars, lockVars
<1>4. ASSUME NEW c \in Conns, SendFilesList(c) PROVE FileListsWellFormed'
  BY <1>4 DEF SendFilesList, threadVars, clientVars, fileVars, blockVars, lockVars
<1>5. ASSUME NEW c \in Conns, ProcessBlockRequest(c) PROVE FileListsWellFormed'
  BY <1>5 DEF ProcessBlockRequest, threadVars, clientVars, fileVars, blockVars, lockVars
<1>6. ASSUME NEW c \in Conns, ReceiveSuccess(c) PROVE FileListsWellFormed'
  BY <1>6 DEF ReceiveSuccess, threadVars, clientVars, fileVars, blockVars, lockVars
<1>7. ASSUME NEW c \in Conns, AddBlocks(c) PROVE FileListsWellFormed'
  BY <1>7 DEF AddBlocks, threadVars, clientVars, fileVars, blockVars, lockVars
<1>8. ASSUME NEW c \in Conns, GetFiles(c) PROVE FileListsWellFormed'
  BY <1>8 DEF GetFiles, threadVars, clientVars, fileVars, blockVars, lockVars
<1>9. ASSUME NEW c \in Conns, MakeBlocksList(c) PROVE FileListsWellFormed'
  <2>1. PICK f \in todo[c] :
          LET blocks == ListBlocks(f)
              number == IF f \in filesList THEN numberOfBlocks[f] ELSE NumOf[c][f]
          IN /\ filesList' = filesList \cup {f}
             /\ fileBlocks' = [fileBlocks EXCEPT ![f] = blocks]
             /\ numberOfBlocks' = [numberOfBlocks EXCEPT ![f] = number]
             /\ isComplete' = [isComplete EXCEPT ![f] = CompleteWith(f, blocks, number)]
    BY <1>9 DEF MakeBlocksList
  <2>2. f \in Files /\ blocksList' = blocksList
    BY <1>9 DEF MakeBlocksList, blockVars
  <2>3. f \in filesList' /\ fileBlocks'[f] = fileBlocks[f] \cup (blocksList \cap BlocksOf(f))
    BY <2>1, <2>2 DEF ListBlocks
  <2>4. isComplete'[f] <=> Cardinality(fileBlocks'[f]) = numberOfBlocks'[f]
    <3> DEFINE number == IF f \in filesList THEN numberOfBlocks[f] ELSE NumOf[c][f]
    <3>1. fileBlocks'[f] = ListBlocks(f)
      BY <2>1, <2>2
    <3>2. numberOfBlocks'[f] = number
      BY <2>1, <2>2
    <3>3. isComplete'[f] = CompleteWith(f, ListBlocks(f), number)
      BY <2>1, <2>2
    <3> HIDE DEF number
    <3> QED BY <3>1, <3>2, <3>3 DEF CompleteWith
  <2>5. \A g \in Files \ {f} : /\ fileBlocks'[g] = fileBlocks[g] /\ (g \in filesList' <=> g \in filesList)
                               /\ numberOfBlocks'[g] = numberOfBlocks[g] /\ isComplete'[g] = isComplete[g]
    BY <2>1, <2>2
  <2>6. /\ fileBlocks'[f] \subseteq blocksList' \cap BlocksOf(f)
        /\ f \in filesList'
    BY <2>2, <2>3
  <2> HIDE DEF BlocksOf
  <2>8. ASSUME NEW g \in Files
        PROVE  /\ fileBlocks'[g] \subseteq blocksList' \cap BlocksOf(g)
               /\ g \notin filesList' => fileBlocks'[g] = {}
               /\ g \in filesList' => (isComplete'[g] <=> Cardinality(fileBlocks'[g]) = numberOfBlocks'[g])
    <3>1. CASE g = f
      BY <2>4, <2>6, <3>1
    <3>2. CASE g # f
      <4>1. /\ fileBlocks'[g] = fileBlocks[g] /\ (g \in filesList' <=> g \in filesList)
            /\ numberOfBlocks'[g] = numberOfBlocks[g] /\ isComplete'[g] = isComplete[g]
        BY <2>5, <3>2
      <4>2. /\ fileBlocks[g] \subseteq blocksList \cap BlocksOf(g)
            /\ g \notin filesList => fileBlocks[g] = {}
        OBVIOUS
      <4>3. g \in filesList => (isComplete[g] <=> Cardinality(fileBlocks[g]) = numberOfBlocks[g])
        OBVIOUS
      <4> HIDE DEF FileListsWellFormed
      <4>4. g \in filesList' => (isComplete'[g] <=> Cardinality(fileBlocks'[g]) = numberOfBlocks'[g])
        BY <4>1, <4>3
      <4> QED BY <2>2, <4>1, <4>2, <4>4
    <3> QED BY <3>1, <3>2
  <2> QED BY <2>8 DEF BlocksOf
<1>10. ASSUME NEW c \in Conns, GetFilesReturn(c) PROVE FileListsWellFormed'
  BY <1>10 DEF GetFilesReturn, threadVars, clientVars, fileVars, blockVars, lockVars
<1>11. ASSUME NEW c \in Conns, GetPeerInfo(c) PROVE FileListsWellFormed'
  BY <1>11 DEF GetPeerInfo, threadVars, clientVars, fileVars, blockVars, lockVars
<1>22. ASSUME NEW c \in Conns, ListAt(c) PROVE FileListsWellFormed'
  BY <1>22 DEF ListAt, threadVars, clientVars, fileVars, blockVars, lockVars
<1>23. ASSUME NEW c \in Conns, ReadPeer(c) PROVE FileListsWellFormed'
  BY <1>23 DEF ReadPeer, threadVars, clientVars, fileVars, blockVars, lockVars
<1>12. ASSUME NEW c \in Conns, AddPeerToBlock(c) PROVE FileListsWellFormed'
  BY <1>12 DEF AddPeerToBlock, threadVars, clientVars, fileVars, blockVars, lockVars
<1>13. ASSUME NEW c \in Conns, PushPeer(c) PROVE FileListsWellFormed'
  BY <1>13 DEF PushPeer, threadVars, clientVars, fileVars, blockVars, lockVars
<1>14. ASSUME NEW c \in Conns, RemoveFromGlobal(c) PROVE FileListsWellFormed'
  BY <1>14 DEF RemoveFromGlobal, threadVars, clientVars, fileVars, blockVars, lockVars
<1>15. ASSUME NEW c \in Conns, RemoveFromBlocks(c) PROVE FileListsWellFormed'
  BY <1>15 DEF RemoveFromBlocks, threadVars, clientVars, fileVars, blockVars, lockVars
<1>16. ASSUME NEW c \in Conns, FreePeer(c) PROVE FileListsWellFormed'
  BY <1>16 DEF FreePeer, threadVars, clientVars, fileVars, blockVars, lockVars
<1>17. ASSUME NEW c \in Conns, CheckBlocksList(c) PROVE FileListsWellFormed'
  BY <1>17 DEF CheckBlocksList, threadVars, clientVars, fileVars, blockVars, lockVars
<1>18. ASSUME NEW c \in Conns, CheckNextBlock(c) PROVE FileListsWellFormed'
  BY <1>18 DEF CheckNextBlock, threadVars, clientVars, fileVars, blockVars, lockVars
<1>19. ASSUME NEW c \in Conns, RemoveFromParentFile(c) PROVE FileListsWellFormed'
  <2>1. CASE FileOf[held[c]] \notin filesList
    BY <1>19, <2>1 DEF RemoveFromParentFile, fileVars, blockVars
  <2>2. CASE FileOf[held[c]] \in filesList
    <3> DEFINE b == held[c]
               f == FileOf[b]
               blocks == fileBlocks[f] \ {b}
               v == /\ ~ (blocks = {})
                    /\ IF b \in fileBlocks[f] THEN Cardinality(blocks) = numberOfBlocks[f] ELSE isComplete[f]
    <3>1. /\ fileBlocks' = [fileBlocks EXCEPT ![f] = blocks]
          /\ filesList' = IF blocks = {} THEN filesList \ {f} ELSE filesList
          /\ numberOfBlocks' = [numberOfBlocks EXCEPT ![f] = IF blocks = {} THEN 0 ELSE numberOfBlocks[f]]
          /\ isComplete' = [isComplete EXCEPT ![f] = v]
          /\ blocksList' = blocksList
      BY <1>19, <2>2 DEF RemoveFromParentFile, Emptied, CompleteWith, blockVars
    <3>2. f \in Files /\ (b \notin fileBlocks[f] => blocks = fileBlocks[f])
      BY <2>2
    <3>3. isComplete'[f] = v /\ \A g \in Files \ {f} : isComplete'[g] = isComplete[g]
      <4>1. isComplete' = [isComplete EXCEPT ![f] = v] /\ f \in Files /\ isComplete \in [Files -> BOOLEAN]
        BY <3>1, <3>2
      <4> HIDE DEF v, f
      <4> QED BY <4>1, UpdateAt
    <3>4. blocks # {} => (isComplete'[f] <=> Cardinality(blocks) = numberOfBlocks[f])
      <4>1. CASE b \in fileBlocks[f]
        BY <3>3, <4>1
      <4>2. CASE b \notin fileBlocks[f]
        <5>1. isComplete[f] <=> Cardinality(fileBlocks[f]) = numberOfBlocks[f]
          BY <2>2, <3>2
        <5> QED BY <3>2, <3>3, <4>2, <5>1
      <4> QED BY <4>1, <4>2
    <3>5. \A g \in Files \ {f} : /\ fileBlocks'[g] = fileBlocks[g] /\ (g \in filesList' <=> g \in filesList)
                                 /\ numberOfBlocks'[g] = numberOfBlocks[g] /\ isComplete'[g] = isComplete[g]
      <4> SUFFICES ASSUME NEW g \in Files \ {f}
                   PROVE  /\ fileBlocks'[g] = fileBlocks[g] /\ (g \in filesList' <=> g \in filesList)
                          /\ numberOfBlocks'[g] = numberOfBlocks[g] /\ isComplete'[g] = isComplete[g]
        OBVIOUS
      <4>1. fileBlocks'[g] = fileBlocks[g]
        BY <3>1
      <4>2. g \in filesList' <=> g \in filesList
        BY <3>1
      <4>3. numberOfBlocks'[g] = numberOfBlocks[g]
        BY <3>1
      <4>4. isComplete'[g] = isComplete[g]
        BY <3>3
      <4> QED BY <4>1, <4>2, <4>3, <4>4
    <3>6. /\ fileBlocks'[f] = blocks /\ (f \in filesList' <=> blocks # {})
          /\ blocks # {} => numberOfBlocks'[f] = numberOfBlocks[f]
      BY <2>2, <3>1, <3>2
    <3> QED BY <3>1, <3>2, <3>4, <3>5, <3>6
  <2> QED BY <2>1, <2>2
<1>20. ASSUME NEW c \in Conns, FreeBlock(c) PROVE FileListsWellFormed'
  BY <1>20 DEF FreeBlock, threadVars, clientVars, fileVars, blockVars, lockVars
<1>21. ASSUME NEW c \in Conns, CheckBlocksReturn(c) PROVE FileListsWellFormed'
  BY <1>21 DEF CheckBlocksReturn, threadVars, clientVars, fileVars, blockVars, lockVars
<1> QED
  BY <1>0, <1>1, <1>2, <1>3, <1>4, <1>5, <1>6, <1>7, <1>8, <1>9, <1>10, <1>11, <1>12, <1>13,
     <1>14, <1>15, <1>16, <1>17, <1>18, <1>19, <1>20, <1>21, <1>22, <1>23 DEF Next, Client, Serve

\* The block being freed stays unused until it is freed.
LEMMA VictimStep == SafetyInv /\ [Next]_vars => VictimIsFree'
<1> SUFFICES ASSUME pc \in [Conns -> PCs], held \in [Conns -> Blocks \cup {NoBlock}], blocksList \subseteq Blocks,
                    started \subseteq Main, holders \in [Blocks -> [Main -> Nat]], todo \in [Conns -> SUBSET Files],
                    fileBlocks \in [Files -> SUBSET Blocks], filesList \subseteq Files,
                    numberOfBlocks \in [Files -> Nat], isComplete \in [Files -> BOOLEAN],
                    Roles, LockOwners, VictimIsFree, FileListsWellFormed, AnnouncedFindable, [Next]_vars
             PROVE  VictimIsFree'
  BY DEF SafetyInv, TypeInv, TypeOK
<1> USE ConnsAssumption, DataAssumption DEF VictimIsFree, Goto, Serving
<1>0. CASE UNCHANGED vars
  BY <1>0 DEF vars, threadVars, clientVars, fileVars, blockVars, lockVars
<1>1. ASSUME NEW c \in Conns, Connect(c) PROVE VictimIsFree'
  BY <1>1 DEF Roles, Connect, threadVars, clientVars, fileVars, blockVars, lockVars
<1>2. ASSUME NEW c \in Conns, Disconnect(c) PROVE VictimIsFree'
  BY <1>2 DEF Disconnect, threadVars, clientVars, fileVars, blockVars, lockVars
<1>3. ASSUME NEW c \in Conns, AddPeer(c) PROVE VictimIsFree'
  BY <1>3 DEF AddPeer, threadVars, clientVars, fileVars, blockVars, lockVars
<1>4. ASSUME NEW c \in Conns, SendFilesList(c) PROVE VictimIsFree'
  BY <1>4 DEF SendFilesList, threadVars, clientVars, fileVars, blockVars, lockVars
<1>5. ASSUME NEW c \in Conns, ProcessBlockRequest(c) PROVE VictimIsFree'
  <2>1. \A d \in Conns : pc[d] \notin {"RemoveFromParentFile", "FreeBlock"}
    BY <1>5 DEF ProcessBlockRequest, LockOwners
  <2>2. \A d \in Conns : pc'[d] \notin {"RemoveFromParentFile", "FreeBlock"}
    BY <1>5, <2>1 DEF ProcessBlockRequest
  <2> QED BY <2>2
<1>6. ASSUME NEW c \in Conns, ReceiveSuccess(c) PROVE VictimIsFree'
  <2>1. \A d \in Conns : pc[d] \notin {"RemoveFromParentFile", "FreeBlock"}
    BY <1>6 DEF ReceiveSuccess, LockOwners
  <2>2. \A d \in Conns : pc'[d] \notin {"RemoveFromParentFile", "FreeBlock"}
    BY <1>6, <2>1 DEF ReceiveSuccess
  <2> QED BY <2>2
<1>7. ASSUME NEW c \in Conns, AddBlocks(c) PROVE VictimIsFree'
  <2>1. \A d \in Conns : pc[d] \notin {"RemoveFromParentFile", "FreeBlock"}
    BY <1>7 DEF AddBlocks, LockOwners
  <2>2. \A d \in Conns : pc'[d] \notin {"RemoveFromParentFile", "FreeBlock"}
    BY <1>7, <2>1 DEF AddBlocks
  <2> QED BY <2>2
<1>8. ASSUME NEW c \in Conns, GetFiles(c) PROVE VictimIsFree'
  BY <1>8 DEF GetFiles, threadVars, clientVars, fileVars, blockVars, lockVars
<1>9. ASSUME NEW c \in Conns, MakeBlocksList(c) PROVE VictimIsFree'
  <2>1. \A d \in Conns : pc[d] \notin {"RemoveFromParentFile", "FreeBlock"}
    BY <1>9 DEF MakeBlocksList, LockOwners
  <2>2. \A d \in Conns : pc'[d] \notin {"RemoveFromParentFile", "FreeBlock"}
    BY <1>9, <2>1 DEF MakeBlocksList, threadVars
  <2> QED BY <2>2
<1>10. ASSUME NEW c \in Conns, GetFilesReturn(c) PROVE VictimIsFree'
  BY <1>10 DEF GetFilesReturn, threadVars, clientVars, fileVars, blockVars, lockVars
<1>11. ASSUME NEW c \in Conns, GetPeerInfo(c) PROVE VictimIsFree'
  <2>1. c \notin started
    BY <1>11 DEF GetPeerInfo, Roles
  <2>2. /\ pc' = [pc EXCEPT ![c] = "list_at"] /\ \A x \in Conns \ {c} : held'[x] = held[x]
        /\ UNCHANGED <<started, blocksList, fileBlocks>>
    BY <1>11 DEF GetPeerInfo, Goto, clientVars, blockVars, fileVars
  <2>3. \A m \in Main : Serving(m)' => Serving(m)
    BY <2>1, <2>2
  <2> QED BY <2>2, <2>3
<1>22. ASSUME NEW c \in Conns, ListAt(c) PROVE VictimIsFree'
  <2>1. c \notin started
    BY <1>22 DEF ListAt, Roles
  <2>2. /\ \E l \in {"list_at", "GetPeerInfo", "ReadPeer"} : pc' = [pc EXCEPT ![c] = l]
        /\ \A x \in Conns \ {c} : held'[x] = held[x]
        /\ UNCHANGED <<started, blocksList, fileBlocks>>
    BY <1>22 DEF ListAt, Goto, clientVars, blockVars, fileVars
  <2>3. \A m \in Main : Serving(m)' => Serving(m)
    BY <2>1, <2>2
  <2> QED BY <2>2, <2>3
<1>23. ASSUME NEW c \in Conns, ReadPeer(c) PROVE VictimIsFree'
  <2>1. c \notin started
    BY <1>23 DEF ReadPeer, Roles
  <2>2. /\ pc' = [pc EXCEPT ![c] = "idle"] /\ \A x \in Conns \ {c} : held'[x] = held[x]
        /\ UNCHANGED <<started, blocksList, fileBlocks>>
    BY <1>23 DEF ReadPeer, Goto, DropBlock, clientVars, blockVars, fileVars
  <2>3. \A m \in Main : Serving(m)' => Serving(m)
    BY <2>1, <2>2
  <2> QED BY <2>2, <2>3
<1>12. ASSUME NEW c \in Conns, AddPeerToBlock(c) PROVE VictimIsFree'
  BY <1>12 DEF AddPeerToBlock, threadVars, clientVars, fileVars, blockVars, lockVars
<1>13. ASSUME NEW c \in Conns, PushPeer(c) PROVE VictimIsFree'
  <2>1. c \notin started
    BY <1>13 DEF PushPeer, Roles
  <2>2. /\ pc' = [pc EXCEPT ![c] = "idle"] /\ \A x \in Conns \ {c} : held'[x] = held[x]
        /\ UNCHANGED <<started, blocksList, fileBlocks>>
    BY <1>13 DEF PushPeer, DropBlock, clientVars, blockVars, fileVars
  <2>3. \A m \in Main : Serving(m)' => Serving(m)
    BY <2>1, <2>2
  <2> QED BY <2>2, <2>3
<1>14. ASSUME NEW c \in Conns, RemoveFromGlobal(c) PROVE VictimIsFree'
  BY <1>14 DEF RemoveFromGlobal, threadVars, clientVars, fileVars, blockVars, lockVars
<1>15. ASSUME NEW c \in Conns, RemoveFromBlocks(c) PROVE VictimIsFree'
  BY <1>15 DEF RemoveFromBlocks, threadVars, clientVars, fileVars, blockVars, lockVars
<1>16. ASSUME NEW c \in Conns, FreePeer(c) PROVE VictimIsFree'
  BY <1>16 DEF FreePeer, threadVars, clientVars, fileVars, blockVars, lockVars
<1>17. ASSUME NEW c \in Conns, CheckBlocksList(c) PROVE VictimIsFree'
  BY <1>17 DEF CheckBlocksList, threadVars, clientVars, fileVars, blockVars, lockVars
<1>18. ASSUME NEW c \in Conns, CheckNextBlock(c) PROVE VictimIsFree'
  <2>1. \A d \in Conns \ {c} : pc[d] \notin {"RemoveFromParentFile", "FreeBlock"}
    BY <1>18 DEF CheckNextBlock, LockOwners
  <2>2. PICK b \in blocksList : NobodyHolds(b) /\ held' = [held EXCEPT ![c] = b]
    BY <1>18 DEF CheckNextBlock
  <2>3. \A m \in Main : Serving(m) => b \notin AnnBlocks[m]
    BY <2>2 DEF AnnouncedFindable, NobodyHolds
  <2>4. /\ pc' = [pc EXCEPT ![c] = "RemoveFromParentFile"]
        /\ UNCHANGED <<started, blocksList, fileBlocks>>
    BY <1>18 DEF CheckNextBlock, clientVars, blockVars, fileVars
  <2>5. \A m \in Main : Serving(m)' => Serving(m)
    BY <2>4
  <2> QED BY <2>1, <2>2, <2>3, <2>4, <2>5
<1>19. ASSUME NEW c \in Conns, RemoveFromParentFile(c) PROVE VictimIsFree'
  <2>1. \A d \in Conns \ {c} : pc[d] \notin {"RemoveFromParentFile", "FreeBlock"}
    BY <1>19 DEF RemoveFromParentFile, LockOwners
  <2>2. /\ pc[c] = "RemoveFromParentFile" /\ pc' = [pc EXCEPT ![c] = "FreeBlock"]
        /\ UNCHANGED <<started, blocksList, held>>
    BY <1>19 DEF RemoveFromParentFile, clientVars, blockVars
  <2>3. held[c] \notin fileBlocks'[FileOf[held[c]]]
    <3>1. CASE FileOf[held[c]] \in filesList
      BY <1>19, <3>1 DEF RemoveFromParentFile
    <3>2. CASE FileOf[held[c]] \notin filesList
      BY <1>19, <2>2, <3>2 DEF RemoveFromParentFile, FileListsWellFormed, fileVars
    <3> QED BY <3>1, <3>2
  <2>4. \A m \in Main : Serving(m)' => Serving(m)
    BY <2>2
  <2> QED BY <2>1, <2>2, <2>3, <2>4
<1>20. ASSUME NEW c \in Conns, FreeBlock(c) PROVE VictimIsFree'
  <2>1. \A d \in Conns \ {c} : pc[d] \notin {"RemoveFromParentFile", "FreeBlock"}
    BY <1>20 DEF FreeBlock, LockOwners
  <2>2. \A d \in Conns : pc'[d] \notin {"RemoveFromParentFile", "FreeBlock"}
    BY <1>20, <2>1 DEF FreeBlock
  <2> QED BY <2>2
<1>21. ASSUME NEW c \in Conns, CheckBlocksReturn(c) PROVE VictimIsFree'
  BY <1>21 DEF CheckBlocksReturn, threadVars, clientVars, fileVars, blockVars, lockVars
<1> QED
  BY <1>0, <1>1, <1>2, <1>3, <1>4, <1>5, <1>6, <1>7, <1>8, <1>9, <1>10, <1>11, <1>12, <1>13,
     <1>14, <1>15, <1>16, <1>17, <1>18, <1>19, <1>20, <1>21, <1>22, <1>23 DEF Next, Client, Serve

\* What a peer announced stays listed with it while it serves.
LEMMA AnnouncedStep == SafetyInv /\ [Next]_vars => AnnouncedFindable'
<1> SUFFICES ASSUME pc \in [Conns -> PCs], held \in [Conns -> Blocks \cup {NoBlock}], blocksList \subseteq Blocks,
                    started \subseteq Main, holders \in [Blocks -> [Main -> Nat]], todo \in [Conns -> SUBSET Files],
                    fileBlocks \in [Files -> SUBSET Blocks], filesList \subseteq Files,
                    numberOfBlocks \in [Files -> Nat], isComplete \in [Files -> BOOLEAN],
                    Roles, LockOwners, VictimIsFree, FileListsWellFormed, AnnouncedFindable, [Next]_vars
             PROVE  AnnouncedFindable'
  BY DEF SafetyInv, TypeInv, TypeOK
<1> USE ConnsAssumption, DataAssumption DEF AnnouncedFindable, Goto, Serving
<1>0. CASE UNCHANGED vars
  BY <1>0 DEF vars, threadVars, clientVars, fileVars, blockVars, lockVars
<1>1. ASSUME NEW c \in Conns, Connect(c) PROVE AnnouncedFindable'
  BY <1>1 DEF Roles, Connect, threadVars, clientVars, fileVars, blockVars, lockVars
<1>2. ASSUME NEW c \in Conns, Disconnect(c) PROVE AnnouncedFindable'
  BY <1>2 DEF Disconnect, threadVars, clientVars, fileVars, blockVars, lockVars
<1>3. ASSUME NEW c \in Conns, AddPeer(c) PROVE AnnouncedFindable'
  BY <1>3 DEF AddPeer, threadVars, clientVars, fileVars, blockVars, lockVars
<1>4. ASSUME NEW c \in Conns, SendFilesList(c) PROVE AnnouncedFindable'
  BY <1>4 DEF SendFilesList, threadVars, clientVars, fileVars, blockVars, lockVars
<1>5. ASSUME NEW c \in Conns, ProcessBlockRequest(c) PROVE AnnouncedFindable'
  BY <1>5 DEF ProcessBlockRequest, threadVars, clientVars, fileVars, blockVars, lockVars
<1>6. ASSUME NEW c \in Conns, ReceiveSuccess(c) PROVE AnnouncedFindable'
  BY <1>6 DEF ReceiveSuccess, threadVars, clientVars, fileVars, blockVars, lockVars
<1>7. ASSUME NEW c \in Conns, AddBlocks(c) PROVE AnnouncedFindable'
  BY <1>7 DEF AddBlocks, threadVars, clientVars, fileVars, blockVars, lockVars
<1>8. ASSUME NEW c \in Conns, GetFiles(c) PROVE AnnouncedFindable'
  BY <1>8 DEF GetFiles, threadVars, clientVars, fileVars, blockVars, lockVars
<1>9. ASSUME NEW c \in Conns, MakeBlocksList(c) PROVE AnnouncedFindable'
  BY <1>9 DEF MakeBlocksList, threadVars, clientVars, fileVars, blockVars, lockVars
<1>10. ASSUME NEW c \in Conns, GetFilesReturn(c) PROVE AnnouncedFindable'
  BY <1>10 DEF GetFilesReturn, threadVars, clientVars, fileVars, blockVars, lockVars
<1>11. ASSUME NEW c \in Conns, GetPeerInfo(c) PROVE AnnouncedFindable'
  BY <1>11 DEF Roles, GetPeerInfo, threadVars, clientVars, fileVars, blockVars, lockVars
<1>22. ASSUME NEW c \in Conns, ListAt(c) PROVE AnnouncedFindable'
  BY <1>22 DEF Roles, ListAt, threadVars, clientVars, fileVars, blockVars, lockVars
<1>23. ASSUME NEW c \in Conns, ReadPeer(c) PROVE AnnouncedFindable'
  BY <1>23 DEF Roles, ReadPeer, threadVars, clientVars, fileVars, blockVars, lockVars
<1>12. ASSUME NEW c \in Conns, AddPeerToBlock(c) PROVE AnnouncedFindable'
  BY <1>12 DEF AddPeerToBlock, threadVars, clientVars, fileVars, blockVars, lockVars
<1>13. ASSUME NEW c \in Conns, PushPeer(c) PROVE AnnouncedFindable'
  <2>1. c \notin Main /\ held[c] \in Blocks /\ started' = started /\ blocksList' = blocksList
    BY <1>13 DEF PushPeer, Roles, clientVars
  <2>2. \A b \in Blocks, m \in Main : holders[b][m] > 0 => holders'[b][m] > 0
    <3>1. CASE gone[c]
      BY <1>13, <3>1 DEF PushPeer
    <3>2. CASE ~ gone[c]
      BY <1>13, <2>1, <3>2 DEF PushPeer
    <3> QED BY <3>1, <3>2
  <2>3. \A m \in Main : Serving(m)' => Serving(m)
    BY <1>13, <2>1 DEF PushPeer
  <2> QED BY <2>1, <2>2, <2>3
<1>14. ASSUME NEW c \in Conns, RemoveFromGlobal(c) PROVE AnnouncedFindable'
  BY <1>14 DEF RemoveFromGlobal, threadVars, clientVars, fileVars, blockVars, lockVars
<1>15. ASSUME NEW c \in Conns, RemoveFromBlocks(c) PROVE AnnouncedFindable'
  BY <1>15 DEF RemoveFromBlocks, threadVars, clientVars, fileVars, blockVars, lockVars
<1>16. ASSUME NEW c \in Conns, FreePeer(c) PROVE AnnouncedFindable'
  BY <1>16 DEF FreePeer, threadVars, clientVars, fileVars, blockVars, lockVars
<1>17. ASSUME NEW c \in Conns, CheckBlocksList(c) PROVE AnnouncedFindable'
  BY <1>17 DEF CheckBlocksList, threadVars, clientVars, fileVars, blockVars, lockVars
<1>18. ASSUME NEW c \in Conns, CheckNextBlock(c) PROVE AnnouncedFindable'
  BY <1>18 DEF CheckNextBlock, threadVars, clientVars, fileVars, blockVars, lockVars
<1>19. ASSUME NEW c \in Conns, RemoveFromParentFile(c) PROVE AnnouncedFindable'
  BY <1>19 DEF RemoveFromParentFile, threadVars, clientVars, fileVars, blockVars, lockVars
<1>20. ASSUME NEW c \in Conns, FreeBlock(c) PROVE AnnouncedFindable'
  <2>1. pc[c] = "FreeBlock" /\ held[c] \in Blocks
    BY <1>20 DEF FreeBlock, VictimIsFree
  <2>2. \A m \in Main : Serving(m)' => Serving(m)
    BY <1>20 DEF FreeBlock, clientVars
  <2>3. \A m \in Main : Serving(m) => held[c] \notin AnnBlocks[m]
    BY <2>1 DEF VictimIsFree
  <2>4. /\ blocksList' = blocksList \ {held[c]}
        /\ \A b \in Blocks \ {held[c]} : holders'[b] = holders[b]
    BY <1>20, <2>1 DEF FreeBlock
  <2> QED BY <2>2, <2>3, <2>4
<1>21. ASSUME NEW c \in Conns, CheckBlocksReturn(c) PROVE AnnouncedFindable'
  BY <1>21 DEF CheckBlocksReturn, threadVars, clientVars, fileVars, blockVars, lockVars
<1> QED
  BY <1>0, <1>1, <1>2, <1>3, <1>4, <1>5, <1>6, <1>7, <1>8, <1>9, <1>10, <1>11, <1>12, <1>13,
     <1>14, <1>15, <1>16, <1>17, <1>18, <1>19, <1>20, <1>21, <1>22, <1>23 DEF Next, Client, Serve

\* A block without holders is transient: the thread that took its last peer has
\* not finished CheckBlocksList.
LEMMA EmptyStep == SafetyInv /\ EmptyBlockIsTransient /\ [Next]_vars => EmptyBlockIsTransient'
<1> SUFFICES ASSUME pc \in [Conns -> PCs], held \in [Conns -> Blocks \cup {NoBlock}], blocksList \subseteq Blocks,
                    started \subseteq Main, holders \in [Blocks -> [Main -> Nat]], todo \in [Conns -> SUBSET Files],
                    fileBlocks \in [Files -> SUBSET Blocks], filesList \subseteq Files,
                    Roles, EmptyBlockIsTransient, [Next]_vars
             PROVE  EmptyBlockIsTransient'
  BY DEF SafetyInv, TypeInv, TypeOK
<1> USE ConnsAssumption, DataAssumption DEF EmptyBlockIsTransient, NobodyHolds, Goto
<1>0. CASE UNCHANGED vars
  BY <1>0 DEF vars, threadVars, clientVars, fileVars, blockVars, lockVars
<1>1. ASSUME NEW c \in Conns, Connect(c) PROVE EmptyBlockIsTransient'
  BY <1>1 DEF Connect, threadVars, clientVars, fileVars, blockVars, lockVars
<1>2. ASSUME NEW c \in Conns, Disconnect(c) PROVE EmptyBlockIsTransient'
  BY <1>2 DEF Disconnect, threadVars, clientVars, fileVars, blockVars, lockVars
<1>3. ASSUME NEW c \in Conns, AddPeer(c) PROVE EmptyBlockIsTransient'
  BY <1>3 DEF AddPeer, threadVars, clientVars, fileVars, blockVars, lockVars
<1>4. ASSUME NEW c \in Conns, SendFilesList(c) PROVE EmptyBlockIsTransient'
  BY <1>4 DEF SendFilesList, threadVars, clientVars, fileVars, blockVars, lockVars
<1>5. ASSUME NEW c \in Conns, ProcessBlockRequest(c) PROVE EmptyBlockIsTransient'
  BY <1>5 DEF ProcessBlockRequest, threadVars, clientVars, fileVars, blockVars, lockVars
<1>6. ASSUME NEW c \in Conns, ReceiveSuccess(c) PROVE EmptyBlockIsTransient'
  BY <1>6 DEF ReceiveSuccess, threadVars, clientVars, fileVars, blockVars, lockVars
<1>7. ASSUME NEW c \in Conns, AddBlocks(c) PROVE EmptyBlockIsTransient'
  <2>1. c \in Main
    BY <1>7 DEF AddBlocks, Roles
  <2>2. \A b \in AnnBlocks[c] : holders'[b][c] # 0
    BY <1>7, <2>1 DEF AddBlocks
  <2>3. \A b \in blocksList' : NobodyHolds(b)' => b \in blocksList /\ NobodyHolds(b)
    BY <1>7, <2>1, <2>2 DEF AddBlocks
  <2> QED BY <1>7, <2>3 DEF AddBlocks
<1>8. ASSUME NEW c \in Conns, GetFiles(c) PROVE EmptyBlockIsTransient'
  BY <1>8 DEF GetFiles, threadVars, clientVars, fileVars, blockVars, lockVars
<1>9. ASSUME NEW c \in Conns, MakeBlocksList(c) PROVE EmptyBlockIsTransient'
  BY <1>9 DEF MakeBlocksList, threadVars, clientVars, fileVars, blockVars, lockVars
<1>10. ASSUME NEW c \in Conns, GetFilesReturn(c) PROVE EmptyBlockIsTransient'
  BY <1>10 DEF GetFilesReturn, threadVars, clientVars, fileVars, blockVars, lockVars
<1>11. ASSUME NEW c \in Conns, GetPeerInfo(c) PROVE EmptyBlockIsTransient'
  <2>1. /\ pc[c] = "GetPeerInfo" /\ \A x \in Conns \ {c} : pc'[x] = pc[x]
        /\ UNCHANGED <<blocksList, holders>>
    BY <1>11 DEF GetPeerInfo, blockVars
  <2> QED BY <2>1
<1>22. ASSUME NEW c \in Conns, ListAt(c) PROVE EmptyBlockIsTransient'
  <2>1. /\ pc[c] = "list_at" /\ \A x \in Conns \ {c} : pc'[x] = pc[x]
        /\ UNCHANGED <<blocksList, holders>>
    BY <1>22 DEF ListAt, blockVars
  <2> QED BY <2>1
<1>23. ASSUME NEW c \in Conns, ReadPeer(c) PROVE EmptyBlockIsTransient'
  <2>1. /\ pc[c] = "ReadPeer" /\ \A x \in Conns \ {c} : pc'[x] = pc[x]
        /\ UNCHANGED <<blocksList, holders>>
    BY <1>23 DEF ReadPeer, blockVars
  <2> QED BY <2>1
<1>12. ASSUME NEW c \in Conns, AddPeerToBlock(c) PROVE EmptyBlockIsTransient'
  BY <1>12 DEF AddPeerToBlock, threadVars, clientVars, fileVars, blockVars, lockVars
<1>13. ASSUME NEW c \in Conns, PushPeer(c) PROVE EmptyBlockIsTransient'
  <2>1. blocksList' = blocksList /\ held[c] \in Blocks
    BY <1>13 DEF PushPeer, Roles
  <2>2. \A b \in Blocks, m \in Main : holders[b][m] > 0 => holders'[b][m] > 0
    <3>1. CASE gone[c]
      BY <1>13, <3>1 DEF PushPeer
    <3>2. CASE ~ gone[c]
      BY <1>13, <2>1, <3>2 DEF PushPeer
    <3> QED BY <3>1, <3>2
  <2>3. \A b \in Blocks, m \in Main : holders'[b][m] = 0 => holders[b][m] = 0
    BY <2>2
  <2>4. \A b \in blocksList : NobodyHolds(b)' => NobodyHolds(b)
    BY <2>3
  <2>5. pc[c] = "push" /\ \A x \in Conns \ {c} : pc'[x] = pc[x]
    BY <1>13 DEF PushPeer
  <2> HIDE DEF NobodyHolds
  <2> QED BY <2>1, <2>4, <2>5
<1>14. ASSUME NEW c \in Conns, RemoveFromGlobal(c) PROVE EmptyBlockIsTransient'
  BY <1>14 DEF RemoveFromGlobal, threadVars, clientVars, fileVars, blockVars, lockVars
<1>15. ASSUME NEW c \in Conns, RemoveFromBlocks(c) PROVE EmptyBlockIsTransient'
  <2>1. pc'[c] = "FreePeer"
    BY <1>15 DEF RemoveFromBlocks
  <2> QED BY <2>1
<1>16. ASSUME NEW c \in Conns, FreePeer(c) PROVE EmptyBlockIsTransient'
  BY <1>16 DEF FreePeer, threadVars, clientVars, fileVars, blockVars, lockVars
<1>17. ASSUME NEW c \in Conns, CheckBlocksList(c) PROVE EmptyBlockIsTransient'
  BY <1>17 DEF CheckBlocksList, threadVars, clientVars, fileVars, blockVars, lockVars
<1>18. ASSUME NEW c \in Conns, CheckNextBlock(c) PROVE EmptyBlockIsTransient'
  BY <1>18 DEF CheckNextBlock, threadVars, clientVars, fileVars, blockVars, lockVars
<1>19. ASSUME NEW c \in Conns, RemoveFromParentFile(c) PROVE EmptyBlockIsTransient'
  BY <1>19 DEF RemoveFromParentFile, threadVars, clientVars, fileVars, blockVars, lockVars
<1>20. ASSUME NEW c \in Conns, FreeBlock(c) PROVE EmptyBlockIsTransient'
  <2>1. pc'[c] = "check"
    BY <1>20 DEF FreeBlock
  <2> QED BY <2>1
<1>21. ASSUME NEW c \in Conns, CheckBlocksReturn(c) PROVE EmptyBlockIsTransient'
  BY <1>21 DEF CheckBlocksReturn, threadVars, clientVars, fileVars, blockVars, lockVars
<1> QED
  BY <1>0, <1>1, <1>2, <1>3, <1>4, <1>5, <1>6, <1>7, <1>8, <1>9, <1>10, <1>11, <1>12, <1>13,
     <1>14, <1>15, <1>16, <1>17, <1>18, <1>19, <1>20, <1>21, <1>22, <1>23 DEF Next, Client, Serve

\* A listed block reaches its file: GetFiles cannot miss a block AddBlocks has
\* listed, since the hello message names its file.
LEMMA ListedStep == SafetyInv /\ ListedBlockInFile /\ [Next]_vars => ListedBlockInFile'
<1> SUFFICES ASSUME pc \in [Conns -> PCs], held \in [Conns -> Blocks \cup {NoBlock}], blocksList \subseteq Blocks,
                    started \subseteq Main, holders \in [Blocks -> [Main -> Nat]], todo \in [Conns -> SUBSET Files],
                    fileBlocks \in [Files -> SUBSET Blocks], filesList \subseteq Files,
                    Roles, LockOwners, FileListsWellFormed, ListedBlockInFile, [Next]_vars
             PROVE  ListedBlockInFile'
  BY DEF SafetyInv, TypeInv, TypeOK
<1> USE ConnsAssumption, DataAssumption, HelloAssumption DEF ListedBlockInFile, Goto
<1>0. CASE UNCHANGED vars
  BY <1>0 DEF InFile, Arriving, Leaving, vars, threadVars, clientVars, fileVars, blockVars, lockVars
<1>1. ASSUME NEW c \in Conns, Connect(c) PROVE ListedBlockInFile'
  BY <1>1 DEF InFile, Arriving, Leaving, Connect, threadVars, clientVars, fileVars, blockVars, lockVars
<1>2. ASSUME NEW c \in Conns, Disconnect(c) PROVE ListedBlockInFile'
  BY <1>2 DEF InFile, Arriving, Leaving, Disconnect, threadVars, clientVars, fileVars, blockVars, lockVars
<1>3. ASSUME NEW c \in Conns, AddPeer(c) PROVE ListedBlockInFile'
  BY <1>3 DEF InFile, Arriving, Leaving, AddPeer, threadVars, clientVars, fileVars, blockVars, lockVars
<1>4. ASSUME NEW c \in Conns, SendFilesList(c) PROVE ListedBlockInFile'
  BY <1>4 DEF InFile, Arriving, Leaving, SendFilesList, threadVars, clientVars, fileVars, blockVars, lockVars
<1>5. ASSUME NEW c \in Conns, ProcessBlockRequest(c) PROVE ListedBlockInFile'
  <2> SUFFICES ASSUME NEW b \in blocksList' PROVE InFile(b)' \/ Arriving(b)' \/ Leaving(b)'
    BY DEF ListedBlockInFile, InFile, Arriving, Leaving
  <2>1. /\ pc[c] \notin {"GetFiles", "MakeBlocksList", "FreeBlock"}
        /\ \A x \in Conns \ {c} : pc'[x] = pc[x] /\ held'[x] = held[x]
        /\ UNCHANGED <<blocksList, filesList, fileBlocks, todo>>
    BY <1>5 DEF ProcessBlockRequest, fileVars, blockVars
  <2>2. InFile(b) => InFile(b)'
    BY <2>1 DEF InFile
  <2>3. Arriving(b) => Arriving(b)'
    BY <2>1 DEF Arriving
  <2>4. Leaving(b) => Leaving(b)'
    BY <2>1 DEF Leaving
  <2> QED BY <2>1, <2>2, <2>3, <2>4
<1>6. ASSUME NEW c \in Conns, ReceiveSuccess(c) PROVE ListedBlockInFile'
  <2> SUFFICES ASSUME NEW b \in blocksList' PROVE InFile(b)' \/ Arriving(b)' \/ Leaving(b)'
    BY DEF ListedBlockInFile, InFile, Arriving, Leaving
  <2>1. /\ pc[c] \notin {"GetFiles", "MakeBlocksList", "FreeBlock"}
        /\ \A x \in Conns \ {c} : pc'[x] = pc[x] /\ held'[x] = held[x]
        /\ UNCHANGED <<blocksList, filesList, fileBlocks, todo>>
    BY <1>6 DEF ReceiveSuccess, fileVars, blockVars
  <2>2. InFile(b) => InFile(b)'
    BY <2>1 DEF InFile
  <2>3. Arriving(b) => Arriving(b)'
    BY <2>1 DEF Arriving
  <2>4. Leaving(b) => Leaving(b)'
    BY <2>1 DEF Leaving
  <2> QED BY <2>1, <2>2, <2>3, <2>4
<1>7. ASSUME NEW c \in Conns, AddBlocks(c) PROVE ListedBlockInFile'
  <2> SUFFICES ASSUME NEW b \in blocksList' PROVE InFile(b)' \/ Arriving(b)' \/ Leaving(b)'
    BY DEF ListedBlockInFile, InFile, Arriving, Leaving
  <2>1. /\ c \in Main /\ pc[c] = "AddBlocks" /\ pc'[c] = "GetFiles"
        /\ \A x \in Conns \ {c} : pc'[x] = pc[x]
        /\ UNCHANGED <<filesList, fileBlocks, todo, held>>
        /\ blocksList' = blocksList \cup AnnBlocks[c]
    BY <1>7 DEF AddBlocks, Roles, fileVars
  <2>2. b \in AnnBlocks[c] => Arriving(b)'
    BY <2>1 DEF Arriving
  <2>3. b \in blocksList => InFile(b) \/ Arriving(b) \/ Leaving(b)
    OBVIOUS
  <2>4. InFile(b) => InFile(b)'
    BY <2>1 DEF InFile
  <2>5. Arriving(b) => Arriving(b)'
    BY <2>1 DEF Arriving
  <2>6. Leaving(b) => Leaving(b)'
    BY <2>1 DEF Leaving
  <2> QED BY <2>1, <2>2, <2>3, <2>4, <2>5, <2>6
<1>8. ASSUME NEW c \in Conns, GetFiles(c) PROVE ListedBlockInFile'
  <2> SUFFICES ASSUME NEW b \in blocksList' PROVE InFile(b)' \/ Arriving(b)' \/ Leaving(b)'
    BY DEF ListedBlockInFile, InFile, Arriving, Leaving
  <2>1. /\ c \in Main /\ pc[c] = "GetFiles" /\ pc'[c] = "MakeBlocksList" /\ todo'[c] = AnnFiles[c]
        /\ \A x \in Conns \ {c} : pc'[x] = pc[x] /\ todo'[x] = todo[x]
        /\ UNCHANGED <<blocksList, filesList, fileBlocks, held>>
    BY <1>8 DEF GetFiles, Roles, fileVars, blockVars
  <2>2. InFile(b) => InFile(b)'
    BY <2>1 DEF InFile
  <2>3. Arriving(b) => Arriving(b)'
    BY <2>1 DEF Arriving
  <2>4. Leaving(b) => Leaving(b)'
    BY <2>1 DEF Leaving
  <2> QED BY <2>1, <2>2, <2>3, <2>4
<1>9. ASSUME NEW c \in Conns, MakeBlocksList(c) PROVE ListedBlockInFile'
  <2> SUFFICES ASSUME NEW b \in blocksList' PROVE InFile(b)' \/ Arriving(b)' \/ Leaving(b)'
    BY DEF ListedBlockInFile, InFile, Arriving, Leaving
  <2>1. PICK f \in todo[c] : /\ filesList' = filesList \cup {f}
                             /\ fileBlocks' = [fileBlocks EXCEPT ![f] = ListBlocks(f)]
                             /\ todo' = [todo EXCEPT ![c] = @ \ {f}]
    BY <1>9 DEF MakeBlocksList
  <2>2. UNCHANGED <<pc, held, blocksList>>
    BY <1>9 DEF MakeBlocksList, blockVars
  <2>3. FileOf[b] = f => InFile(b)'
    BY <2>1, <2>2 DEF InFile, ListBlocks, BlocksOf
  <2>4. FileOf[b] # f /\ InFile(b) => InFile(b)'
    BY <2>1, <2>2 DEF InFile
  <2>5. FileOf[b] # f /\ Arriving(b) => Arriving(b)'
    BY <2>1, <2>2 DEF Arriving
  <2>6. Leaving(b) => Leaving(b)'
    BY <2>2 DEF Leaving
  <2> QED BY <2>2, <2>3, <2>4, <2>5, <2>6
<1>10. ASSUME NEW c \in Conns, GetFilesReturn(c) PROVE ListedBlockInFile'
  BY <1>10 DEF InFile, Arriving, Leaving, GetFilesReturn, threadVars, clientVars, fileVars, blockVars, lockVars
<1>11. ASSUME NEW c \in Conns, GetPeerInfo(c) PROVE ListedBlockInFile'
  <2> SUFFICES ASSUME NEW b \in blocksList' PROVE InFile(b)' \/ Arriving(b)' \/ Leaving(b)'
    BY DEF ListedBlockInFile, InFile, Arriving, Leaving
  <2>1. /\ pc[c] \notin {"GetFiles", "MakeBlocksList", "FreeBlock"}
        /\ \A x \in Conns \ {c} : pc'[x] = pc[x] /\ held'[x] = held[x]
        /\ UNCHANGED <<blocksList, filesList, fileBlocks, todo>>
    BY <1>11 DEF GetPeerInfo, fileVars, blockVars
  <2>2. InFile(b) => InFile(b)'
    BY <2>1 DEF InFile
  <2>3. Arriving(b) => Arriving(b)'
    BY <2>1 DEF Arriving
  <2>4. Leaving(b) => Leaving(b)'
    BY <2>1 DEF Leaving
  <2> QED BY <2>1, <2>2, <2>3, <2>4
<1>22. ASSUME NEW c \in Conns, ListAt(c) PROVE ListedBlockInFile'
  <2> SUFFICES ASSUME NEW b \in blocksList' PROVE InFile(b)' \/ Arriving(b)' \/ Leaving(b)'
    BY DEF ListedBlockInFile, InFile, Arriving, Leaving
  <2>1. /\ pc[c] \notin {"GetFiles", "MakeBlocksList", "FreeBlock"}
        /\ \A x \in Conns \ {c} : pc'[x] = pc[x] /\ held'[x] = held[x]
        /\ UNCHANGED <<blocksList, filesList, fileBlocks, todo>>
    BY <1>22 DEF ListAt, fileVars, blockVars
  <2>2. InFile(b) => InFile(b)'
    BY <2>1 DEF InFile
  <2>3. Arriving(b) => Arriving(b)'
    BY <2>1 DEF Arriving
  <2>4. Leaving(b) => Leaving(b)'
    BY <2>1 DEF Leaving
  <2> QED BY <2>1, <2>2, <2>3, <2>4
<1>23. ASSUME NEW c \in Conns, ReadPeer(c) PROVE ListedBlockInFile'
  <2> SUFFICES ASSUME NEW b \in blocksList' PROVE InFile(b)' \/ Arriving(b)' \/ Leaving(b)'
    BY DEF ListedBlockInFile, InFile, Arriving, Leaving
  <2>1. /\ pc[c] \notin {"GetFiles", "MakeBlocksList", "FreeBlock"}
        /\ \A x \in Conns \ {c} : pc'[x] = pc[x] /\ held'[x] = held[x]
        /\ UNCHANGED <<blocksList, filesList, fileBlocks, todo>>
    BY <1>23 DEF ReadPeer, fileVars, blockVars, DropBlock
  <2>2. InFile(b) => InFile(b)'
    BY <2>1 DEF InFile
  <2>3. Arriving(b) => Arriving(b)'
    BY <2>1 DEF Arriving
  <2>4. Leaving(b) => Leaving(b)'
    BY <2>1 DEF Leaving
  <2> QED BY <2>1, <2>2, <2>3, <2>4
<1>12. ASSUME NEW c \in Conns, AddPeerToBlock(c) PROVE ListedBlockInFile'
  BY <1>12 DEF InFile, Arriving, Leaving, AddPeerToBlock, threadVars, clientVars, fileVars, blockVars, lockVars
<1>13. ASSUME NEW c \in Conns, PushPeer(c) PROVE ListedBlockInFile'
  <2> SUFFICES ASSUME NEW b \in blocksList' PROVE InFile(b)' \/ Arriving(b)' \/ Leaving(b)'
    BY DEF ListedBlockInFile, InFile, Arriving, Leaving
  <2>1. /\ pc[c] \notin {"GetFiles", "MakeBlocksList", "FreeBlock"}
        /\ \A x \in Conns \ {c} : pc'[x] = pc[x] /\ held'[x] = held[x]
        /\ UNCHANGED <<blocksList, filesList, fileBlocks, todo>>
    BY <1>13 DEF PushPeer, fileVars, blockVars, DropBlock
  <2>2. InFile(b) => InFile(b)'
    BY <2>1 DEF InFile
  <2>3. Arriving(b) => Arriving(b)'
    BY <2>1 DEF Arriving
  <2>4. Leaving(b) => Leaving(b)'
    BY <2>1 DEF Leaving
  <2> QED BY <2>1, <2>2, <2>3, <2>4
<1>14. ASSUME NEW c \in Conns, RemoveFromGlobal(c) PROVE ListedBlockInFile'
  BY <1>14 DEF InFile, Arriving, Leaving, RemoveFromGlobal, threadVars, clientVars, fileVars, blockVars, lockVars
<1>15. ASSUME NEW c \in Conns, RemoveFromBlocks(c) PROVE ListedBlockInFile'
  BY <1>15 DEF InFile, Arriving, Leaving, RemoveFromBlocks, threadVars, clientVars, fileVars, blockVars, lockVars
<1>16. ASSUME NEW c \in Conns, FreePeer(c) PROVE ListedBlockInFile'
  BY <1>16 DEF InFile, Arriving, Leaving, FreePeer, threadVars, clientVars, fileVars, blockVars, lockVars
<1>17. ASSUME NEW c \in Conns, CheckBlocksList(c) PROVE ListedBlockInFile'
  BY <1>17 DEF InFile, Arriving, Leaving, CheckBlocksList, threadVars, clientVars, fileVars, blockVars, lockVars
<1>18. ASSUME NEW c \in Conns, CheckNextBlock(c) PROVE ListedBlockInFile'
  <2> SUFFICES ASSUME NEW b \in blocksList' PROVE InFile(b)' \/ Arriving(b)' \/ Leaving(b)'
    BY DEF ListedBlockInFile, InFile, Arriving, Leaving
  <2>1. /\ pc[c] = "check"
        /\ \A x \in Conns \ {c} : pc'[x] = pc[x] /\ held'[x] = held[x]
        /\ UNCHANGED <<blocksList, filesList, fileBlocks, todo>>
    BY <1>18 DEF CheckNextBlock, fileVars, blockVars
  <2>2. InFile(b) => InFile(b)'
    BY <2>1 DEF InFile
  <2>3. Arriving(b) => Arriving(b)'
    BY <2>1 DEF Arriving
  <2>4. Leaving(b) => Leaving(b)'
    BY <2>1 DEF Leaving
  <2> QED BY <2>1, <2>2, <2>3, <2>4
<1>19. ASSUME NEW c \in Conns, RemoveFromParentFile(c) PROVE ListedBlockInFile'
  <2> SUFFICES ASSUME NEW b \in blocksList' PROVE InFile(b)' \/ Arriving(b)' \/ Leaving(b)'
    BY DEF ListedBlockInFile, InFile, Arriving, Leaving
  <2>1. /\ pc[c] = "RemoveFromParentFile" /\ pc'[c] = "FreeBlock"
        /\ \A x \in Conns \ {c} : pc'[x] = pc[x]
        /\ UNCHANGED <<blocksList, todo, held>>
    BY <1>19 DEF RemoveFromParentFile, blockVars
  <2>2. Leaving(held[c])'
    BY <2>1 DEF Leaving
  <2>3. b # held[c] /\ InFile(b) => InFile(b)'
    <3>1. CASE FileOf[held[c]] \notin filesList
      BY <1>19, <3>1 DEF RemoveFromParentFile, InFile, fileVars
    <3>2. CASE FileOf[held[c]] \in filesList
      <4> DEFINE f == FileOf[held[c]]
                 blocks == fileBlocks[f] \ {held[c]}
      <4>1. /\ fileBlocks' = [fileBlocks EXCEPT ![f] = blocks]
            /\ filesList' = IF blocks = {} THEN filesList \ {f} ELSE filesList
        BY <1>19, <3>2 DEF RemoveFromParentFile, Emptied
      <4>2. SUFFICES ASSUME b # held[c], FileOf[b] \in filesList, b \in fileBlocks[FileOf[b]]
                     PROVE  FileOf[b] \in filesList' /\ b \in fileBlocks'[FileOf[b]]
        BY DEF InFile
      <4>3. CASE FileOf[b] = f
        BY <3>2, <4>1, <4>2, <4>3
      <4>4. CASE FileOf[b] # f
        BY <3>2, <4>1, <4>2, <4>4
      <4> QED BY <4>3, <4>4
    <3> QED BY <3>1, <3>2
  <2>4. Arriving(b) => Arriving(b)'
    BY <2>1 DEF Arriving
  <2>5. Leaving(b) => Leaving(b)'
    BY <2>1 DEF Leaving
  <2> QED BY <2>1, <2>2, <2>3, <2>4, <2>5
<1>20. ASSUME NEW c \in Conns, FreeBlock(c) PROVE ListedBlockInFile'
  BY <1>20 DEF InFile, Arriving, Leaving, FreeBlock, threadVars, clientVars, fileVars, blockVars, lockVars
<1>21. ASSUME NEW c \in Conns, CheckBlocksReturn(c) PROVE ListedBlockInFile'
  BY <1>21 DEF InFile, Arriving, Leaving, CheckBlocksReturn, threadVars, clientVars, fileVars, blockVars, lockVars
<1> QED
  BY <1>0, <1>1, <1>2, <1>3, <1>4, <1>5, <1>6, <1>7, <1>8, <1>9, <1>10, <1>11, <1>12, <1>13,
     <1>14, <1>15, <1>16, <1>17, <1>18, <1>19, <1>20, <1>21, <1>22, <1>23 DEF Next, Client, Serve

\* A file is listed without blocks only by a hello message that has none for it.
EmptyFilesAnnounced ==
  \A f \in filesList : fileBlocks[f] = {} =>
    \E m \in started : f \in AnnFiles[m] /\ AnnBlocks[m] \cap BlocksOf(f) = {}

LEMMA EmptyFileStep == SafetyInv /\ EmptyFilesAnnounced /\ [Next]_vars => EmptyFilesAnnounced'
<1> SUFFICES ASSUME pc \in [Conns -> PCs], held \in [Conns -> Blocks \cup {NoBlock}], blocksList \subseteq Blocks,
                    started \subseteq Main, holders \in [Blocks -> [Main -> Nat]], todo \in [Conns -> SUBSET Files],
                    fileBlocks \in [Files -> SUBSET Blocks], filesList \subseteq Files,
                    Roles, AnnouncedFindable, FileListsWellFormed, EmptyFilesAnnounced, [Next]_vars
             PROVE  EmptyFilesAnnounced'
  BY DEF SafetyInv, TypeInv, TypeOK
<1> USE ConnsAssumption, DataAssumption DEF EmptyFilesAnnounced, Goto, BlocksOf
<1>0. CASE UNCHANGED vars
  BY <1>0 DEF vars, threadVars, clientVars, fileVars, blockVars, lockVars
<1>1. ASSUME NEW c \in Conns, Connect(c) PROVE EmptyFilesAnnounced'
  BY <1>1 DEF Connect, threadVars, clientVars, fileVars, blockVars, lockVars
<1>2. ASSUME NEW c \in Conns, Disconnect(c) PROVE EmptyFilesAnnounced'
  BY <1>2 DEF Disconnect, threadVars, clientVars, fileVars, blockVars, lockVars
<1>3. ASSUME NEW c \in Conns, AddPeer(c) PROVE EmptyFilesAnnounced'
  BY <1>3 DEF AddPeer, threadVars, clientVars, fileVars, blockVars, lockVars
<1>4. ASSUME NEW c \in Conns, SendFilesList(c) PROVE EmptyFilesAnnounced'
  BY <1>4 DEF SendFilesList, threadVars, clientVars, fileVars, blockVars, lockVars
<1>5. ASSUME NEW c \in Conns, ProcessBlockRequest(c) PROVE EmptyFilesAnnounced'
  BY <1>5 DEF ProcessBlockRequest, threadVars, clientVars, fileVars, blockVars, lockVars
<1>6. ASSUME NEW c \in Conns, ReceiveSuccess(c) PROVE EmptyFilesAnnounced'
  BY <1>6 DEF ReceiveSuccess, threadVars, clientVars, fileVars, blockVars, lockVars
<1>7. ASSUME NEW c \in Conns, AddBlocks(c) PROVE EmptyFilesAnnounced'
  BY <1>7 DEF AddBlocks, threadVars, clientVars, fileVars, blockVars, lockVars
<1>8. ASSUME NEW c \in Conns, GetFiles(c) PROVE EmptyFilesAnnounced'
  BY <1>8 DEF GetFiles, threadVars, clientVars, fileVars, blockVars, lockVars
<1>9. ASSUME NEW c \in Conns, MakeBlocksList(c) PROVE EmptyFilesAnnounced'
  <2>1. PICK f \in todo[c] : /\ filesList' = filesList \cup {f}
                             /\ fileBlocks' = [fileBlocks EXCEPT ![f] = ListBlocks(f)]
    BY <1>9 DEF MakeBlocksList
  <2>2. c \in Main /\ c \in started /\ Serving(c) /\ f \in Files /\ started' = started
    BY <1>9 DEF MakeBlocksList, Roles, Serving, clientVars
  <2>3. AnnBlocks[c] \subseteq blocksList
    BY <2>2 DEF AnnouncedFindable
  <2>4. fileBlocks'[f] = fileBlocks[f] \cup (blocksList \cap BlocksOf(f))
    BY <2>1, <2>2 DEF ListBlocks
  <2>5. fileBlocks'[f] = {} => AnnBlocks[c] \cap BlocksOf(f) = {} /\ fileBlocks[f] = {}
    BY <2>3, <2>4
  <2>6. \A g \in Files \ {f} : fileBlocks'[g] = fileBlocks[g] /\ (g \in filesList' <=> g \in filesList)
    BY <2>1, <2>2
  <2>7. f \in todo[c] /\ f \in filesList'
    BY <2>1
  <2>8. ASSUME NEW g \in filesList', fileBlocks'[g] = {}
        PROVE  \E m \in started' : g \in AnnFiles[m] /\ AnnBlocks[m] \cap BlocksOf(g) = {}
    <3>1. CASE g # f
      <4>1. g \in Files \ {f}
        BY <1>9, <2>8, <2>1, <2>2, <3>1
      <4>2. g \in filesList /\ fileBlocks[g] = {}
        BY <2>6, <2>8, <4>1
      <4> QED BY <2>2, <4>2
    <3>2. CASE g = f /\ f \in filesList
      BY <2>2, <2>5, <2>8, <3>2
    <3>3. CASE g = f /\ f \notin filesList
      <4>1. f \in AnnFiles[c]
        BY <1>9, <2>7 DEF MakeBlocksList, Roles
      <4> QED BY <2>2, <2>5, <2>8, <3>3, <4>1
    <3> QED BY <3>1, <3>2, <3>3
  <2> QED BY <2>8
<1>10. ASSUME NEW c \in Conns, GetFilesReturn(c) PROVE EmptyFilesAnnounced'
  BY <1>10 DEF GetFilesReturn, threadVars, clientVars, fileVars, blockVars, lockVars
<1>11. ASSUME NEW c \in Conns, GetPeerInfo(c) PROVE EmptyFilesAnnounced'
  BY <1>11 DEF GetPeerInfo, threadVars, clientVars, fileVars, blockVars, lockVars
<1>22. ASSUME NEW c \in Conns, ListAt(c) PROVE EmptyFilesAnnounced'
  BY <1>22 DEF ListAt, threadVars, clientVars, fileVars, blockVars, lockVars
<1>23. ASSUME NEW c \in Conns, ReadPeer(c) PROVE EmptyFilesAnnounced'
  BY <1>23 DEF ReadPeer, threadVars, clientVars, fileVars, blockVars, lockVars
<1>12. ASSUME NEW c \in Conns, AddPeerToBlock(c) PROVE EmptyFilesAnnounced'
  BY <1>12 DEF AddPeerToBlock, threadVars, clientVars, fileVars, blockVars, lockVars
<1>13. ASSUME NEW c \in Conns, PushPeer(c) PROVE EmptyFilesAnnounced'
  BY <1>13 DEF PushPeer, threadVars, clientVars, fileVars, blockVars, lockVars
<1>14. ASSUME NEW c \in Conns, RemoveFromGlobal(c) PROVE EmptyFilesAnnounced'
  BY <1>14 DEF RemoveFromGlobal, threadVars, clientVars, fileVars, blockVars, lockVars
<1>15. ASSUME NEW c \in Conns, RemoveFromBlocks(c) PROVE EmptyFilesAnnounced'
  BY <1>15 DEF RemoveFromBlocks, threadVars, clientVars, fileVars, blockVars, lockVars
<1>16. ASSUME NEW c \in Conns, FreePeer(c) PROVE EmptyFilesAnnounced'
  BY <1>16 DEF FreePeer, threadVars, clientVars, fileVars, blockVars, lockVars
<1>17. ASSUME NEW c \in Conns, CheckBlocksList(c) PROVE EmptyFilesAnnounced'
  BY <1>17 DEF CheckBlocksList, threadVars, clientVars, fileVars, blockVars, lockVars
<1>18. ASSUME NEW c \in Conns, CheckNextBlock(c) PROVE EmptyFilesAnnounced'
  BY <1>18 DEF CheckNextBlock, threadVars, clientVars, fileVars, blockVars, lockVars
<1>19. ASSUME NEW c \in Conns, RemoveFromParentFile(c) PROVE EmptyFilesAnnounced'
  <2>1. started' = started
    BY <1>19 DEF RemoveFromParentFile, clientVars
  <2>2. CASE FileOf[held[c]] \notin filesList
    <3>1. UNCHANGED <<filesList, fileBlocks>>
      BY <1>19, <2>2 DEF RemoveFromParentFile, fileVars
    <3> QED BY <2>1, <3>1
  <2>3. CASE FileOf[held[c]] \in filesList
    <3> DEFINE f == FileOf[held[c]]
    <3>1. /\ fileBlocks' = [fileBlocks EXCEPT ![f] = fileBlocks[f] \ {held[c]}]
          /\ filesList' = IF fileBlocks[f] \ {held[c]} = {} THEN filesList \ {f} ELSE filesList
      BY <1>19, <2>3 DEF RemoveFromParentFile, Emptied
    <3>2. ASSUME NEW g \in filesList', fileBlocks'[g] = {}
          PROVE  \E m \in started' : g \in AnnFiles[m] /\ AnnBlocks[m] \cap BlocksOf(g) = {}
      <4>1. g # f /\ g \in filesList
        BY <2>3, <3>1, <3>2
      <4>2. fileBlocks[g] = {}
        BY <3>1, <3>2, <4>1
      <4> QED BY <2>1, <4>1, <4>2
    <3> QED BY <3>2
  <2> QED BY <2>2, <2>3
<1>20. ASSUME NEW c \in Conns, FreeBlock(c) PROVE EmptyFilesAnnounced'
  BY <1>20 DEF FreeBlock, threadVars, clientVars, fileVars, blockVars, lockVars
<1>21. ASSUME NEW c \in Conns, CheckBlocksReturn(c) PROVE EmptyFilesAnnounced'
  BY <1>21 DEF CheckBlocksReturn, threadVars, clientVars, fileVars, blockVars, lockVars
<1> QED
  BY <1>0, <1>1, <1>2, <1>3, <1>4, <1>5, <1>6, <1>7, <1>8, <1>9, <1>10, <1>11, <1>12, <1>13,
     <1>14, <1>15, <1>16, <1>17, <1>18, <1>19, <1>20, <1>21, <1>22, <1>23 DEF Next, Client, Serve

-----------------------------------------------------------------------------
LEMMA SafetyStep == SafetyInv /\ [Next]_vars => SafetyInv'
BY TypeStep, LockStep, FileListsStep, VictimStep, AnnouncedStep DEF SafetyInv

LEMMA SafetyInit == Init => SafetyInv /\ EmptyBlockIsTransient /\ ListedBlockInFile /\ EmptyFilesAnnounced
<1> SUFFICES ASSUME Init PROVE SafetyInv /\ EmptyBlockIsTransient /\ ListedBlockInFile /\ EmptyFilesAnnounced
  OBVIOUS
<1> USE ConnsAssumption DEF Init
<1>1. TypeInv
  BY TypeInit
<1>2. LockOwners
  BY DEF LockOwners
<1>3. VictimIsFree /\ FileListsWellFormed
  BY DEF VictimIsFree, FileListsWellFormed
<1>4. AnnouncedFindable
  BY DEF AnnouncedFindable, Serving
<1>5. EmptyBlockIsTransient /\ ListedBlockInFile /\ EmptyFilesAnnounced
  BY DEF EmptyBlockIsTransient, ListedBlockInFile, EmptyFilesAnnounced
<1> QED BY <1>1, <1>2, <1>3, <1>4, <1>5 DEF SafetyInv

LEMMA Invariance == Spec => []SafetyInv
<1>1. Init => SafetyInv
  BY SafetyInit
<1>2. SafetyInv /\ [Next]_vars => SafetyInv'
  BY SafetyStep
<1> QED BY <1>1, <1>2, PTL DEF Spec

\* Every variable keeps its type.
THEOREM TypeCorrect == Spec => []TypeOK
<1>1. SafetyInv => TypeOK
  BY DEF SafetyInv, TypeInv
<1> QED BY <1>1, Invariance, PTL

\* The blocks list of a listed file never points to a freed block, for any
\* number of clients, files and blocks and at every point of every handler.
THEOREM FileBlocksStayLive == Spec => []FileBlocksLive
<1>1. SafetyInv => FileBlocksLive
  BY DEF SafetyInv, TypeInv, TypeOK, FileListsWellFormed, FileBlocksLive
<1> QED BY <1>1, Invariance, PTL

\* A peer's announced blocks stay listed with it until it leaves.
THEOREM AnnouncedStaysFindable == Spec => []AnnouncedFindable
<1>1. SafetyInv => AnnouncedFindable
  BY DEF SafetyInv
<1> QED BY <1>1, Invariance, PTL

\* What ls reads as complete has as many blocks as its metadata says.
THEOREM CompleteFlagStaysRight == Spec => []CompleteFlagRight
<1>1. SafetyInv => CompleteFlagRight
  BY DEF SafetyInv, TypeInv, TypeOK, FileListsWellFormed, CompleteFlagRight
<1> QED BY <1>1, Invariance, PTL

\* Blocks without holders are only left by threads still in their cleanup.
THEOREM EmptyBlocksAreTransient == Spec => []EmptyBlockIsTransient
<1>1. Init => EmptyBlockIsTransient
  BY SafetyInit
<1>2. SafetyInv /\ EmptyBlockIsTransient /\ [Next]_vars => EmptyBlockIsTransient'
  BY EmptyStep
<1> QED BY <1>1, <1>2, Invariance, PTL DEF Spec

\* Every listed block is in its file, but for the windows of GetFiles and
\* CheckBlocksList.
THEOREM ListedBlocksAreInFiles == Spec => []ListedBlockInFile
<1>1. Init => ListedBlockInFile
  BY SafetyInit
<1>2. SafetyInv /\ ListedBlockInFile /\ [Next]_vars => ListedBlockInFile'
  BY ListedStep
<1> QED BY <1>1, <1>2, Invariance, PTL DEF Spec

\* A file without blocks comes from a hello message without blocks for it.
THEOREM EmptyFilesWereAnnounced == Spec => []EmptyFileWasAnnounced
<1>1. Init => EmptyFilesAnnounced
  BY SafetyInit
<1>2. SafetyInv /\ EmptyFilesAnnounced /\ [Next]_vars => EmptyFilesAnnounced'
  BY EmptyFileStep
<1>3. EmptyFilesAnnounced => EmptyFileWasAnnounced
  BY DEF EmptyFilesAnnounced, EmptyFileWasAnnounced
<1> QED BY <1>1, <1>2, <1>3, Invariance, PTL DEF Spec

-----------------------------------------------------------------------------
(***************************************************************************)
(* Why a peer is in the peers list of a block: the entries of              *)
(* globalPeersList, and the reports AddPeerToBlock books by them.          *)
(***************************************************************************)
(* The inductive invariant *)

HasEntry(ip, p) == \E i \in 1..Len(peersList) : Ip[peersList[i]] = ip /\ port[peersList[i]] = p
HasClosed(ip, p) == \E c \in Conns : Closing(c) /\ Ip[c] = ip /\ port[c] = p

\* An entry of the peers list is of a peer that has said which port it has.
EntriesHavePort ==
  \A i \in 1..Len(peersList) : peersList[i] \in started /\ port[peersList[i]] = PortOf[peersList[i]]

\* A client that downloads has sent its hello message.
DownloadersStarted ==
  /\ \A m \in Main : seen[m] # {} => m \in started
  /\ \A d \in Conns \ Main : pc[d] # "off" => OwnerOf[d] \in started

\* What AddPeer has put in the peers list is there until RemoveFromGlobal takes
\* out an entry with that address and port.
EntryStays == \A m \in started : HasEntry(Ip[m], PortOf[m]) \/ HasClosed(Ip[m], PortOf[m])

\* What a download connection is about.
InHand ==
  \A d \in Conns :
    /\ pc[d] \in {"GetPeerInfo", "list_at", "ReadPeer"} => dl[d][held[d]] = "wanted"
    /\ pc[d] \in {"AddPeerToBlock", "push"} => dl[d][held[d]] = "reported"
    /\ found[d] # {} => pc[d] = "push"

\* The peer AddPeerToBlock has found.
SamePeer(d, m) == Ip[d] = Ip[m] /\ PortOf[OwnerOf[d]] = PortOf[m]
FoundHonest == \A d \in Conns : \A m \in found[d] : SamePeer(d, m) \/ EntryLost(d)

\* HolderIsHonest of the blocks that are not listed as well.
Honest(b, m) == \/ b \in AnnBlocks[m]
                \/ Downloaded(m, b)
                \/ \E d \in Conns : Reported(d, b) /\ EntryLost(d)
HoldersHonest == \A b \in Blocks, m \in Main : holders[b][m] > 0 => Honest(b, m)

HoldersInv == /\ TypeInv /\ EntriesHavePort /\ DownloadersStarted /\ EntryStays
              /\ InHand /\ FoundHonest /\ HoldersHonest
-----------------------------------------------------------------------------
(* What one step changes *)

\* Which handlers touch which variables.
LEMMA HandlerFrames ==
  ASSUME NEW c \in Conns, Client(c) \/ Serve(c)
  PROVE  /\ UNCHANGED peersList \/ AddPeer(c) \/ RemoveFromGlobal(c)
         /\ UNCHANGED port \/ Connect(c) \/ AddPeer(c)
         /\ UNCHANGED started \/ AddPeer(c)
         /\ UNCHANGED seen \/ SendFilesList(c)
         /\ UNCHANGED holders \/ AddBlocks(c) \/ PushPeer(c) \/ RemoveFromBlocks(c) \/ FreeBlock(c)
         /\ UNCHANGED found \/ AddPeerToBlock(c) \/ PushPeer(c)
         /\ UNCHANGED dl \/ ProcessBlockRequest(c) \/ ReadPeer(c) \/ ReceiveSuccess(c)
         /\ UNCHANGED held \/ ProcessBlockRequest(c) \/ ReadPeer(c) \/ ReceiveSuccess(c) \/ PushPeer(c) \/ CheckNextBlock(c) \/ FreeBlock(c)
<1> USE DEF Client, Serve, threadVars, clientVars, fileVars, blockVars, lockVars, DropBlock
<1>1. UNCHANGED peersList \/ AddPeer(c) \/ RemoveFromGlobal(c)
  BY ZenonT(60) DEF Connect, Disconnect, SendFilesList, ProcessBlockRequest, ReceiveSuccess,
         AddBlocks, GetFiles, MakeBlocksList, GetFilesReturn, GetPeerInfo, ListAt, ReadPeer, AddPeerToBlock, PushPeer,
         RemoveFromBlocks, FreePeer, CheckBlocksList, CheckNextBlock, RemoveFromParentFile,
         FreeBlock, CheckBlocksReturn
<1>2. UNCHANGED port \/ Connect(c) \/ AddPeer(c)
  BY ZenonT(60) DEF Disconnect, SendFilesList, ProcessBlockRequest, ReceiveSuccess, AddBlocks,
         GetFiles, MakeBlocksList, GetFilesReturn, GetPeerInfo, ListAt, ReadPeer, AddPeerToBlock, PushPeer,
         RemoveFromGlobal, RemoveFromBlocks, FreePeer, CheckBlocksList, CheckNextBlock,
         RemoveFromParentFile, FreeBlock, CheckBlocksReturn
<1>3. UNCHANGED started \/ AddPeer(c)
  BY ZenonT(60) DEF Connect, Disconnect, SendFilesList, ProcessBlockRequest, ReceiveSuccess,
         AddBlocks, GetFiles, MakeBlocksList, GetFilesReturn, GetPeerInfo, ListAt, ReadPeer, AddPeerToBlock, PushPeer,
         RemoveFromGlobal, RemoveFromBlocks, FreePeer, CheckBlocksList, CheckNextBlock,
         RemoveFromParentFile, FreeBlock, CheckBlocksReturn
<1>4. UNCHANGED seen \/ SendFilesList(c)
  BY ZenonT(60) DEF Connect, Disconnect, AddPeer, ProcessBlockRequest, ReceiveSuccess, AddBlocks,
         GetFiles, MakeBlocksList, GetFilesReturn, GetPeerInfo, ListAt, ReadPeer, AddPeerToBlock, PushPeer,
         RemoveFromGlobal, RemoveFromBlocks, FreePeer, CheckBlocksList, CheckNextBlock,
         RemoveFromParentFile, FreeBlock, CheckBlocksReturn
<1>5. UNCHANGED holders \/ AddBlocks(c) \/ PushPeer(c) \/ RemoveFromBlocks(c) \/ FreeBlock(c)
  BY ZenonT(60) DEF Connect, Disconnect, AddPeer, SendFilesList, ProcessBlockRequest,
         ReceiveSuccess, GetFiles, MakeBlocksList, GetFilesReturn, GetPeerInfo, ListAt, ReadPeer, AddPeerToBlock,
         RemoveFromGlobal, FreePeer, CheckBlocksList, CheckNextBlock, RemoveFromParentFile,
         CheckBlocksReturn
<1>6. UNCHANGED found \/ AddPeerToBlock(c) \/ PushPeer(c)
  BY ZenonT(60) DEF Connect, Disconnect, AddPeer, SendFilesList, ProcessBlockRequest,
         ReceiveSuccess, AddBlocks, GetFiles, MakeBlocksList, GetFilesReturn, GetPeerInfo, ListAt, ReadPeer,
         RemoveFromGlobal, RemoveFromBlocks, FreePeer, CheckBlocksList, CheckNextBlock,
         RemoveFromParentFile, FreeBlock, CheckBlocksReturn
<1>7. UNCHANGED dl \/ ProcessBlockRequest(c) \/ ReadPeer(c) \/ ReceiveSuccess(c)
  BY ZenonT(60) DEF Connect, Disconnect, AddPeer, SendFilesList, AddBlocks, GetFiles,
         MakeBlocksList, GetFilesReturn, GetPeerInfo, ListAt, AddPeerToBlock, PushPeer, RemoveFromGlobal,
         RemoveFromBlocks, FreePeer, CheckBlocksList, CheckNextBlock, RemoveFromParentFile,
         FreeBlock, CheckBlocksReturn
<1>8. UNCHANGED held \/ ProcessBlockRequest(c) \/ ReadPeer(c) \/ ReceiveSuccess(c) \/ PushPeer(c) \/ CheckNextBlock(c) \/ FreeBlock(c)
  BY ZenonT(60) DEF Connect, Disconnect, AddPeer, SendFilesList, AddBlocks, GetFiles,
         MakeBlocksList, GetFilesReturn, GetPeerInfo, ListAt, AddPeerToBlock, RemoveFromGlobal, RemoveFromBlocks,
         FreePeer, CheckBlocksList, RemoveFromParentFile, CheckBlocksReturn
<1> QED BY <1>1, <1>2, <1>3, <1>4, <1>5, <1>6, <1>7, <1>8

\* A step moves one thread; one that is past its receive loop goes on to the end.
LEMMA HandlerMoves ==
  ASSUME TypeInv, NEW c \in Conns, Client(c) \/ Serve(c)
  PROVE  /\ \A d \in Conns \ {c} : pc'[d] = pc[d]
         /\ pc'[c] # "off"
         /\ Closing(c) => pc'[c] \in {"RemoveFromBlocks", "FreePeer", "CheckBlocksList", "check",
                                     "RemoveFromParentFile", "FreeBlock", "done"}
<1>1. pc \in [Conns -> PCs]
  BY DEF TypeInv, TypeOK
<1> USE <1>1 DEF Goto, Closing
<1>2. CASE Connect(c)
  BY <1>2 DEF Connect
<1>3. CASE Disconnect(c)
  BY <1>3 DEF Disconnect
<1>4. CASE AddPeer(c)
  BY <1>4 DEF AddPeer
<1>5. CASE SendFilesList(c)
  BY <1>5 DEF SendFilesList, clientVars, threadVars
<1>6. CASE ProcessBlockRequest(c)
  BY <1>6 DEF ProcessBlockRequest
<1>7. CASE ReceiveSuccess(c)
  BY <1>7 DEF ReceiveSuccess
<1>8. CASE AddBlocks(c)
  BY <1>8 DEF AddBlocks
<1>9. CASE GetFiles(c)
  BY <1>9 DEF GetFiles
<1>10. CASE MakeBlocksList(c)
  BY <1>10 DEF MakeBlocksList
<1>11. CASE GetFilesReturn(c)
  BY <1>11 DEF GetFilesReturn
<1>12. CASE GetPeerInfo(c)
  BY <1>12 DEF GetPeerInfo
<1>23. CASE ListAt(c)
  BY <1>23 DEF ListAt
<1>24. CASE ReadPeer(c)
  BY <1>24 DEF ReadPeer
<1>13. CASE AddPeerToBlock(c)
  BY <1>13 DEF AddPeerToBlock
<1>14. CASE PushPeer(c)
  BY <1>14 DEF PushPeer
<1>15. CASE RemoveFromGlobal(c)
  BY <1>15 DEF RemoveFromGlobal
<1>16. CASE RemoveFromBlocks(c)
  BY <1>16 DEF RemoveFromBlocks
<1>17. CASE FreePeer(c)
  BY <1>17 DEF FreePeer
<1>18. CASE CheckBlocksList(c)
  BY <1>18 DEF CheckBlocksList
<1>19. CASE CheckNextBlock(c)
  BY <1>19 DEF CheckNextBlock
<1>20. CASE RemoveFromParentFile(c)
  BY <1>20 DEF RemoveFromParentFile
<1>21. CASE FreeBlock(c)
  BY <1>21 DEF FreeBlock
<1>22. CASE CheckBlocksReturn(c)
  BY <1>22 DEF CheckBlocksReturn
<1> QED BY <1>2, <1>3, <1>4, <1>5, <1>6, <1>7, <1>8, <1>9, <1>10, <1>11, <1>12, <1>13, <1>14, <1>15,
         <1>16, <1>17, <1>18, <1>19, <1>20, <1>21, <1>22, <1>23, <1>24 DEF Client, Serve
\* A connection that has closed stays closed with its port, and what it was
\* reported or lost stays so.
LEMMA PastStays ==
  ASSUME TypeInv, InHand, NEW c \in Conns, Client(c) \/ Serve(c)
  PROVE  /\ \A ip, p : HasClosed(ip, p) => HasClosed(ip, p)'
         /\ \A d \in Conns : EntryLost(d) => EntryLost(d)'
         /\ \A d \in Conns, b \in Blocks : Reported(d, b) => Reported(d, b)'
         /\ \A b \in Blocks, m \in Main : Honest(b, m) => Honest(b, m)'
<1>1. ASSUME NEW e \in Conns, Closing(e) PROVE Closing(e)' /\ port'[e] = port[e]
  <2>1. pc'[e] \in {"RemoveFromBlocks", "FreePeer", "CheckBlocksList", "check",
                    "RemoveFromParentFile", "FreeBlock", "done"}
    <3>1. CASE e = c
      BY <1>1, <3>1, HandlerMoves
    <3>2. CASE e # c
      <4>1. pc'[e] = pc[e]
        BY <3>2, HandlerMoves
      <4> QED BY <1>1, <4>1 DEF Closing
    <3> QED BY <3>1, <3>2
  <2>2. port'[e] = port[e]
    <3>1. CASE UNCHANGED port
      BY <3>1
    <3>2. CASE Connect(c) \/ AddPeer(c)
      <4>1. pc[c] \in {"off", "idle"}
        BY <3>2 DEF Connect, AddPeer
      <4>2. e # c
        BY <1>1, <4>1 DEF Closing
      <4>3. \E p : port' = [port EXCEPT ![c] = p]
        BY <3>2 DEF Connect, AddPeer
      <4> QED BY <4>2, <4>3 DEF TypeInv, TypeOK
    <3> QED BY <3>1, <3>2, HandlerFrames
  <2> QED BY <2>1, <2>2 DEF Closing
<1>2. \A ip, p : HasClosed(ip, p) => HasClosed(ip, p)'
  BY <1>1 DEF HasClosed
<1>3. \A d \in Conns : EntryLost(d) => EntryLost(d)'
  BY <1>1 DEF EntryLost
<1>4. ASSUME NEW d \in Conns, NEW b \in Blocks, dl[d][b] = "reported" PROVE dl'[d][b] = "reported"
  <2>0. dl \in [Conns -> [Blocks -> DlStates]] /\ held \in [Conns -> Blocks \cup {NoBlock}]
    BY DEF TypeInv, TypeOK
  <2>1. CASE UNCHANGED dl
    BY <1>4, <2>1
  <2>2. CASE ProcessBlockRequest(c)
    <3>1. PICK x \in Blocks : dl[c][x] = "wanted" /\ (UNCHANGED dl \/ dl' = [dl EXCEPT ![c][x] = "lost"])
      BY <2>2 DEF ProcessBlockRequest, BlocksOf
    <3> QED BY <1>4, <2>0, <3>1
  <2>3. CASE ReadPeer(c)
    <3>1. dl[c][held[c]] = "wanted" /\ dl' = [dl EXCEPT ![c][held[c]] = "named"]
      BY <2>3 DEF ReadPeer, InHand
    <3> QED BY <1>4, <2>0, <3>1
  <2>4. CASE ReceiveSuccess(c)
    <3>1. PICK x \in Blocks : dl' = [dl EXCEPT ![c][x] = "reported"]
      BY <2>4 DEF ReceiveSuccess, BlocksOf
    <3> QED BY <1>4, <2>0, <3>1
  <2> QED BY <2>1, <2>2, <2>3, <2>4, HandlerFrames
<1>5. \A d \in Conns, b \in Blocks : Reported(d, b) => Reported(d, b)'
  BY <1>4 DEF Reported
<1>6. \A b \in Blocks, m \in Main : Honest(b, m) => Honest(b, m)'
  BY <1>3, <1>5 DEF Honest, Downloaded
<1> QED BY <1>2, <1>3, <1>5, <1>6

-----------------------------------------------------------------------------
(* The peers list *)

\* Who has said hello is not new, and stays among them.
LEMMA StartedStays ==
  ASSUME TypeInv, NEW c \in Conns, Client(c) \/ Serve(c)
  PROVE  /\ started \subseteq started'
         /\ \A e \in started : pc[e] # "off"
BY HandlerFrames, ConnsAssumption DEF AddPeer, TypeInv, Roles, TypeOK

\* A peer's port changes only before it says hello.
LEMMA PortStays ==
  ASSUME TypeInv, NEW c \in Conns, Client(c) \/ Serve(c), NEW e \in started
  PROVE  port'[e] = port[e]
<1>1. e \in Conns /\ pc[e] # "off" /\ port \in [Conns -> {PortOf[m] : m \in Main} \cup {NoPort}]
  BY ConnsAssumption, StartedStays DEF TypeInv, TypeOK
<1>2. CASE UNCHANGED port
  BY <1>2
<1>3. CASE Connect(c)
  BY <1>1, <1>3 DEF Connect
<1>4. CASE AddPeer(c)
  BY <1>1, <1>4 DEF AddPeer
<1> QED BY <1>2, <1>3, <1>4, HandlerFrames

\* The list without its i-th entry.
Without(s, i) == SubSeq(s, 1, i-1) \o SubSeq(s, i+1, Len(s))

\* The entries before it stay in place, those after it move down.
LEMMA RemovalAt ==
  ASSUME NEW S, NEW s \in Seq(S), NEW i \in 1..Len(s)
  PROVE  /\ Len(Without(s, i)) = Len(s) - 1
         /\ \A j \in 1..Len(Without(s, i)) : Without(s, i)[j] = IF j < i THEN s[j] ELSE s[j+1]
<1>1. Len(s) \in Nat /\ i \in Nat /\ 1 <= i /\ i <= Len(s)
  OBVIOUS
<1>2. \A j \in 1..Len(s) : s[j] \in S
  OBVIOUS
<1> DEFINE a == SubSeq(s, 1, i-1)
           z == SubSeq(s, i+1, Len(s))
<1>3. a \in Seq(S) /\ Len(a) = i - 1 /\ \A j \in 1..(i-1) : a[j] = s[j]
  BY <1>1, <1>2, SubSeqProperties
<1>4. z \in Seq(S) /\ Len(z) = Len(s) - i /\ \A j \in 1..(Len(s) - i) : z[j] = s[i + j]
  <2>1. \A j \in (i+1)..Len(s) : s[j] \in S
    BY <1>1, <1>2
  <2>2. CASE i = Len(s)
    BY <1>1, <2>1, <2>2, SubSeqProperties
  <2>3. CASE i < Len(s)
    BY <1>1, <2>1, <2>3, SubSeqProperties
  <2> QED BY <1>1, <2>2, <2>3
<1> DEFINE t == Without(s, i)
<1>5. t = a \o z
  BY DEF Without
<1> HIDE DEF a, z, t
<1>6. a \in Seq(S) /\ z \in Seq(S)
  BY <1>3, <1>4
<1>7. Len(t) = Len(a) + Len(z)
  BY <1>5, <1>6, ConcatProperties
<1>8. ASSUME NEW j \in 1..(Len(a) + Len(z)) PROVE t[j] = IF j <= Len(a) THEN a[j] ELSE z[j - Len(a)]
  BY <1>5, <1>6, ConcatProperties
<1>9. Len(a) = i - 1 /\ Len(z) = Len(s) - i
  BY <1>3, <1>4
<1>10. Len(t) = Len(s) - 1
  BY <1>1, <1>7, <1>9
<1>11. ASSUME NEW j \in 1..Len(t) PROVE t[j] = IF j < i THEN s[j] ELSE s[j+1]
  <2>1. j \in 1..(Len(a) + Len(z)) /\ j \in Nat /\ 1 <= j /\ j <= Len(s) - 1
    BY <1>1, <1>7, <1>10
  <2>2. t[j] = IF j <= i - 1 THEN a[j] ELSE z[j - (i - 1)]
    BY <1>8, <1>9, <2>1
  <2>3. CASE j < i
    BY <1>1, <1>3, <2>1, <2>2, <2>3
  <2>4. CASE j >= i
    <3> DEFINE k == j - (i - 1)
    <3>1. k \in 1..(Len(s) - i) /\ i + k = j + 1 /\ t[j] = z[k]
      BY <1>1, <2>1, <2>2, <2>4
    <3> QED BY <1>1, <1>4, <2>1, <2>4, <3>1
  <2> QED BY <1>1, <2>1, <2>3, <2>4
<1> QED BY <1>10, <1>11 DEF t

\* The peers list gets entries from AddPeer only, and their ports are set.
LEMMA EntriesStep ==
  ASSUME TypeInv, EntriesHavePort, NEW c \in Conns, Client(c) \/ Serve(c)
  PROVE  EntriesHavePort'
<1>1. peersList \in Seq(Main) /\ port \in [Conns -> {PortOf[m] : m \in Main} \cup {NoPort}]
  BY DEF TypeInv, TypeOK
<1>2. \A e \in started : e \in started' /\ port'[e] = port[e]
  BY StartedStays, PortStays
<1>3. CASE UNCHANGED peersList
  BY <1>2, <1>3 DEF EntriesHavePort
<1>4. CASE AddPeer(c)
  <2>1. /\ peersList' = Append(peersList, c) /\ c \in started' /\ c \in Main
        /\ port'[c] = PortOf[c]
    BY <1>1, <1>4 DEF AddPeer
  <2>2. /\ Len(peersList') = Len(peersList) + 1
        /\ \A i \in 1..Len(peersList) : peersList'[i] = peersList[i]
        /\ peersList'[Len(peersList) + 1] = c
    BY <1>1, <2>1, AppendProperties
  <2>3. ASSUME NEW i \in 1..Len(peersList') PROVE i \in 1..Len(peersList) \/ i = Len(peersList) + 1
    BY <1>1, <2>2
  <2> QED BY <1>2, <2>1, <2>2, <2>3 DEF EntriesHavePort
<1>5. CASE RemoveFromGlobal(c) /\ ~ UNCHANGED peersList
  <2>1. PICK i \in 1..Len(peersList) : peersList' = Without(peersList, i)
    BY <1>5 DEF RemoveFromGlobal, Without
  <2>2. ASSUME NEW j \in 1..Len(peersList') PROVE \E k \in 1..Len(peersList) : peersList'[j] = peersList[k]
    <3>1. /\ Len(peersList') = Len(peersList) - 1 /\ Len(peersList) \in Nat
          /\ peersList'[j] = IF j < i THEN peersList[j] ELSE peersList[j + 1]
      BY <1>1, <2>1, RemovalAt
    <3>2. j \in 1..Len(peersList) /\ j + 1 \in 1..Len(peersList)
      BY <3>1
    <3> QED BY <3>1, <3>2
  <2> QED BY <1>2, <2>2 DEF EntriesHavePort
<1> QED BY <1>3, <1>4, <1>5, HandlerFrames

\* A download follows an ls reply, and that a hello message.
LEMMA DownloadersStep ==
  ASSUME TypeInv, DownloadersStarted, NEW c \in Conns, Client(c) \/ Serve(c)
  PROVE  DownloadersStarted'
<1>1. seen \in [Main -> SUBSET Files] /\ started \subseteq started' /\ OwnerOf \in [Conns -> Main]
  BY ConnsAssumption, StartedStays DEF TypeInv, TypeOK
<1>2. ASSUME NEW m \in Main, seen'[m] # {} PROVE m \in started'
  <2>1. CASE UNCHANGED seen
    BY <1>1, <1>2, <2>1 DEF DownloadersStarted
  <2>2. CASE SendFilesList(c)
    BY <1>1, <1>2, <2>2 DEF DownloadersStarted, SendFilesList
  <2> QED BY <2>1, <2>2, HandlerFrames
<1>3. ASSUME NEW d \in Conns \ Main, pc'[d] # "off" PROVE OwnerOf[d] \in started'
  <2>1. CASE pc[d] # "off"
    BY <1>1, <2>1 DEF DownloadersStarted
  <2>2. CASE pc[d] = "off"
    <3>1. d = c
      BY <1>3, <2>2, HandlerMoves
    <3>2. Connect(c)
      BY <2>2, <3>1, ConnsAssumption
      DEF Client, Serve, Disconnect, AddPeer, SendFilesList, ProcessBlockRequest, ReceiveSuccess, AddBlocks,
          GetFiles, MakeBlocksList, GetFilesReturn, GetPeerInfo, ListAt, ReadPeer, AddPeerToBlock, PushPeer, RemoveFromGlobal,
          RemoveFromBlocks, FreePeer, CheckBlocksList, CheckNextBlock, RemoveFromParentFile, FreeBlock,
          CheckBlocksReturn
    <3>3. Wants[d] \in seen[OwnerOf[d]]
      BY <3>1, <3>2 DEF Connect
    <3> QED BY <1>1, <3>3 DEF DownloadersStarted
  <2> QED BY <2>1, <2>2
<1> QED BY <1>2, <1>3 DEF DownloadersStarted

\* Only RemoveFromGlobal takes an entry out, and its thread is then closing.
LEMMA EntryStep ==
  ASSUME TypeInv, EntriesHavePort, NEW c \in Conns, Client(c) \/ Serve(c), NEW ip, NEW p,
         HasEntry(ip, p)
  PROVE  HasEntry(ip, p)' \/ HasClosed(ip, p)'
<1>1. peersList \in Seq(Main) /\ port \in [Conns -> {PortOf[m] : m \in Main} \cup {NoPort}]
  BY DEF TypeInv, TypeOK
<1>2. \A i \in 1..Len(peersList) : port'[peersList[i]] = port[peersList[i]]
  BY PortStays DEF EntriesHavePort
<1>3. PICK k \in 1..Len(peersList) : Ip[peersList[k]] = ip /\ port[peersList[k]] = p
  BY DEF HasEntry
<1>4. CASE UNCHANGED peersList
  BY <1>2, <1>3, <1>4 DEF HasEntry
<1>5. CASE AddPeer(c)
  <2>1. peersList' = Append(peersList, c) /\ c \in Main
    BY <1>5 DEF AddPeer
  <2>2. /\ Len(peersList') = Len(peersList) + 1 /\ Len(peersList) \in Nat
        /\ \A i \in 1..Len(peersList) : peersList'[i] = peersList[i]
    BY <1>1, <2>1, AppendProperties
  <2>3. k \in 1..Len(peersList') /\ peersList'[k] = peersList[k]
    BY <2>2
  <2> QED BY <1>2, <1>3, <2>3 DEF HasEntry
<1>6. CASE RemoveFromGlobal(c) /\ ~ UNCHANGED peersList
  <2>1. PICK i \in 1..Len(peersList) : /\ FirstMatch(i, Ip[c], port[c])
                                       /\ peersList' = Without(peersList, i)
    BY <1>6 DEF RemoveFromGlobal, Without
  <2>2. CASE Ip[c] = ip /\ port[c] = p
    <3>1. Closing(c)'
      BY <1>6 DEF RemoveFromGlobal, Goto, Closing, TypeInv, TypeOK
    <3>2. port' = port
      BY <1>6 DEF RemoveFromGlobal
    <3> QED BY <2>2, <3>1, <3>2 DEF HasClosed
  <2>3. CASE ~ (Ip[c] = ip /\ port[c] = p)
    <3>1. k # i
      BY <1>3, <2>1, <2>3 DEF FirstMatch
    <3>2. /\ Len(peersList') = Len(peersList) - 1 /\ Len(peersList) \in Nat
          /\ \A j \in 1..Len(peersList') : peersList'[j] = IF j < i THEN peersList[j] ELSE peersList[j + 1]
      BY <1>1, <2>1, RemovalAt
    <3>3. \E j \in 1..Len(peersList') : peersList'[j] = peersList[k]
      <4>1. CASE k < i
        <5>1. k \in 1..Len(peersList')
          BY <3>2, <4>1
        <5> QED BY <3>2, <4>1, <5>1
      <4>2. CASE k > i
        <5>1. k - 1 \in 1..Len(peersList') /\ ~ (k - 1 < i) /\ (k - 1) + 1 = k
          BY <3>2, <4>2
        <5> QED BY <3>2, <5>1
      <4> QED BY <3>1, <4>1, <4>2
    <3> QED BY <1>2, <1>3, <3>3 DEF HasEntry
  <2> QED BY <2>2, <2>3
<1> QED BY <1>4, <1>5, <1>6, HandlerFrames

\* The entry of a client is there until a connection with its address and port has closed.
LEMMA EntryStaysStep ==
  ASSUME TypeInv, EntriesHavePort, EntryStays, InHand, NEW c \in Conns, Client(c) \/ Serve(c)
  PROVE  EntryStays'
<1> SUFFICES ASSUME NEW m \in started' PROVE HasEntry(Ip[m], PortOf[m])' \/ HasClosed(Ip[m], PortOf[m])'
  BY DEF EntryStays, HasEntry, HasClosed
<1>1. CASE m \in started
  <2>1. CASE HasEntry(Ip[m], PortOf[m])
    BY <2>1, EntryStep
  <2>2. CASE HasClosed(Ip[m], PortOf[m])
    BY <2>2, PastStays
  <2> QED BY <1>1, <2>1, <2>2 DEF EntryStays
<1>2. CASE m \notin started
  <2>1. AddPeer(c) /\ m = c
    BY <1>2, HandlerFrames DEF AddPeer
  <2>2. peersList' = Append(peersList, m) /\ m \in Main /\ port'[m] = PortOf[m] /\ peersList \in Seq(Main)
    BY <2>1, ConnsAssumption DEF AddPeer, TypeInv, TypeOK
  <2>3. Len(peersList) + 1 \in 1..Len(peersList') /\ peersList'[Len(peersList) + 1] = m
    BY <2>2, AppendProperties
  <2> QED BY <2>2, <2>3 DEF HasEntry
<1> QED BY <1>1, <1>2

-----------------------------------------------------------------------------
(* The peers lists of the blocks *)

\* Between looking a block up and its push or its reply nothing else happens to
\* a connection.
LEMMA InHandStep ==
  ASSUME TypeInv, InHand, NEW c \in Conns, Client(c) \/ Serve(c)
  PROVE  InHand'
<1>1. /\ pc \in [Conns -> PCs] /\ dl \in [Conns -> [Blocks -> DlStates]]
      /\ held \in [Conns -> Blocks \cup {NoBlock}] /\ found \in [Conns -> SUBSET Main]
  BY DEF TypeInv, TypeOK
<1>2. ASSUME NEW d \in Conns \ {c}
      PROVE  pc'[d] = pc[d] /\ dl'[d] = dl[d] /\ held'[d] = held[d] /\ found'[d] = found[d]
  <2>1. pc'[d] = pc[d]
    BY HandlerMoves
  <2>2. dl'[d] = dl[d]
    <3>1. UNCHANGED dl \/ \E b \in Blocks : \E v : dl' = [dl EXCEPT ![c][b] = v]
      <4>1. CASE ProcessBlockRequest(c)
        BY <4>1 DEF ProcessBlockRequest, BlocksOf
      <4>2. CASE ReadPeer(c)
        <5>1. dl' = [dl EXCEPT ![c][held[c]] = "named"]
          BY <4>2 DEF ReadPeer
        <5>2. held[c] \in Blocks
          BY <4>2 DEF ReadPeer, TypeInv, Roles
        <5> QED BY <5>1, <5>2
      <4>3. CASE ReceiveSuccess(c)
        BY <4>3 DEF ReceiveSuccess, BlocksOf
      <4> QED BY <4>1, <4>2, <4>3, HandlerFrames
    <3> QED BY <1>1, <3>1
  <2>3. held'[d] = held[d]
    <3>1. UNCHANGED held \/ \E v : held' = [held EXCEPT ![c] = v]
      BY HandlerFrames
      DEF ProcessBlockRequest, ReadPeer, ReceiveSuccess, PushPeer, CheckNextBlock, FreeBlock, DropBlock
    <3> QED BY <1>1, <3>1
  <2>4. found'[d] = found[d]
    <3>1. UNCHANGED found \/ \E v : found' = [found EXCEPT ![c] = v]
      BY HandlerFrames DEF AddPeerToBlock, PushPeer
    <3> QED BY <1>1, <3>1
  <2> QED BY <2>1, <2>2, <2>3, <2>4
<1>3. /\ pc'[c] \in {"GetPeerInfo", "list_at", "ReadPeer"} => dl'[c][held'[c]] = "wanted"
      /\ pc'[c] \in {"AddPeerToBlock", "push"} => dl'[c][held'[c]] = "reported"
      /\ found'[c] # {} => pc'[c] = "push"
  <2>1. CASE ProcessBlockRequest(c)
    <3>1. PICK b \in Blocks :
            /\ dl[c][b] = "wanted"
            /\ \/ held' = [held EXCEPT ![c] = b] /\ Goto(c, "GetPeerInfo") /\ UNCHANGED dl
               \/ UNCHANGED pc
      BY <2>1 DEF ProcessBlockRequest, BlocksOf
    <3>2. pc[c] = "idle" /\ UNCHANGED found
      BY <2>1 DEF ProcessBlockRequest
    <3> QED BY <1>1, <3>1, <3>2 DEF InHand, Goto
  <2>2. CASE ReceiveSuccess(c)
    <3>1. PICK b \in Blocks :
            /\ dl' = [dl EXCEPT ![c][b] = "reported"]
            /\ \/ held' = [held EXCEPT ![c] = b] /\ Goto(c, "AddPeerToBlock")
               \/ Goto(c, "RemoveFromGlobal")
      BY <2>2 DEF ReceiveSuccess, BlocksOf
    <3>2. pc[c] = "idle" /\ UNCHANGED found
      BY <2>2 DEF ReceiveSuccess
    <3> QED BY <1>1, <3>1, <3>2 DEF InHand, Goto
  <2>3. CASE AddPeerToBlock(c)
    <3>1. pc[c] = "AddPeerToBlock" /\ Goto(c, "push") /\ UNCHANGED <<dl, held>>
      BY <2>3 DEF AddPeerToBlock, clientVars
    <3> QED BY <1>1, <3>1 DEF InHand, Goto
  <2>4. CASE PushPeer(c)
    BY <1>1, <2>4 DEF PushPeer, Goto
  <2>5. CASE GetPeerInfo(c)
    BY <1>1, <2>5 DEF GetPeerInfo, InHand, Goto, clientVars
  <2>7. CASE ListAt(c)
    BY <1>1, <2>7 DEF ListAt, InHand, Goto, clientVars
  <2>8. CASE ReadPeer(c)
    BY <1>1, <2>8 DEF ReadPeer, InHand, Goto
  <2>6. CASE ~ (\/ ProcessBlockRequest(c) \/ ReceiveSuccess(c) \/ AddPeerToBlock(c)
                \/ PushPeer(c) \/ GetPeerInfo(c) \/ ListAt(c) \/ ReadPeer(c))
    <3>1. UNCHANGED <<found, dl>> /\ pc[c] \notin {"GetPeerInfo", "list_at", "ReadPeer", "AddPeerToBlock", "push"}
      BY <2>6, HandlerFrames
      DEF Client, Serve, Connect, Disconnect, AddPeer, SendFilesList, AddBlocks, GetFiles, MakeBlocksList,
          GetFilesReturn, RemoveFromGlobal, RemoveFromBlocks, FreePeer, CheckBlocksList, CheckNextBlock,
          RemoveFromParentFile, FreeBlock, CheckBlocksReturn
    <3>2. pc'[c] \notin {"GetPeerInfo", "list_at", "ReadPeer", "AddPeerToBlock", "push"}
      BY <1>1, <2>6
      DEF Client, Serve, Connect, Disconnect, AddPeer, SendFilesList, AddBlocks, GetFiles, MakeBlocksList,
          GetFilesReturn, RemoveFromGlobal, RemoveFromBlocks, FreePeer, CheckBlocksList, CheckNextBlock,
          RemoveFromParentFile, FreeBlock, CheckBlocksReturn, Goto, threadVars
    <3> QED BY <3>1, <3>2 DEF InHand
  <2> QED BY <2>1, <2>2, <2>3, <2>4, <2>5, <2>6, <2>7, <2>8
<1> QED BY <1>2, <1>3 DEF InHand

\* AddPeerToBlock finds the reporting peer, as long as its entry is there: its
\* client has said hello (DownloadersStarted) from the same address.
LEMMA FoundStep ==
  ASSUME TypeInv, EntriesHavePort, DownloadersStarted, EntryStays, InHand, FoundHonest,
         NEW c \in Conns, Client(c) \/ Serve(c)
  PROVE  FoundHonest'
<1>1. found \in [Conns -> SUBSET Main] /\ peersList \in Seq(Main)
  BY DEF TypeInv, TypeOK
<1>2. \A d \in Conns : EntryLost(d) => EntryLost(d)'
  BY PastStays
<1>3. CASE UNCHANGED found
  BY <1>2, <1>3 DEF FoundHonest, SamePeer
<1>4. CASE PushPeer(c)
  BY <1>1, <1>2, <1>4 DEF FoundHonest, SamePeer, PushPeer
<1>5. CASE AddPeerToBlock(c)
  <2>1. ASSUME NEW m \in found'[c] PROVE SamePeer(c, m) \/ EntryLost(c)
    <3>1. CASE NoMatch(Ip[c], PortOf[OwnerOf[c]])
      <4>1. c \in Conns \ Main /\ pc[c] = "AddPeerToBlock"
        BY <1>5 DEF AddPeerToBlock, TypeInv, Roles
      <4>2. OwnerOf[c] \in started /\ Ip[c] = Ip[OwnerOf[c]]
        BY <4>1, AddressAssumption DEF DownloadersStarted
      <4>3. ~ HasEntry(Ip[c], PortOf[OwnerOf[c]])
        BY <3>1 DEF NoMatch, HasEntry
      <4>4. HasClosed(Ip[c], PortOf[OwnerOf[c]])
        BY <4>2, <4>3 DEF EntryStays
      <4> QED BY <4>4 DEF HasClosed, EntryLost
    <3>2. CASE ~ NoMatch(Ip[c], PortOf[OwnerOf[c]])
      <4>1. PICK i \in 1..Len(peersList) : /\ FirstMatch(i, Ip[c], PortOf[OwnerOf[c]])
                                           /\ found' = [found EXCEPT ![c] = {peersList[i]}]
        BY <1>5, <3>2 DEF AddPeerToBlock
      <4>2. m = peersList[i]
        BY <1>1, <2>1, <4>1
      <4>3. Ip[m] = Ip[c] /\ port[m] = PortOf[OwnerOf[c]] /\ port[m] = PortOf[m]
        BY <4>1, <4>2 DEF FirstMatch, EntriesHavePort
      <4> QED BY <4>3 DEF SamePeer
    <3> QED BY <3>1, <3>2
  <2>2. \A d \in Conns \ {c} : found'[d] = found[d]
    BY <1>1, <1>5 DEF AddPeerToBlock
  <2> QED BY <1>2, <2>1, <2>2 DEF FoundHonest, SamePeer
<1> QED BY <1>3, <1>4, <1>5, HandlerFrames

\* Only AddBlocks and AddPeerToBlock's push put a peer into a block's list.
LEMMA HoldersStep ==
  ASSUME TypeInv, InHand, FoundHonest, HoldersHonest, NEW c \in Conns, Client(c) \/ Serve(c)
  PROVE  HoldersHonest'
<1>1. /\ holders \in [Blocks -> [Main -> Nat]] /\ held \in [Conns -> Blocks \cup {NoBlock}]
      /\ found \in [Conns -> SUBSET Main]
  BY DEF TypeInv, TypeOK
<1>2. \A b \in Blocks, m \in Main : Honest(b, m) => Honest(b, m)'
  BY PastStays
<1> SUFFICES ASSUME NEW b \in Blocks, NEW m \in Main, holders'[b][m] > 0, ~ (holders[b][m] > 0)
             PROVE  Honest(b, m)'
  BY <1>2 DEF HoldersHonest, Honest, Downloaded, Reported, EntryLost, Closing
<1>3. holders[b][m] = 0 /\ holders[b] \in [Main -> Nat]
  BY <1>1
<1>4. CASE AddBlocks(c)
  <2>1. b \in AnnBlocks[c] /\ holders'[b] = [holders[b] EXCEPT ![c] = holders[b][c] + 1]
    BY <1>3, <1>4 DEF AddBlocks
  <2>2. m = c
    BY <1>3, <2>1
  <2> QED BY <2>1, <2>2 DEF Honest
<1>5. CASE PushPeer(c)
  <2>1. b = held[c] /\ m \in found[c]
    <3>1. ~ gone[c] /\ holders' = [holders EXCEPT ![held[c]] =
                                     [n \in Main |-> IF n \in found[c] THEN holders[held[c]][n] + 1
                                                                       ELSE holders[held[c]][n]]]
      BY <1>3, <1>5 DEF PushPeer
    <3>2. b = held[c]
      BY <1>1, <1>3, <3>1
    <3>3. holders'[b][m] = IF m \in found[c] THEN holders[b][m] + 1 ELSE holders[b][m]
      BY <1>1, <3>1, <3>2
    <3> QED BY <1>3, <3>2, <3>3
  <2>2. c \in Conns \ Main /\ dl[c][b] = "reported"
    BY <1>5, <2>1 DEF PushPeer, InHand, TypeInv, Roles
  <2>3. Honest(b, m)
    BY <2>1, <2>2 DEF FoundHonest, SamePeer, Honest, Downloaded, Reported
  <2> QED BY <1>2, <2>3
<1>6. CASE RemoveFromBlocks(c)
  <2>1. holders'[b] = holders[b] \/ holders'[b] = [holders[b] EXCEPT ![c] = OneLess(holders[b][c])]
    BY <1>6 DEF RemoveFromBlocks
  <2>2. holders'[b][m] = holders[b][m] \/ (m = c /\ holders'[b][m] = OneLess(0))
    BY <1>3, <2>1
  <2>3. OneLess(0) = 0
    BY DEF OneLess
  <2> QED BY <1>3, <2>2, <2>3
<1>7. CASE FreeBlock(c)
  <2>1. holders' = [holders EXCEPT ![held[c]] = [n \in Main |-> 0]]
    BY <1>7 DEF FreeBlock
  <2>2. holders'[b][m] = 0 \/ holders'[b][m] = holders[b][m]
    BY <1>1, <2>1
  <2> QED BY <1>3, <2>2
<1>8. CASE UNCHANGED holders
  BY <1>3, <1>8
<1> QED BY <1>4, <1>5, <1>6, <1>7, <1>8, HandlerFrames

-----------------------------------------------------------------------------
\* Nobody is connected at the start.
LEMMA HoldersInit == Init => HoldersInv
<1> SUFFICES ASSUME Init PROVE HoldersInv
  OBVIOUS
<1>1. TypeInv
  BY TypeInit
<1>2. EntriesHavePort /\ DownloadersStarted /\ EntryStays /\ InHand /\ FoundHonest
  BY ConnsAssumption DEF Init, EntriesHavePort, DownloadersStarted, EntryStays, InHand, FoundHonest
<1>3. HoldersHonest
  BY DEF Init, HoldersHonest
<1> QED BY <1>1, <1>2, <1>3 DEF HoldersInv

\* The parts of the invariant, step by step.
LEMMA HoldersInvStep == HoldersInv /\ [Next]_vars => HoldersInv'
<1> SUFFICES ASSUME HoldersInv, [Next]_vars PROVE HoldersInv'
  OBVIOUS
<1>1. CASE UNCHANGED vars
  BY <1>1 DEF HoldersInv, TypeInv, TypeOK, Roles, EntriesHavePort, DownloadersStarted, EntryStays, HasEntry,
              HasClosed, Closing, InHand, FoundHonest, SamePeer, EntryLost, HoldersHonest, Honest, Downloaded,
              Reported, vars, threadVars, clientVars, fileVars, blockVars, lockVars
<1>2. ASSUME NEW c \in Conns, Client(c) \/ Serve(c) PROVE HoldersInv'
  <2>1. TypeInv'
    BY TypeStep DEF HoldersInv
  <2> QED BY <1>2, <2>1, EntriesStep, DownloadersStep, EntryStaysStep, InHandStep, FoundStep, HoldersStep
          DEF HoldersInv
<1> QED BY <1>1, <1>2 DEF Next

\* A peer is listed for a block because it announced it or reported it, for any
\* clients, files and blocks; AddPeerToBlock books a report to another peer only
\* when the entry of the reporting client has been taken out.
THEOREM HoldersAreHonest == Spec => []HolderIsHonest
<1>1. Init => HoldersInv
  BY HoldersInit
<1>2. HoldersInv /\ [Next]_vars => HoldersInv'
  BY HoldersInvStep
<1>3. HoldersInv => HolderIsHonest
  BY DEF HoldersInv, TypeInv, TypeOK, HoldersHonest, Honest, HolderIsHonest
<1> QED BY <1>1, <1>2, <1>3, PTL DEF Spec
=============================================================================
