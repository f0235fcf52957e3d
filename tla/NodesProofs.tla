---------------------------- MODULE NodesProofs ----------------------------
(***************************************************************************)
(* Theorems about Nodes and SyncNode, for any number of nodes, peers and   *)
(* threads: what ThreadSocketHandler deletes is in nobody's copy, and      *)
(* reference counts are exact.                                             *)
(*                                                                         *)
(* UsersHoldLive is not inductive: that a node with count zero is in no    *)
(* copy needs RefsExact, which in turn needs that a node in vNodes still   *)
(* has the reference of its connection (Owned), that the handlers' copies  *)
(* are empty when they make a new one (Copies), and that a thread that is  *)
(* about to use a node has one (Pointers).                                 *)
(*                                                                         *)
(* Every step of SyncNode is a step of Nodes or leaves its variables       *)
(* alone, so what is proved of Nodes holds there too.  StartSync writes to *)
(* the node it chose without a lock: that this node is one of the slots,   *)
(* and has not been deleted, needs that the choice is in the copy of       *)
(* vNodes which the message thread keeps until StartSync is over.          *)
(***************************************************************************)
EXTENDS SyncNode, FiniteSetTheorems, TLAPS

OpenerRecords ==
  [pc : {"idle", "open", "connect", "dial", "onetry", "found", "grant",
         "network"},
   peer : Peers \cup {NULL}, pnode : Slots \cup {NULL}, grant : BOOLEAN]

\* TypeOK without the value of the semaphore.
Typed ==
  /\ node \in [Slots -> NodeRecords]
  /\ vNodes \in SUBSET Slots /\ vNodesDisconnected \in SUBSET Slots
  /\ opener \in [Openers -> OpenerRecords]
  /\ sock \in [pc : {"disconnect", "accept", "serve"}, copy : SUBSET Slots]
  /\ msg \in [pc : {"copy", "poll"}, copy : SUBSET Slots]

Copies ==
  /\ sock.pc # "serve" => sock.copy = {}
  /\ msg.pc # "poll" => msg.copy = {}

Pointers ==
  \A o \in Openers :
    opener[o].pc \in {"found", "grant", "network"} => opener[o].pnode \in Slots

Owned == \A s \in vNodes : node[s].owned

IInv == Typed /\ Copies /\ Pointers /\ Owned /\ UsersHoldLive /\ RefsExact

----------------------------------------------------------------------------
\* No node exists and no thread holds one.
LEMMA InitIInv == Init => IInv
  BY NodesAssumption DEF Init, IInv, Typed, Copies, Pointers, Owned,
     UsersHoldLive, RefsExact, Users, Grants, Free, Idle, NodeRecords,
     OpenerRecords, NodesAssumption

----------------------------------------------------------------------------
(* Steps that leave lists and copies alone.                                *)

\* What IInv says of a node does not change.
SameNode(s) ==
  /\ node'[s] \in NodeRecords
  /\ node'[s].alive = node[s].alive
  /\ node'[s].nRefCount = node[s].nRefCount
  /\ node'[s].owned = node[s].owned
  /\ node'[s].taken = node[s].taken

SameLists == UNCHANGED <<vNodes, vNodesDisconnected, sock, msg>>

\* The part of IInv about an opening thread.
OpenersOK ==
  /\ opener' \in [Openers -> OpenerRecords]
  /\ Pointers'

\* Nothing IInv speaks of changes in any node.
LEMMA SameNodes ==
  ASSUME IInv, SameLists, OpenersOK, DOMAIN node' = Slots,
         node' = [s \in Slots |-> node'[s]], \A s \in Slots : SameNode(s)
  PROVE  IInv'
<1>1. Typed'
  BY DEF IInv, Typed, SameLists, OpenersOK, SameNode
<1>2. Copies' /\ Pointers'
  BY DEF IInv, Copies, SameLists, OpenersOK
<1>3. Owned' /\ UsersHoldLive'
  BY DEF IInv, Typed, Owned, UsersHoldLive, SameLists, SameNode
<1>4. RefsExact'
  BY DEF IInv, RefsExact, Users, Grants, SameLists, SameNode
<1> QED BY <1>1, <1>2, <1>3, <1>4 DEF IInv

\* Steps that change no node.
LEMMA OpenerOnly ==
  ASSUME IInv, SameLists, OpenersOK, UNCHANGED node
  PROVE  IInv'
  BY DEF IInv, Typed, Copies, Pointers, Owned, UsersHoldLive, RefsExact, Users,
     Grants, SameLists, OpenersOK

\* A thread starts to open a connection.
LEMMA OpensIInv ==
  ASSUME IInv, NEW o \in Openers, NEW peer \in Peers, Opening(o, peer)
  PROVE  IInv'
<1>1. PICK pc \in {"open", "dial", "onetry"}, grant \in BOOLEAN : Opens(o, pc, peer, grant)
  BY DEF Opening, Acquire, ByName, OneTry
<1>2. opener' \in [Openers -> OpenerRecords]
  BY <1>1 DEF Opens, IInv, Typed, OpenerRecords
<1>3. Pointers'
  BY <1>1 DEF Opens, IInv, Typed, Pointers
<1> QED BY <1>1, <1>2, <1>3, OpenerOnly DEF Opens, SameLists, OpenersOK

\* It returns without a node.
LEMMA GiveUpIInv ==
  ASSUME IInv, NEW o \in Openers, GiveUp(o)
  PROVE  IInv'
<1>1. opener' \in [Openers -> OpenerRecords]
  BY DEF GiveUp, Idle, IInv, Typed, OpenerRecords
<1>2. Pointers'
  BY DEF GiveUp, Idle, IInv, Typed, Pointers
<1> QED BY <1>1, <1>2, OpenerOnly DEF GiveUp, SameLists, OpenersOK

\* It goes on to look again or to dial.
LEMMA GoToIInv ==
  ASSUME IInv, NEW o \in Openers, NEW pc \in {"connect", "dial"}, GoTo(o, pc)
  PROVE  IInv'
<1>0. opener[o] \in OpenerRecords /\ [opener[o] EXCEPT !.pc = pc] \in OpenerRecords
  BY DEF IInv, Typed, OpenerRecords
<1>1. opener' \in [Openers -> OpenerRecords]
  BY <1>0 DEF GoTo, IInv, Typed
<1>2. Pointers'
  BY DEF GoTo, IInv, Typed, OpenerRecords, Pointers
<1> QED BY <1>1, <1>2, OpenerOnly DEF GoTo, SameLists, OpenersOK

\* The second FindNode: what it finds is in vNodes, so it is a node.
LEMMA LookAgainIInv ==
  ASSUME IInv, NEW o \in Openers, LookAgain(o)
  PROVE  IInv'
<1>1. CASE GoTo(o, "dial")
  BY <1>1, GoToIInv
<1>2. CASE \E s \in FindNodeByService(opener[o].peer) :
             /\ opener' = [opener EXCEPT ![o] =
                               [@ EXCEPT !.pc = "found", !.pnode = s]]
             /\ UNCHANGED <<node, vNodes, vNodesDisconnected, semOutbound,
                            sock, msg>>
  <2>1. PICK s \in Slots :
             /\ opener' = [opener EXCEPT ![o] =
                               [@ EXCEPT !.pc = "found", !.pnode = s]]
             /\ UNCHANGED <<node, vNodes, vNodesDisconnected, semOutbound,
                            sock, msg>>
    BY <1>2 DEF FindNodeByService, IInv, Typed
  <2>2. opener' \in [Openers -> OpenerRecords]
    <3>1. opener \in [Openers -> OpenerRecords]
      BY DEF IInv, Typed
    <3>2. [opener[o] EXCEPT !.pc = "found", !.pnode = s] \in OpenerRecords
      BY <3>1 DEF OpenerRecords
    <3> HIDE DEF OpenerRecords
    <3> QED BY <2>1, <3>1, <3>2
  <2>3. Pointers'
    BY <2>1 DEF IInv, Typed, OpenerRecords, Pointers
  <2> QED BY <2>1, <2>2, <2>3, OpenerOnly DEF SameLists, OpenersOK
<1> QED BY <1>1, <1>2 DEF LookAgain

\* The unlocked AddRef() raises taken, which frees the count from above.
LEMMA AddRefFoundIInv ==
  ASSUME IInv, NEW o \in Openers, AddRefFound(o)
  PROVE  IInv'
<1> DEFINE s == opener[o].pnode
<1>1. s \in Slots /\ node[s] \in NodeRecords /\ node[s].taken < MaxTaken
  BY DEF AddRefFound, At, IInv, Typed, Pointers
<1>2. PICK n \in 0..2 :
        node' = [node EXCEPT ![s] =
                   [@ EXCEPT !.nRefCount = node[s].nRefCount + n,
                             !.taken = node[s].taken + 1]]
  BY DEF AddRefFound
<1>3. node'[s] = [node[s] EXCEPT !.nRefCount = node[s].nRefCount + n,
                                 !.taken = node[s].taken + 1]
  BY <1>1, <1>2 DEF IInv, Typed
<1>4. node'[s] \in NodeRecords
  <2>1. /\ node[s].nRefCount + n \in Int
        /\ node[s].taken + 1 \in 0..MaxTaken
    BY <1>1, NodesAssumption DEF NodeRecords, NodesAssumption
  <2> QED BY <1>1, <1>3, <2>1 DEF NodeRecords
<1>5. node' \in [Slots -> NodeRecords]
  BY <1>1, <1>2, <1>3, <1>4 DEF IInv, Typed
<1>6. opener' \in [Openers -> OpenerRecords] /\ Pointers'
  BY <1>1 DEF AddRefFound, At, IInv, Typed, Pointers, OpenerRecords
<1>7. SameLists
  BY DEF AddRefFound, SameLists
<1>8. /\ node'[s].alive = node[s].alive /\ node'[s].owned = node[s].owned
      /\ node'[s].nRefCount >= node[s].nRefCount /\ node'[s].taken # 0
  BY <1>1, <1>3 DEF NodeRecords
<1>9. \A t \in Slots \ {s} : node'[t] = node[t]
  BY <1>2 DEF IInv, Typed
<1>10. Typed' /\ Copies' /\ Owned' /\ UsersHoldLive'
  BY <1>1, <1>5, <1>6, <1>7, <1>8, <1>9 DEF IInv, Typed, Copies, Owned, UsersHoldLive, SameLists
<1>11. RefsExact'
  BY <1>1, <1>4, <1>7, <1>8, <1>9 DEF IInv, Typed, RefsExact, Users, Grants, SameLists, NodeRecords
<1> QED BY <1>6, <1>10, <1>11 DEF IInv

\* MoveTo touches the grant alone.
LEMMA MoveGrantIInv ==
  ASSUME IInv, NEW o \in Openers, MoveGrant(o)
  PROVE  IInv'
<1> DEFINE s == opener[o].pnode
<1>1. s \in Slots /\ opener[o] \in OpenerRecords
  BY DEF MoveGrant, At, IInv, Typed, Pointers
<1>2. node' = [node EXCEPT ![s].grantOutbound = opener[o].grant]
  BY DEF MoveGrant
<1>3. \A t \in Slots : SameNode(t)
  BY <1>1, <1>2 DEF IInv, Typed, SameNode, NodeRecords, OpenerRecords
<1>4. OpenersOK
  BY <1>1 DEF MoveGrant, IInv, Typed, Pointers, OpenerRecords, OpenersOK
<1>5. node' = [t \in Slots |-> node'[t]] /\ DOMAIN node' = Slots
  BY <1>2 DEF IInv, Typed
<1> QED BY <1>3, <1>4, <1>5, SameNodes DEF MoveGrant, SameLists

\* fNetworkNode is set.
LEMMA MarkNetworkNodeIInv ==
  ASSUME IInv, NEW o \in Openers, MarkNetworkNode(o)
  PROVE  IInv'
<1> DEFINE s == opener[o].pnode
<1>1. s \in Slots /\ node' = [node EXCEPT ![s].fNetworkNode = TRUE]
  BY DEF MarkNetworkNode, At, IInv, Pointers
<1>2. \A t \in Slots : SameNode(t)
  <2>1. /\ node[s] \in NodeRecords
        /\ node'[s] = [node[s] EXCEPT !.fNetworkNode = TRUE]
    BY <1>1 DEF IInv, Typed
  <2>2. SameNode(s)
    BY <2>1 DEF SameNode, NodeRecords
  <2> QED BY <1>1, <2>2 DEF IInv, Typed, SameNode
<1>3. opener' \in [Openers -> OpenerRecords]
  BY DEF MarkNetworkNode, Idle, IInv, Typed, OpenerRecords
<1>4. Pointers'
  BY DEF MarkNetworkNode, Idle, IInv, Typed, Pointers
<1>5. node' = [t \in Slots |-> node'[t]] /\ DOMAIN node' = Slots
  BY <1>1 DEF IInv, Typed
<1> QED BY <1>2, <1>3, <1>4, <1>5, SameNodes DEF MarkNetworkNode, SameLists, OpenersOK

\* A node is asked to disconnect, or its socket is closed.
LEMMA DisconnectIInv ==
  ASSUME IInv, NEW s \in Slots, SameLists, UNCHANGED opener,
         \/ node' = [node EXCEPT ![s].fDisconnect = TRUE]
         \/ node' = [node EXCEPT ![s] = Closed(@)]
  PROVE  IInv'
<1>1. \A t \in Slots : SameNode(t)
  <2>1. CASE node' = [node EXCEPT ![s].fDisconnect = TRUE]
    <3>1. /\ node[s] \in NodeRecords
          /\ node'[s] = [node[s] EXCEPT !.fDisconnect = TRUE]
      BY <2>1 DEF IInv, Typed
    <3>2. SameNode(s)
      BY <3>1 DEF SameNode, NodeRecords
    <3> QED BY <2>1, <3>2 DEF IInv, Typed, SameNode
  <2>2. CASE node' = [node EXCEPT ![s] = Closed(@)]
    <3>1. node[s] \in NodeRecords /\ node'[s] = Closed(node[s])
      BY <2>2 DEF IInv, Typed
    <3>2. SameNode(s)
      BY <3>1 DEF SameNode, NodeRecords, Closed
    <3> QED BY <2>2, <3>2 DEF IInv, Typed, SameNode
  <2> QED BY <2>1, <2>2
<1>2. node' = [t \in Slots |-> node'[t]] /\ DOMAIN node' = Slots
  BY DEF IInv, Typed
<1>3. OpenersOK
  BY DEF OpenersOK, IInv, Typed, Pointers
<1> QED BY <1>1, <1>2, <1>3, SameNodes

----------------------------------------------------------------------------
(* Nodes enter vNodes, and threads copy it.                                *)

\* A new node has one reference, that of its connection.
LEMMA NewNodeRecord ==
  ASSUME NEW peer \in Peers \cup {NULL}, NEW inbound \in BOOLEAN
  PROVE  /\ NewNode(peer, inbound) \in NodeRecords
         /\ NewNode(peer, inbound).alive /\ NewNode(peer, inbound).owned
         /\ NewNode(peer, inbound).nRefCount = 1
<1>1. 0 \in 0..MaxTaken /\ 1 \in Int
  BY NodesAssumption DEF NodesAssumption
<1> QED BY <1>1 DEF NewNode, NodeRecords

\* A free slot is in no list and in no copy, so a new node has one user.
LEMMA EnterIInv ==
  ASSUME IInv, NEW s \in Slots, ~node[s].alive,
         NEW peer \in Peers \cup {NULL}, NEW inbound \in BOOLEAN,
         node' = [node EXCEPT ![s] = NewNode(peer, inbound)],
         vNodes' = vNodes \cup {s}, OpenersOK,
         UNCHANGED <<vNodesDisconnected, sock, msg>>
  PROVE  IInv'
<1>1. /\ node'[s] \in NodeRecords /\ node'[s].alive /\ node'[s].owned
      /\ node'[s].nRefCount = 1
      /\ \A t \in Slots \ {s} : node'[t] = node[t]
  BY NewNodeRecord DEF IInv, Typed
<1>2. s \notin vNodes \cup vNodesDisconnected \cup sock.copy \cup msg.copy
  BY DEF IInv, UsersHoldLive
<1>3. node' \in [Slots -> NodeRecords]
  BY <1>1 DEF IInv, Typed
<1>4. Typed' /\ Copies' /\ Pointers'
  BY <1>3 DEF IInv, Typed, Copies, OpenersOK
<1>5. Owned' /\ UsersHoldLive'
  BY <1>1, <1>2 DEF IInv, Typed, Owned, UsersHoldLive
<1>6. RefsExact'
  <2>1. ASSUME NEW t \in Slots, node'[t].alive
        PROVE  /\ node'[t].nRefCount >= Users(t)'
               /\ node'[t].taken = 0 => node'[t].nRefCount = Users(t)'
    <3>1. CASE t = s
      BY <1>1, <1>2, <3>1 DEF Users, Grants
    <3>2. CASE t # s
      BY <1>1, <2>1, <3>2 DEF IInv, RefsExact, Users, Grants
    <3> QED BY <3>1, <3>2
  <2> QED BY <2>1 DEF RefsExact
<1> QED BY <1>4, <1>5, <1>6 DEF IInv

\* ConnectNode enters a node.
LEMMA AddNodeIInv ==
  ASSUME IInv, NEW o \in Openers, NEW s \in Slots, AddNode(o, s)
  PROVE  IInv'
<1>1. opener[o] \in OpenerRecords
  BY DEF IInv, Typed
<1>2. opener' \in [Openers -> OpenerRecords]
  BY <1>1 DEF AddNode, Idle, IInv, Typed, OpenerRecords
<1>3. Pointers'
  BY <1>1 DEF AddNode, Idle, IInv, Typed, OpenerRecords, Pointers
<1>4. opener[o].peer \in Peers \cup {NULL}
  BY <1>1 DEF OpenerRecords
<1> QED BY <1>2, <1>3, <1>4, EnterIInv DEF AddNode, OpenersOK

\* ThreadSocketHandler accepts one.
LEMMA AcceptNodeIInv ==
  ASSUME IInv, NEW s \in Slots, NEW peer \in Peers, AcceptNode(s, peer)
  PROVE  IInv'
<1>1. OpenersOK
  BY DEF AcceptNode, OpenersOK, IInv, Typed, Pointers
<1> QED BY <1>1, EnterIInv DEF AcceptNode

\* References taken and released for a set of nodes.
LEMMA Counted ==
  ASSUME NEW S \in SUBSET Slots, node \in [Slots -> NodeRecords],
         NEW d \in Int,
         \/ d = 1 /\ node' = AddRefs(node, S)
         \/ d = -1 /\ node' = Releases(node, S)
  PROVE  /\ node' \in [Slots -> NodeRecords]
         /\ \A s \in Slots :
              /\ node'[s].alive = node[s].alive
              /\ node'[s].owned = node[s].owned
              /\ node'[s].taken = node[s].taken
              /\ node'[s].nRefCount =
                   IF s \in S THEN node[s].nRefCount + d ELSE node[s].nRefCount
<1>1. node' = [s \in Slots |-> IF s \in S
                 THEN [node[s] EXCEPT !.nRefCount = node[s].nRefCount + d]
                 ELSE node[s]]
  BY DEF AddRefs, Releases, NodeRecords
<1>2. ASSUME NEW s \in Slots
      PROVE  /\ node'[s] \in NodeRecords
             /\ node'[s].alive = node[s].alive
             /\ node'[s].owned = node[s].owned
             /\ node'[s].taken = node[s].taken
             /\ node'[s].nRefCount =
                  IF s \in S THEN node[s].nRefCount + d ELSE node[s].nRefCount
  BY <1>1, <1>2 DEF NodeRecords
<1> QED BY <1>1, <1>2

\* ThreadSocketHandler copies vNodes.
LEMMA SockCopyIInv ==
  ASSUME IInv, SockCopy
  PROVE  IInv'
<1>1. vNodes \in SUBSET Slots /\ node \in [Slots -> NodeRecords] /\ sock.copy = {}
  BY DEF IInv, Typed, Copies, SockCopy
<1>2. node' = AddRefs(node, vNodes) /\ sock' = [pc |-> "serve", copy |-> vNodes]
  BY DEF SockCopy
<1>3. /\ node' \in [Slots -> NodeRecords]
      /\ \A s \in Slots :
           /\ node'[s].alive = node[s].alive
           /\ node'[s].owned = node[s].owned
           /\ node'[s].taken = node[s].taken
           /\ node'[s].nRefCount =
                IF s \in vNodes THEN node[s].nRefCount + 1 ELSE node[s].nRefCount
  BY <1>1, <1>2, Counted
<1>4. Typed' /\ Copies' /\ Pointers'
  BY <1>1, <1>2, <1>3 DEF IInv, Typed, Copies, Pointers, SockCopy
<1>5. Owned' /\ UsersHoldLive'
  BY <1>1, <1>2, <1>3 DEF IInv, Typed, Owned, UsersHoldLive, SockCopy
<1>6. RefsExact'
  BY <1>1, <1>2, <1>3 DEF IInv, Typed, NodeRecords, RefsExact, Users, Grants, SockCopy
<1> QED BY <1>4, <1>5, <1>6 DEF IInv

\* It releases its copy.
LEMMA SockReleaseIInv ==
  ASSUME IInv, SockRelease
  PROVE  IInv'
<1>1. sock.copy \in SUBSET Slots /\ node \in [Slots -> NodeRecords]
  BY DEF IInv, Typed
<1>2. node' = Releases(node, sock.copy) /\ sock' = [pc |-> "disconnect", copy |-> {}]
  BY DEF SockRelease
<1>3. /\ node' \in [Slots -> NodeRecords]
      /\ \A s \in Slots :
           /\ node'[s].alive = node[s].alive
           /\ node'[s].owned = node[s].owned
           /\ node'[s].taken = node[s].taken
           /\ node'[s].nRefCount =
                IF s \in sock.copy THEN node[s].nRefCount + (-1) ELSE node[s].nRefCount
  BY <1>1, <1>2, Counted
<1>4. Typed' /\ Copies' /\ Pointers'
  BY <1>1, <1>2, <1>3 DEF IInv, Typed, Copies, Pointers, SockRelease
<1>5. Owned' /\ UsersHoldLive'
  BY <1>1, <1>2, <1>3 DEF IInv, Typed, Owned, UsersHoldLive, SockRelease
<1>6. RefsExact'
  BY <1>1, <1>2, <1>3 DEF IInv, Typed, NodeRecords, RefsExact, Users, Grants, SockRelease
<1> QED BY <1>4, <1>5, <1>6 DEF IInv

\* ThreadMessageHandler copies vNodes.
LEMMA MsgCopyIInv ==
  ASSUME IInv, MsgCopy
  PROVE  IInv'
<1>1. vNodes \in SUBSET Slots /\ node \in [Slots -> NodeRecords] /\ msg.copy = {}
  BY DEF IInv, Typed, Copies, MsgCopy
<1>2. node' = AddRefs(node, vNodes) /\ msg' = [pc |-> "poll", copy |-> vNodes]
  BY DEF MsgCopy
<1>3. /\ node' \in [Slots -> NodeRecords]
      /\ \A s \in Slots :
           /\ node'[s].alive = node[s].alive
           /\ node'[s].owned = node[s].owned
           /\ node'[s].taken = node[s].taken
           /\ node'[s].nRefCount =
                IF s \in vNodes THEN node[s].nRefCount + 1 ELSE node[s].nRefCount
  BY <1>1, <1>2, Counted
<1>4. Typed' /\ Copies' /\ Pointers'
  BY <1>1, <1>2, <1>3 DEF IInv, Typed, Copies, Pointers, MsgCopy
<1>5. Owned' /\ UsersHoldLive'
  BY <1>1, <1>2, <1>3 DEF IInv, Typed, Owned, UsersHoldLive, MsgCopy
<1>6. RefsExact'
  BY <1>1, <1>2, <1>3 DEF IInv, Typed, NodeRecords, RefsExact, Users, Grants, MsgCopy
<1> QED BY <1>4, <1>5, <1>6 DEF IInv

\* It releases its copy.
LEMMA MsgReleaseIInv ==
  ASSUME IInv, MsgRelease
  PROVE  IInv'
<1>1. msg.copy \in SUBSET Slots /\ node \in [Slots -> NodeRecords]
  BY DEF IInv, Typed
<1>2. node' = Releases(node, msg.copy) /\ msg' = [pc |-> "copy", copy |-> {}]
  BY DEF MsgRelease
<1>3. /\ node' \in [Slots -> NodeRecords]
      /\ \A s \in Slots :
           /\ node'[s].alive = node[s].alive
           /\ node'[s].owned = node[s].owned
           /\ node'[s].taken = node[s].taken
           /\ node'[s].nRefCount =
                IF s \in msg.copy THEN node[s].nRefCount + (-1) ELSE node[s].nRefCount
  BY <1>1, <1>2, Counted
<1>4. Typed' /\ Copies' /\ Pointers'
  BY <1>1, <1>2, <1>3 DEF IInv, Typed, Copies, Pointers, MsgRelease
<1>5. Owned' /\ UsersHoldLive'
  BY <1>1, <1>2, <1>3 DEF IInv, Typed, Owned, UsersHoldLive, MsgRelease
<1>6. RefsExact'
  <2> SUFFICES ASSUME NEW s \in Slots, node'[s].alive
               PROVE  /\ node'[s].nRefCount >= Users(s)'
                      /\ node'[s].taken = 0 => node'[s].nRefCount = Users(s)'
    BY DEF RefsExact
  <2>1. node[s].nRefCount \in Int
    BY DEF IInv, Typed, NodeRecords
  <2> QED BY <1>1, <1>2, <1>3, <2>1 DEF IInv, RefsExact, Users, Grants, MsgRelease
<1> QED BY <1>4, <1>5, <1>6 DEF IInv

----------------------------------------------------------------------------
(* Disconnection and deletion.                                             *)

\* A node that leaves vNodes loses at most the reference of its connection.
LEMMA DisconnectedRecord ==
  ASSUME NEW r \in NodeRecords
  PROVE  /\ Disconnected(r) \in NodeRecords
         /\ Disconnected(r).alive = r.alive /\ Disconnected(r).taken = r.taken
         /\ \/ /\ Disconnected(r).owned = r.owned
               /\ Disconnected(r).nRefCount = r.nRefCount
            \/ /\ Disconnected(r).owned = FALSE
               /\ Disconnected(r).nRefCount = r.nRefCount - 1
<1>1. CASE HasOwner(r)
  <2>1. Disconnected(r) =
          [r EXCEPT !.fDisconnect = TRUE, !.hSocket = FALSE,
                    !.grantOutbound = FALSE, !.nRefCount = r.nRefCount - 1,
                    !.owned = FALSE]
    BY <1>1 DEF Disconnected, Closed, NodeRecords
  <2>2. r.nRefCount - 1 \in Int
    BY DEF NodeRecords
  <2>3. Disconnected(r) \in NodeRecords
    BY <2>1, <2>2 DEF NodeRecords
  <2>4. /\ Disconnected(r).alive = r.alive /\ Disconnected(r).taken = r.taken
        /\ Disconnected(r).owned = FALSE
        /\ Disconnected(r).nRefCount = r.nRefCount - 1
    BY <2>1 DEF NodeRecords
  <2> QED BY <2>3, <2>4
<1>2. CASE ~HasOwner(r)
  <2>1. Disconnected(r) =
          [r EXCEPT !.fDisconnect = TRUE, !.hSocket = FALSE,
                    !.grantOutbound = FALSE]
    BY <1>2 DEF Disconnected, Closed, NodeRecords
  <2>2. Disconnected(r) \in NodeRecords
    BY <2>1 DEF NodeRecords
  <2>3. /\ Disconnected(r).alive = r.alive /\ Disconnected(r).taken = r.taken
        /\ Disconnected(r).owned = r.owned
        /\ Disconnected(r).nRefCount = r.nRefCount
    BY <2>1 DEF NodeRecords
  <2> QED BY <2>2, <2>3
<1> QED BY <1>1, <1>2

\* A deleted slot.
LEMMA FreeRecord == Free \in NodeRecords /\ ~Free.alive
  BY NodesAssumption DEF Free, NodeRecords, NodesAssumption

\* A node is deleted at count zero only: by exactness nobody has it.
LEMMA DisconnectAndDeleteIInv ==
  ASSUME IInv, NEW unused \in SUBSET vNodes, NEW busy,
         DisconnectAndDelete(unused, busy)
  PROVE  IInv'
<1> DEFINE out   == Leaving(unused)
           after == [s \in Slots |-> IF s \in out THEN Disconnected(node[s])
                                                  ELSE node[s]]
           pool  == vNodesDisconnected \cup out
           dead  == {s \in pool : Unused(after[s]) /\ LocksFree(s, busy)}
<1>1. out \in SUBSET vNodes /\ pool \in SUBSET Slots /\ dead \in SUBSET pool
  BY DEF Leaving, IInv, Typed
<1>2. /\ node' = [s \in Slots |-> IF s \in dead THEN Free ELSE after[s]]
      /\ vNodes' = vNodes \ out
      /\ vNodesDisconnected' = pool \ dead
      /\ sock' = [sock EXCEPT !.pc = "accept"]
      /\ sock.pc = "disconnect"
      /\ UNCHANGED <<opener, msg>>
  BY DEF DisconnectAndDelete
<1>3. ASSUME NEW s \in Slots
      PROVE  /\ after[s] \in NodeRecords
             /\ after[s].alive = node[s].alive /\ after[s].taken = node[s].taken
             /\ s \notin out => after[s] = node[s]
             /\ s \in out =>
                  \/ /\ after[s].owned = node[s].owned
                     /\ after[s].nRefCount = node[s].nRefCount
                  \/ /\ after[s].owned = FALSE
                     /\ after[s].nRefCount = node[s].nRefCount - 1
  <2>1. node[s] \in NodeRecords
    BY DEF IInv, Typed
  <2>2. CASE s \in out
    BY <2>1, <2>2, DisconnectedRecord
  <2>3. CASE s \notin out
    BY <2>1, <2>3
  <2> QED BY <2>2, <2>3
<1> DEFINE others(s) == Grants(s \in sock.copy) + Grants(s \in msg.copy)
\* After the disconnection the counts are still exact.
<1>4. ASSUME NEW s \in Slots, node[s].alive
      PROVE  /\ after[s].nRefCount >= Grants(after[s].owned) + others(s)
             /\ after[s].taken = 0 =>
                  after[s].nRefCount = Grants(after[s].owned) + others(s)
  <2>1. /\ node[s].nRefCount \in Int /\ node[s].owned \in BOOLEAN
        /\ s \in vNodes => node[s].owned
    BY DEF IInv, Typed, NodeRecords, Owned
  <2>2. /\ node[s].nRefCount >= Grants(node[s].owned) + others(s)
        /\ node[s].taken = 0 =>
             node[s].nRefCount = Grants(node[s].owned) + others(s)
    BY <1>4 DEF IInv, RefsExact, Users, Grants
  <2>3. others(s) \in Nat
    BY DEF Grants
  <2> HIDE DEF others, after, out
  <2>4. CASE s \notin out
    BY <1>3, <2>2, <2>4
  <2>5. CASE s \in out /\ after[s].owned = node[s].owned
             /\ after[s].nRefCount = node[s].nRefCount
    BY <1>3, <2>2, <2>5
  <2>6. CASE s \in out /\ after[s].owned = FALSE
             /\ after[s].nRefCount = node[s].nRefCount - 1
    <3>1. node[s].owned = TRUE
      BY <1>1, <2>1, <2>6
    <3>2. Grants(node[s].owned) = 1 /\ Grants(after[s].owned) = 0
      BY <2>6, <3>1 DEF Grants
    <3>3. after[s].taken = node[s].taken
      BY <1>3
    <3> QED BY <2>1, <2>2, <2>3, <2>6, <3>2, <3>3
  <2> QED BY <1>3, <2>4, <2>5, <2>6
\* So what is deleted is in no copy.
<1>5. \A s \in dead : s \notin sock.copy /\ s \notin msg.copy /\ s \notin vNodes \ out
  <2>1. ASSUME NEW s \in dead
        PROVE  s \notin sock.copy /\ s \notin msg.copy /\ s \notin vNodes \ out
    <3>1. s \in Slots /\ node[s].alive /\ after[s].nRefCount <= 0
      BY <1>1 DEF IInv, UsersHoldLive, Unused
    <3>2. after[s].nRefCount >= Grants(after[s].owned) + others(s)
      BY <1>4, <3>1
    <3>3. after[s].nRefCount \in Int
      BY <1>3, <3>1 DEF NodeRecords
    <3>4. s \notin sock.copy /\ s \notin msg.copy
      BY <3>1, <3>2, <3>3 DEF Grants
    <3> QED BY <1>1, <3>4 DEF IInv, UsersHoldLive
  <2> QED BY <2>1
<1> HIDE DEF after, out, pool, dead, others
<1>6. node' \in [Slots -> NodeRecords]
  BY <1>2, <1>3, FreeRecord
<1>7. Typed'
  BY <1>1, <1>2, <1>6 DEF IInv, Typed
<1>8. Copies' /\ Pointers' /\ sock'.copy = sock.copy
  BY <1>2 DEF IInv, Typed, Copies, Pointers
<1>9. \A s \in Slots \ dead : node'[s] = after[s]
  BY <1>2
<1>10. \A s \in dead : ~node'[s].alive
  BY <1>1, <1>2, FreeRecord
<1>11. Owned'
  BY <1>1, <1>2, <1>3, <1>5, <1>9 DEF IInv, Typed, Owned
<1>12. UsersHoldLive'
  <2>1. \A s \in vNodes' \cup vNodesDisconnected' \cup sock'.copy \cup msg'.copy :
          s \in Slots \ dead /\ node[s].alive
    BY <1>1, <1>2, <1>5, <1>8 DEF IInv, Typed, UsersHoldLive, pool
  <2>2. vNodes' \cap vNodesDisconnected' = {}
    BY <1>2 DEF IInv, UsersHoldLive, pool
  <2> QED BY <1>3, <1>9, <2>1, <2>2 DEF UsersHoldLive
<1>13. RefsExact'
  <2>1. ASSUME NEW s \in Slots, node'[s].alive
        PROVE  /\ node'[s].nRefCount >= Users(s)'
               /\ node'[s].taken = 0 => node'[s].nRefCount = Users(s)'
    <3>1. s \notin dead /\ node'[s] = after[s] /\ node[s].alive
      BY <1>3, <1>9, <1>10, <2>1
    <3>2. Users(s)' = Grants(after[s].owned) + Grants(s \in sock.copy)
                        + Grants(s \in msg.copy)
      BY <1>2, <1>8, <3>1 DEF Users, Grants
    <3> QED BY <1>4, <3>1, <3>2 DEF others, Grants
  <2> QED BY <2>1 DEF RefsExact
<1> QED BY <1>7, <1>8, <1>11, <1>12, <1>13 DEF IInv

----------------------------------------------------------------------------
\* IInv is inductive: one case for each action.
LEMMA NextIInv == IInv /\ [Next]_nodeVars => IInv'
<1> SUFFICES ASSUME IInv, [Next]_nodeVars PROVE IInv'
  OBVIOUS
<1>1. ASSUME NEW o \in Openers, NEW peer \in Peers, Opening(o, peer)
      PROVE  IInv'
  BY <1>1, OpensIInv
<1>2. ASSUME NEW o \in Openers, OpenerOther(o)
      PROVE  IInv'
  <2>1. CASE NotWanted(o) \/ DialFails(o)
    BY <2>1, GiveUpIInv DEF NotWanted, DialFails
  <2>2. CASE NotConnected(o)
    BY <2>2, GoToIInv DEF NotConnected
  <2>3. CASE LookAgain(o)
    BY <2>3, LookAgainIInv
  <2>4. CASE AddRefFound(o)
    BY <2>4, AddRefFoundIInv
  <2>5. CASE MoveGrant(o)
    BY <2>5, MoveGrantIInv
  <2>6. CASE MarkNetworkNode(o)
    BY <2>6, MarkNetworkNodeIInv
  <2> QED BY <1>2, <2>1, <2>2, <2>3, <2>4, <2>5, <2>6 DEF OpenerOther
<1>3. ASSUME NEW o \in Openers, NEW s \in Slots, AddNode(o, s)
      PROVE  IInv'
  BY <1>3, AddNodeIInv
<1>4. ASSUME NEW unused \in SUBSET vNodes, NEW busy,
             DisconnectAndDelete(unused, busy)
      PROVE  IInv'
  BY <1>4, DisconnectAndDeleteIInv
<1>5. CASE SockCopy \/ SockRelease \/ MsgStep
  BY <1>5, SockCopyIInv, SockReleaseIInv, MsgCopyIInv, MsgReleaseIInv DEF MsgStep
<1>6. ASSUME NEW s \in Slots,
             ServeClose(s) \/ ServeTimeout(s) \/ PollDisconnect(s) \/ PollClose(s)
      PROVE  IInv'
  <2>1. /\ SameLists /\ UNCHANGED opener
        /\ \/ node' = [node EXCEPT ![s].fDisconnect = TRUE]
           \/ node' = [node EXCEPT ![s] = Closed(@)]
    BY <1>6 DEF SameLists, ServeClose, ServeTimeout, PollDisconnect, PollClose
  <2> QED BY <2>1, DisconnectIInv
<1>7. ASSUME NEW s \in Slots, NEW peer \in Peers, AcceptNode(s, peer)
      PROVE  IInv'
  BY <1>7, AcceptNodeIInv
<1>8. CASE UNCHANGED nodeVars
  <2>1. SameLists /\ OpenersOK /\ UNCHANGED node
    BY <1>8 DEF nodeVars, SameLists, OpenersOK, IInv, Typed, Pointers
  <2> QED BY <2>1, OpenerOnly
<1> QED BY <1>1, <1>2, <1>3, <1>4, <1>5, <1>6, <1>7, <1>8
        DEF Next, OpenerStep, SockStep

\* Every behaviour of the threads keeps IInv.
LEMMA AlwaysIInv == Spec => []IInv
  BY InitIInv, NextIInv, PTL DEF Spec

\* A node that ThreadSocketHandler has deleted is in neither list and in no
\* handler's copy of vNodes, for any number of nodes, peers and threads.
THEOREM NodesInUseLive == Spec => []UsersHoldLive
<1>1. IInv => UsersHoldLive
  BY DEF IInv
<1> QED BY <1>1, AlwaysIInv, PTL

\* A node's count is the number of its users, and at least that many when
\* ConnectNode has found it again, whose AddRef() may race with another.
THEOREM NodeRefsExact == Spec => []RefsExact
<1>1. IInv => RefsExact
  BY DEF IInv
<1> QED BY <1>1, AlwaysIInv, PTL

----------------------------------------------------------------------------
(* The outbound slots.  SlotsConserved counts two sets: a step that moves  *)
(* a grant moves one element.  It needs that a thread which ends without   *)
(* releasing a grant has none (GrantsMoved).                               *)

OpenersWithGrant == {o \in Openers : opener[o].grant}
NodesWithGrant == {s \in Slots : node[s].alive /\ node[s].grantOutbound}

GrantsMoved ==
  \A o \in Openers :
    opener[o].pc \in {"idle", "onetry", "network"} => ~opener[o].grant

SlotInv ==
  /\ semOutbound \in Nat
  /\ GrantsMoved
  /\ SlotsConserved

\* Both sets are finite, so that their sizes are numbers.
LEMMA GrantSetsFinite ==
  /\ IsFiniteSet(OpenersWithGrant) /\ Cardinality(OpenersWithGrant) \in Nat
  /\ IsFiniteSet(NodesWithGrant) /\ Cardinality(NodesWithGrant) \in Nat
<1>1. /\ OpenersWithGrant \in SUBSET Openers /\ IsFiniteSet(Openers)
      /\ NodesWithGrant \in SUBSET Slots /\ IsFiniteSet(Slots)
  BY NodesAssumption DEF OpenersWithGrant, NodesWithGrant, NodesAssumption
<1>2. IsFiniteSet(OpenersWithGrant) /\ IsFiniteSet(NodesWithGrant)
  BY <1>1, FS_Subset
<1> QED BY <1>2, FS_CardinalityType

\* One element more or less.
LEMMA CountOne ==
  ASSUME NEW S, IsFiniteSet(S), NEW x
  PROVE  /\ Cardinality(S) \in Nat
         /\ Cardinality(S \cup {x}) = Cardinality(S) + Grants(x \notin S)
         /\ Cardinality(S \ {x}) = Cardinality(S) - Grants(x \in S)
<1>1. Cardinality(S) \in Nat
  BY FS_CardinalityType
<1>2. Cardinality(S \cup {x}) = IF x \in S THEN Cardinality(S) ELSE Cardinality(S) + 1
  BY FS_AddElement
<1>3. Cardinality(S \ {x}) = IF x \in S THEN Cardinality(S) - 1 ELSE Cardinality(S)
  BY FS_RemoveElement
<1> QED BY <1>1, <1>2, <1>3 DEF Grants

\* SlotsConserved in terms of the two sets.
LEMMA SlotsCounted ==
  SlotsConserved <=>
    semOutbound + Cardinality(OpenersWithGrant) + Cardinality(NodesWithGrant) = MaxOutbound
  BY DEF SlotsConserved, OpenersWithGrant, NodesWithGrant

\* At the start every slot is free.
LEMMA InitSlotInv == Init => SlotInv
<1> SUFFICES ASSUME Init PROVE SlotInv
  OBVIOUS
<1>1. OpenersWithGrant = {} /\ NodesWithGrant = {}
  BY DEF Init, OpenersWithGrant, NodesWithGrant, Idle, Free
<1>2. semOutbound \in Nat /\ semOutbound = MaxOutbound
  BY NodesAssumption DEF Init, NodesAssumption
<1>3. GrantsMoved
  BY DEF Init, GrantsMoved, Idle
<1> QED BY <1>1, <1>2, <1>3, SlotsCounted, FS_EmptySet DEF SlotInv

\* A step in which no grant moves.
LEMMA NoGrantMoves ==
  ASSUME SlotInv, UNCHANGED semOutbound, GrantsMoved',
         \A o \in Openers : opener'[o].grant = opener[o].grant,
         \A s \in Slots : (node'[s].alive /\ node'[s].grantOutbound)
                          <=> (node[s].alive /\ node[s].grantOutbound)
  PROVE  SlotInv'
<1>1. OpenersWithGrant' = OpenersWithGrant
  BY DEF OpenersWithGrant
<1>2. NodesWithGrant' = NodesWithGrant
  BY DEF NodesWithGrant
<1>3. SlotsConserved'
  BY <1>1, <1>2 DEF SlotInv, SlotsConserved, OpenersWithGrant, NodesWithGrant
<1> QED BY <1>3 DEF SlotInv

\* A thread takes a slot, or none, and holds it.
LEMMA OpensSlotInv ==
  ASSUME IInv, SlotInv, NEW o \in Openers, NEW peer \in Peers, Opening(o, peer)
  PROVE  SlotInv'
<1>1. PICK pc \in {"open", "dial", "onetry"}, grant \in BOOLEAN :
        Opens(o, pc, peer, grant) /\ (pc = "onetry" => ~grant)
  BY DEF Opening, Acquire, ByName, OneTry
<1>2. /\ opener[o].pc = "idle" /\ ~opener[o].grant
      /\ semOutbound' = semOutbound - Grants(grant) /\ (grant => semOutbound >= 1)
      /\ opener'[o].grant = grant /\ opener'[o].pc = pc
      /\ \A q \in Openers \ {o} : opener'[q] = opener[q]
      /\ UNCHANGED node
  BY <1>1 DEF Opens, At, IInv, Typed, SlotInv, GrantsMoved
<1>3. GrantsMoved'
  BY <1>1, <1>2 DEF SlotInv, GrantsMoved
<1>4. NodesWithGrant' = NodesWithGrant
  BY <1>2 DEF NodesWithGrant
<1>5. OpenersWithGrant' = IF grant THEN OpenersWithGrant \cup {o} ELSE OpenersWithGrant
  BY <1>2 DEF OpenersWithGrant
<1>6. Cardinality(OpenersWithGrant') = Cardinality(OpenersWithGrant) + Grants(grant)
  <2>1. o \notin OpenersWithGrant
    BY <1>2 DEF OpenersWithGrant
  <2> QED BY <1>5, <2>1, GrantSetsFinite, CountOne DEF Grants
<1>7. semOutbound' \in Nat
  BY <1>2 DEF SlotInv, Grants
<1>8. semOutbound' + Cardinality(OpenersWithGrant') + Cardinality(NodesWithGrant') = MaxOutbound
  <2>1. semOutbound + Cardinality(OpenersWithGrant) + Cardinality(NodesWithGrant) = MaxOutbound
    BY SlotsCounted DEF SlotInv
  <2>2. Grants(grant) \in Nat /\ semOutbound \in Nat
    BY DEF Grants, SlotInv
  <2> QED BY <1>2, <1>4, <1>6, <2>1, <2>2, GrantSetsFinite
<1> QED BY <1>3, <1>7, <1>8 DEF SlotInv, SlotsConserved, OpenersWithGrant, NodesWithGrant

\* A thread gives up, and its slot is free again.
LEMMA GiveUpSlotInv ==
  ASSUME IInv, SlotInv, NEW o \in Openers, GiveUp(o)
  PROVE  SlotInv'
<1>1. /\ semOutbound' = semOutbound + Grants(opener[o].grant)
      /\ opener'[o] = Idle
      /\ \A q \in Openers \ {o} : opener'[q] = opener[q]
      /\ UNCHANGED node
  BY DEF GiveUp, IInv, Typed
<1>2. GrantsMoved'
  BY <1>1 DEF SlotInv, GrantsMoved, Idle
<1>3. NodesWithGrant' = NodesWithGrant
  BY <1>1 DEF NodesWithGrant
<1>4. OpenersWithGrant' = OpenersWithGrant \ {o}
  BY <1>1 DEF OpenersWithGrant, Idle
<1>5. Cardinality(OpenersWithGrant') = Cardinality(OpenersWithGrant) - Grants(opener[o].grant)
  <2>1. o \in OpenersWithGrant <=> opener[o].grant
    BY DEF OpenersWithGrant
  <2> QED BY <1>4, <2>1, GrantSetsFinite, CountOne DEF Grants
<1>6. semOutbound' \in Nat
  BY <1>1 DEF SlotInv, Grants
<1>7. semOutbound' + Cardinality(OpenersWithGrant') + Cardinality(NodesWithGrant') = MaxOutbound
  <2>1. semOutbound + Cardinality(OpenersWithGrant) + Cardinality(NodesWithGrant) = MaxOutbound
    BY SlotsCounted DEF SlotInv
  <2>2. Grants(opener[o].grant) \in Nat /\ semOutbound \in Nat
    BY DEF Grants, SlotInv
  <2> QED BY <1>1, <1>3, <1>5, <2>1, <2>2, GrantSetsFinite
<1> QED BY <1>2, <1>6, <1>7 DEF SlotInv, SlotsConserved, OpenersWithGrant, NodesWithGrant

\* MoveTo hands the slot to the node; one the node had is released.
LEMMA MoveGrantSlotInv ==
  ASSUME IInv, SlotInv, NEW o \in Openers, MoveGrant(o)
  PROVE  SlotInv'
<1> DEFINE s == opener[o].pnode
           g == opener[o].grant
           d == node[s].grantOutbound
<1>1. s \in Slots /\ opener[o] \in OpenerRecords /\ node[s] \in NodeRecords /\ node[s].alive
  BY DEF MoveGrant, At, IInv, Typed, Pointers
<1>2. /\ node'[s].alive /\ node'[s].grantOutbound = g
      /\ \A t \in Slots \ {s} : node'[t] = node[t]
  BY <1>1 DEF MoveGrant, IInv, Typed, NodeRecords
<1>3. /\ ~opener'[o].grant
      /\ \A q \in Openers \ {o} : opener'[q] = opener[q]
  BY <1>1 DEF MoveGrant, IInv, Typed, OpenerRecords
<1>4. semOutbound' = semOutbound + Grants(d)
  BY DEF MoveGrant
<1>5. g \in BOOLEAN /\ d \in BOOLEAN
  BY <1>1 DEF OpenerRecords, NodeRecords
<1> HIDE DEF s
<1>6. GrantsMoved'
  BY <1>3 DEF SlotInv, GrantsMoved
<1>7. OpenersWithGrant' = OpenersWithGrant \ {o} /\ (o \in OpenersWithGrant <=> g)
  BY <1>3 DEF OpenersWithGrant
<1>8. /\ NodesWithGrant' = IF g THEN NodesWithGrant \cup {s} ELSE NodesWithGrant \ {s}
      /\ s \in NodesWithGrant <=> d
  BY <1>1, <1>2 DEF NodesWithGrant
<1> HIDE DEF g, d
<1>9. Cardinality(OpenersWithGrant') = Cardinality(OpenersWithGrant) - Grants(g)
  BY <1>7, GrantSetsFinite, CountOne DEF Grants
<1>10. Cardinality(NodesWithGrant') = Cardinality(NodesWithGrant) + Grants(g) - Grants(d)
  <2>1. CASE g
    <3>1. Cardinality(NodesWithGrant') = Cardinality(NodesWithGrant) + Grants(s \notin NodesWithGrant)
      BY <1>8, <2>1, GrantSetsFinite, CountOne
    <3>2. Grants(s \notin NodesWithGrant) = Grants(g) - Grants(d)
      BY <1>8, <2>1 DEF Grants
    <3>3. Grants(g) \in Int /\ Grants(d) \in Int
      BY DEF Grants
    <3> QED BY <3>1, <3>2, <3>3, GrantSetsFinite
  <2>2. CASE ~g
    <3>1. Cardinality(NodesWithGrant') = Cardinality(NodesWithGrant) - Grants(s \in NodesWithGrant)
      BY <1>8, <2>2, GrantSetsFinite, CountOne
    <3>2. Grants(s \in NodesWithGrant) = Grants(d) /\ Grants(g) = 0
      BY <1>8, <2>2 DEF Grants
    <3>3. Grants(d) \in Int
      BY DEF Grants
    <3> QED BY <3>1, <3>2, <3>3, GrantSetsFinite
  <2> QED BY <2>1, <2>2
<1>11. Grants(g) \in Nat /\ Grants(d) \in Nat /\ semOutbound \in Nat
  BY DEF Grants, SlotInv
<1>12. semOutbound' \in Nat
  BY <1>4, <1>11
<1>13. semOutbound' + Cardinality(OpenersWithGrant') + Cardinality(NodesWithGrant') = MaxOutbound
  <2>1. semOutbound + Cardinality(OpenersWithGrant) + Cardinality(NodesWithGrant) = MaxOutbound
    BY SlotsCounted DEF SlotInv
  <2> QED BY <1>4, <1>9, <1>10, <1>11, <2>1, GrantSetsFinite
<1> QED BY <1>6, <1>12, <1>13 DEF SlotInv, SlotsConserved, OpenersWithGrant, NodesWithGrant

\* What a disconnected and what a deleted node hold.
LEMMA DisconnectedGrant ==
  ASSUME NEW r \in NodeRecords
  PROVE  ~Disconnected(r).grantOutbound
  BY DEF Disconnected, Closed, NodeRecords

\* The slots of the nodes that are disconnected or deleted are free again:
\* each node's slot is counted once, in one of the two sums.
LEMMA DisconnectSlotInv ==
  ASSUME IInv, SlotInv, NEW unused \in SUBSET vNodes, NEW busy,
         DisconnectAndDelete(unused, busy)
  PROVE  SlotInv'
<1> DEFINE out   == Leaving(unused)
           after == [s \in Slots |-> IF s \in out THEN Disconnected(node[s])
                                                  ELSE node[s]]
           pool  == vNodesDisconnected \cup out
           dead  == {s \in pool : Unused(after[s]) /\ LocksFree(s, busy)}
           A     == {s \in out : node[s].grantOutbound}
           B     == {s \in dead : after[s].grantOutbound}
<1>1. /\ node' = [s \in Slots |-> IF s \in dead THEN Free ELSE after[s]]
      /\ semOutbound' = semOutbound + Cardinality(A) + Cardinality(B)
      /\ UNCHANGED opener
  BY DEF DisconnectAndDelete
<1>2. /\ out \subseteq Slots /\ dead \subseteq Slots
      /\ \A s \in out \cup dead : node[s].alive
  BY DEF Leaving, IInv, Typed, UsersHoldLive
<1>3. \A s \in Slots : IF s \in out THEN after[s] = Disconnected(node[s])
                                   ELSE after[s] = node[s]
  OBVIOUS
<1>4. \A s \in Slots : node[s] \in NodeRecords
  BY DEF IInv, Typed
<1> HIDE DEF after, out, dead
<1>5. \A s \in out : ~after[s].grantOutbound /\ after[s].alive
  BY <1>2, <1>3, <1>4, DisconnectedGrant, DisconnectedRecord
<1>6. A \subseteq NodesWithGrant /\ B \subseteq NodesWithGrant /\ A \cap B = {}
  BY <1>2, <1>3, <1>5 DEF NodesWithGrant
<1>7. NodesWithGrant' = (NodesWithGrant \ A) \ B
  <2>1. ASSUME NEW s \in Slots
        PROVE  s \in NodesWithGrant' <=> s \in (NodesWithGrant \ A) \ B
    <3>1. CASE s \in dead
      <4>1. ~node'[s].alive
        BY <1>1, <3>1, FreeRecord
      <4> QED BY <1>2, <1>3, <1>5, <3>1, <4>1 DEF NodesWithGrant
    <3>2. CASE s \notin dead /\ s \in out
      <4>1. node'[s] = after[s]
        BY <1>1, <3>2
      <4> QED BY <1>2, <1>5, <3>2, <4>1 DEF NodesWithGrant
    <3>3. CASE s \notin dead /\ s \notin out
      <4>1. node'[s] = node[s]
        BY <1>1, <1>3, <3>3
      <4> QED BY <3>3, <4>1 DEF NodesWithGrant
    <3> QED BY <3>1, <3>2, <3>3
  <2>2. NodesWithGrant' \subseteq Slots /\ NodesWithGrant \subseteq Slots
    BY DEF NodesWithGrant
  <2> QED BY <2>1, <2>2
<1> HIDE DEF A, B
<1>8. /\ IsFiniteSet(A) /\ Cardinality(A) \in Nat
      /\ IsFiniteSet(B) /\ Cardinality(B) \in Nat
  BY <1>6, GrantSetsFinite, FS_Subset, FS_CardinalityType
<1>9. Cardinality(NodesWithGrant') = Cardinality(NodesWithGrant) - Cardinality(A) - Cardinality(B)
  <2>1. /\ IsFiniteSet(NodesWithGrant \ A)
        /\ Cardinality(NodesWithGrant \ A) = Cardinality(NodesWithGrant) - Cardinality(A)
    <3>1. NodesWithGrant \cap A = A
      BY <1>6
    <3> QED BY <3>1, GrantSetsFinite, FS_Difference
  <2>2. Cardinality((NodesWithGrant \ A) \ B) = Cardinality(NodesWithGrant \ A) - Cardinality(B)
    <3>1. (NodesWithGrant \ A) \cap B = B
      BY <1>6
    <3>2. Cardinality((NodesWithGrant \ A) \ B)
            = Cardinality(NodesWithGrant \ A) - Cardinality((NodesWithGrant \ A) \cap B)
      BY <2>1, FS_Difference
    <3> QED BY <3>1, <3>2
  <2> QED BY <1>7, <2>1, <2>2
<1>10. OpenersWithGrant' = OpenersWithGrant /\ GrantsMoved'
  BY <1>1 DEF OpenersWithGrant, SlotInv, GrantsMoved
<1>11. semOutbound \in Nat /\ semOutbound' \in Nat
  BY <1>1, <1>8 DEF SlotInv
<1>12. semOutbound' + Cardinality(OpenersWithGrant') + Cardinality(NodesWithGrant') = MaxOutbound
  <2>1. semOutbound + Cardinality(OpenersWithGrant) + Cardinality(NodesWithGrant) = MaxOutbound
    BY SlotsCounted DEF SlotInv
  <2> QED BY <1>1, <1>8, <1>9, <1>10, <1>11, <2>1, GrantSetsFinite
<1> QED BY <1>10, <1>11, <1>12 DEF SlotInv, SlotsConserved, OpenersWithGrant, NodesWithGrant

\* The steps of an opening thread that move no grant.
LEMMA OpenerSlotInv ==
  ASSUME IInv, SlotInv, NEW o \in Openers,
         \/ NotConnected(o) \/ LookAgain(o) \/ AddRefFound(o) \/ MarkNetworkNode(o)
  PROVE  SlotInv'
<1>1. opener[o] \in OpenerRecords /\ UNCHANGED semOutbound
  BY DEF IInv, Typed, NotConnected, LookAgain, AddRefFound, MarkNetworkNode, GoTo
<1>2. /\ \A q \in Openers \ {o} : opener'[q] = opener[q]
      /\ opener'[o].grant = opener[o].grant
      /\ opener'[o].pc \in {"idle", "connect", "dial", "found", "grant"}
      /\ opener'[o].pc = "idle" => ~opener[o].grant
  <2>1. CASE NotConnected(o) \/ LookAgain(o)
    <3>1. PICK pc \in {"connect", "dial", "found"} : \E p :
            opener' = [opener EXCEPT ![o] = [@ EXCEPT !.pc = pc, !.pnode = p]]
      <4>1. CASE \E pc \in {"connect", "dial"} : GoTo(o, pc)
        <5>1. PICK pc \in {"connect", "dial"} : opener' = [opener EXCEPT ![o].pc = pc]
          BY <4>1 DEF GoTo
        <5>2. [opener[o] EXCEPT !.pc = pc]
                = [opener[o] EXCEPT !.pc = pc, !.pnode = opener[o].pnode]
          BY <1>1 DEF OpenerRecords
        <5> QED BY <5>1, <5>2
      <4>2. CASE \E s : opener' = [opener EXCEPT ![o] =
                                       [@ EXCEPT !.pc = "found", !.pnode = s]]
        BY <4>2
      <4> QED BY <2>1, <4>1, <4>2 DEF NotConnected, LookAgain
    <3> QED BY <1>1, <3>1 DEF IInv, Typed, OpenerRecords
  <2>2. CASE AddRefFound(o)
    BY <1>1, <2>2 DEF IInv, Typed, OpenerRecords, AddRefFound
  <2>3. CASE MarkNetworkNode(o)
    BY <1>1, <2>3 DEF IInv, Typed, MarkNetworkNode, Idle, At, SlotInv, GrantsMoved, OpenerRecords
  <2> QED BY <2>1, <2>2, <2>3
<1>3. GrantsMoved'
  BY <1>2 DEF SlotInv, GrantsMoved
<1>4. \A s \in Slots : /\ node'[s].alive = node[s].alive
                       /\ node'[s].grantOutbound = node[s].grantOutbound
  <2>1. CASE UNCHANGED node
    BY <2>1
  <2>2. CASE AddRefFound(o)
    <3> DEFINE s == opener[o].pnode
    <3>1. s \in Slots /\ node[s] \in NodeRecords
      BY <2>2 DEF AddRefFound, At, IInv, Typed, Pointers
    <3> QED BY <2>2, <3>1 DEF AddRefFound, IInv, Typed, NodeRecords
  <2>3. CASE MarkNetworkNode(o)
    <3> DEFINE s == opener[o].pnode
    <3>1. s \in Slots /\ node[s] \in NodeRecords
      BY <2>3 DEF MarkNetworkNode, At, IInv, Typed, Pointers
    <3> QED BY <2>3, <3>1 DEF MarkNetworkNode, IInv, Typed, NodeRecords
  <2> QED BY <2>1, <2>2, <2>3 DEF NotConnected, LookAgain, GoTo
<1> QED BY <1>1, <1>2, <1>3, <1>4, NoGrantMoves

\* A new node has no grant; the one of ConnectNode gets its grant later.
LEMMA EnterSlotInv ==
  ASSUME IInv, SlotInv, NEW s \in Slots, ~node[s].alive,
         NEW peer, NEW inbound, node' = [node EXCEPT ![s] = NewNode(peer, inbound)],
         UNCHANGED semOutbound, GrantsMoved',
         \A o \in Openers : opener'[o].grant = opener[o].grant
  PROVE  SlotInv'
<1>1. \A t \in Slots : (node'[t].alive /\ node'[t].grantOutbound)
                        <=> (node[t].alive /\ node[t].grantOutbound)
  BY DEF IInv, Typed, NewNode
<1> QED BY <1>1, NoGrantMoves

\* ConnectNode enters a node: "onetry" ends here, and has no grant.
LEMMA AddNodeSlotInv ==
  ASSUME IInv, SlotInv, NEW o \in Openers, NEW s \in Slots, AddNode(o, s)
  PROVE  SlotInv'
<1>1. opener[o] \in OpenerRecords
  BY DEF IInv, Typed
<1>2. /\ \A q \in Openers \ {o} : opener'[q] = opener[q]
      /\ opener'[o].grant = opener[o].grant
      /\ opener'[o].pc \in {"idle", "grant"}
      /\ opener'[o].pc = "idle" => ~opener[o].grant
  BY <1>1 DEF AddNode, At, Idle, IInv, Typed, OpenerRecords, SlotInv, GrantsMoved
<1>3. GrantsMoved'
  BY <1>2 DEF SlotInv, GrantsMoved
<1> QED BY <1>2, <1>3, EnterSlotInv DEF AddNode

\* The handlers' steps on reference counts, flags and sockets.
LEMMA HandlerSlotInv ==
  ASSUME IInv, SlotInv,
         \/ SockCopy \/ SockRelease \/ MsgStep
         \/ \E s \in Slots : \/ ServeClose(s) \/ ServeTimeout(s)
                            \/ PollDisconnect(s) \/ PollClose(s)
  PROVE  SlotInv'
<1>1. UNCHANGED <<opener, semOutbound>>
  BY DEF SockCopy, SockRelease, MsgStep, MsgCopy, MsgRelease, ServeClose,
     ServeTimeout, PollDisconnect, PollClose
<1>2. GrantsMoved'
  BY <1>1 DEF SlotInv, GrantsMoved
<1>3. \A t \in Slots : /\ node'[t].alive = node[t].alive
                       /\ node'[t].grantOutbound = node[t].grantOutbound
  <2>1. node \in [Slots -> NodeRecords]
    BY DEF IInv, Typed
  <2>2. CASE \E S : node' = AddRefs(node, S) \/ node' = Releases(node, S)
    BY <2>1, <2>2 DEF AddRefs, Releases, NodeRecords
  <2>3. CASE \E s \in Slots : \/ node' = [node EXCEPT ![s].fDisconnect = TRUE]
                             \/ node' = [node EXCEPT ![s] = Closed(@)]
    <3>1. PICK s \in Slots : \/ node' = [node EXCEPT ![s].fDisconnect = TRUE]
                             \/ node' = [node EXCEPT ![s] = Closed(@)]
      BY <2>3
    <3>2. node[s] \in NodeRecords
      BY <2>1
    <3>3. CASE node' = [node EXCEPT ![s].fDisconnect = TRUE]
      BY <2>1, <3>2, <3>3 DEF NodeRecords
    <3>4. CASE node' = [node EXCEPT ![s] = Closed(@)]
      <4>1. /\ Closed(node[s]).alive = node[s].alive
            /\ Closed(node[s]).grantOutbound = node[s].grantOutbound
        BY <3>2 DEF Closed, NodeRecords
      <4> QED BY <2>1, <3>4, <4>1
    <3> QED BY <3>1, <3>3, <3>4
  <2> QED BY <2>2, <2>3 DEF SockCopy, SockRelease, MsgStep, MsgCopy, MsgRelease,
             ServeClose, ServeTimeout, PollDisconnect, PollClose
<1> QED BY <1>1, <1>2, <1>3, NoGrantMoves

\* SlotInv is inductive relative to IInv.
LEMMA NextSlotInv == IInv /\ SlotInv /\ [Next]_nodeVars => SlotInv'
<1> SUFFICES ASSUME IInv, SlotInv, [Next]_nodeVars PROVE SlotInv'
  OBVIOUS
<1>1. ASSUME NEW o \in Openers, NEW peer \in Peers, Opening(o, peer)
      PROVE  SlotInv'
  BY <1>1, OpensSlotInv
<1>2. ASSUME NEW o \in Openers, OpenerOther(o)
      PROVE  SlotInv'
  <2>1. CASE NotWanted(o) \/ DialFails(o)
    BY <2>1, GiveUpSlotInv DEF NotWanted, DialFails
  <2>2. CASE MoveGrant(o)
    BY <2>2, MoveGrantSlotInv
  <2> QED BY <1>2, <2>1, <2>2, OpenerSlotInv DEF OpenerOther
<1>3. ASSUME NEW o \in Openers, NEW s \in Slots, AddNode(o, s)
      PROVE  SlotInv'
  BY <1>3, AddNodeSlotInv
<1>4. ASSUME NEW unused \in SUBSET vNodes, NEW busy,
             DisconnectAndDelete(unused, busy)
      PROVE  SlotInv'
  BY <1>4, DisconnectSlotInv
<1>5. CASE \/ SockCopy \/ SockRelease \/ MsgStep
           \/ \E s \in Slots : \/ ServeClose(s) \/ ServeTimeout(s)
                              \/ PollDisconnect(s) \/ PollClose(s)
  BY <1>5, HandlerSlotInv
<1>6. ASSUME NEW s \in Slots, NEW peer \in Peers, AcceptNode(s, peer)
      PROVE  SlotInv'
  <2>1. GrantsMoved'
    BY <1>6 DEF AcceptNode, SlotInv, GrantsMoved
  <2> QED BY <1>6, <2>1, EnterSlotInv DEF AcceptNode
<1>7. CASE UNCHANGED nodeVars
  BY <1>7 DEF nodeVars, SlotInv, GrantsMoved, SlotsConserved
<1> QED BY <1>1, <1>2, <1>3, <1>4, <1>5, <1>6, <1>7
        DEF Next, OpenerStep, SockStep

\* Both invariants hold of every behaviour.
LEMMA AlwaysSlotInv == Spec => [](IInv /\ SlotInv)
  BY InitIInv, NextIInv, InitSlotInv, NextSlotInv, PTL DEF Spec

\* No outbound slot is lost or doubled, whichever of MoveTo, a failed dial, a
\* disconnection and a deletion releases it, in any order.
THEOREM OutboundSlotsConserved == Spec => []SlotsConserved
<1>1. SlotInv => SlotsConserved
  BY DEF SlotInv
<1> QED BY <1>1, AlwaysSlotInv, PTL

\* The state has the types of the code's fields; in particular semOutbound
\* stays between zero and its initial value.
THEOREM NodesTypeCorrect == Spec => []TypeOK
<1>1. IInv /\ SlotInv => TypeOK
  <2> SUFFICES ASSUME IInv, SlotInv PROVE TypeOK
    OBVIOUS
  <2>1. semOutbound \in 0..MaxOutbound
    <3>1. semOutbound + Cardinality(OpenersWithGrant) + Cardinality(NodesWithGrant) = MaxOutbound
      BY SlotsCounted DEF SlotInv
    <3> QED BY <3>1, GrantSetsFinite DEF SlotInv
  <2> QED BY <2>1 DEF IInv, Typed, TypeOK, OpenerRecords
<1> QED BY <1>1, AlwaysSlotInv, PTL

----------------------------------------------------------------------------
(* SyncNode.                                                               *)

Flags == [Slots -> BOOLEAN]

SyncTyped ==
  /\ fSuccessfullyConnected \in Flags /\ fStartSync \in Flags
  /\ asked \in Flags /\ reborn \in Flags
  /\ pnodeSync \in Slots \cup {NULL}
  /\ starting \in [pc : {"no", "choose", "start"}, best : Slots \cup {NULL}]

\* StartSync runs between the copy of vNodes and its release.
ChosenInCopy ==
  /\ starting.pc # "no" => msg.pc = "poll"
  /\ starting.pc = "start" => starting.best \in msg.copy

SyncInv == SyncTyped /\ ChosenInCopy /\ SyncNodeAsked

\* The node that StartSync is about to write to has not been deleted.
StartSyncSafe == starting.pc = "start" => node[starting.best].alive

----------------------------------------------------------------------------
\* Each step of the download is a step of the nodes, or none.
LEMMA SyncStepIsNodeStep == [SyncNext]_allVars => [Next]_nodeVars
<1> SUFFICES ASSUME [SyncNext]_allVars PROVE Next \/ UNCHANGED nodeVars
  OBVIOUS
<1>1. CASE UNCHANGED allVars
  BY <1>1 DEF allVars, nodeVars
<1>2. CASE Defined /\ SyncDisconnect
  BY <1>2 DEF SyncDisconnect, Next, SockStep
<1>3. CASE Defined /\ SyncMsg
  BY <1>3 DEF SyncMsg, SyncCopy, ChooseSync, StartSync, SyncRelease, Next, MsgStep
<1>4. CASE Defined /\ Unnoticed
  BY <1>4 DEF Unnoticed, Next, SockStep, OpenerStep
<1>5. CASE /\ Defined
           /\ \E s \in Slots :
                \/ SyncClose(s) \/ Handshake(s) \/ AskForBlocks(s)
                \/ \E peer \in Peers : SyncAccept(s, peer)
                \/ \E o \in Openers : SyncAddNode(o, s)
  BY <1>5 DEF SyncClose, Handshake, AskForBlocks, SyncAccept, SyncAddNode, Next, OpenerStep
<1> QED BY <1>1, <1>2, <1>3, <1>4, <1>5 DEF SyncNext

\* SyncNode implements Nodes.
THEOREM SyncImplementsNodes == SyncSpec => Spec
<1>1. SyncInit => Init
  BY DEF SyncInit
<1> QED BY <1>1, SyncStepIsNodeStep, PTL DEF SyncSpec, Spec

----------------------------------------------------------------------------
\* No download at the start.
LEMMA InitSyncInv == SyncInit => SyncInv
  BY DEF SyncInit, Init, SyncInv, SyncTyped, ChosenInCopy, SyncNodeAsked, Flags,
     NotStarting, None

\* A new node has not been asked, and is reborn when pnodeSync holds its address.
LEMMA NewAtSyncInv ==
  ASSUME SyncInv, NEW s \in Slots, NewAt(s), vNodes' = vNodes \cup {s}, UNCHANGED msg
  PROVE  SyncInv'
<1>1. SyncTyped'
  BY DEF NewAt, SyncInv, SyncTyped, Flags
<1>2. ChosenInCopy'
  BY DEF NewAt, SyncInv, ChosenInCopy
<1>3. SyncNodeAsked'
  <2> SUFFICES ASSUME NEW t \in vNodes \cup {s}, t = pnodeSync, ~reborn'[t]
               PROVE  fStartSync'[t] \/ asked'[t]
    BY DEF NewAt, SyncNodeAsked
  <2>1. reborn'[s] = (pnodeSync = s)
    BY DEF NewAt, SyncInv, SyncTyped, Flags
  <2>2. t # s
    BY <2>1
  <2>3. fStartSync'[t] = fStartSync[t] /\ asked'[t] = asked[t] /\ reborn'[t] = reborn[t]
    BY <2>2 DEF NewAt, SyncInv, SyncTyped, Flags
  <2> QED BY <2>2, <2>3 DEF SyncInv, SyncNodeAsked
<1> QED BY <1>1, <1>2, <1>3 DEF SyncInv

\* pnodeSync stays or is cleared, and nothing else of the download changes.
LEMMA ClearSyncInv ==
  ASSUME SyncInv, vNodes' \subseteq vNodes, UNCHANGED <<msg, starting, perNode>>,
         pnodeSync' \in {pnodeSync, NULL}, vNodes \subseteq Slots
  PROVE  SyncInv'
<1>1. SyncTyped' /\ ChosenInCopy'
  BY DEF perNode, SyncInv, SyncTyped, ChosenInCopy
<1>2. NULL \notin Slots
  BY NodesAssumption DEF NodesAssumption
<1>3. SyncNodeAsked'
  BY <1>2 DEF perNode, SyncInv, SyncNodeAsked
<1> QED BY <1>1, <1>3 DEF SyncInv

\* One case for each action.
LEMMA NextSyncInv == IInv /\ SyncInv /\ [SyncNext]_allVars => SyncInv'
<1> SUFFICES ASSUME IInv, SyncInv, [SyncNext]_allVars PROVE SyncInv'
  OBVIOUS
<1>0. vNodes \in SUBSET Slots /\ msg.copy \in SUBSET Slots
  BY DEF IInv, Typed
<1>1. CASE SyncDisconnect
  BY <1>0, <1>1, ClearSyncInv DEF SyncDisconnect, DisconnectAndDelete, ClearSync
<1>2. ASSUME NEW s \in Slots, SyncClose(s) PROVE SyncInv'
  BY <1>0, <1>2, ClearSyncInv DEF SyncClose, ServeClose, PollClose, ClearSync
<1>3. CASE SyncCopy
  <2>1. /\ msg' = [pc |-> "poll", copy |-> vNodes] /\ starting'.pc \in {"no", "choose"}
        /\ starting' \in [pc : {"no", "choose", "start"}, best : Slots \cup {NULL}]
        /\ UNCHANGED <<vNodes, pnodeSync, perNode>>
    BY <1>3 DEF SyncCopy, MsgCopy, NotStarting
  <2> QED BY <2>1 DEF perNode, SyncInv, SyncTyped, ChosenInCopy, SyncNodeAsked
<1>4. CASE ChooseSync
  <2>1. /\ starting.pc = "choose"
        /\ \/ starting' = NotStarting
           \/ \E s \in msg.copy : starting' = [pc |-> "start", best |-> s]
        /\ UNCHANGED <<msg, vNodes, pnodeSync, perNode>>
    BY <1>4 DEF ChooseSync, SyncCandidates, nodeVars
  <2> QED BY <1>0, <2>1 DEF perNode, NotStarting, SyncInv, SyncTyped, ChosenInCopy, SyncNodeAsked
<1>5. CASE StartSync
  <2>1. starting.best \in Slots
    BY <1>0, <1>5 DEF StartSync, SyncInv, ChosenInCopy
  <2>2. UNCHANGED <<msg, vNodes>>
    BY <1>5 DEF StartSync, nodeVars
  <2> QED BY <1>5, <2>1, <2>2 DEF StartSync, NotStarting, SyncInv, SyncTyped, ChosenInCopy,
             SyncNodeAsked, Flags
<1>6. CASE SyncRelease
  BY <1>6 DEF SyncRelease, MsgRelease, syncVars, perNode, SyncInv, SyncTyped,
     ChosenInCopy, SyncNodeAsked
<1>7. ASSUME NEW s \in Slots, Handshake(s) \/ AskForBlocks(s) PROVE SyncInv'
  <2>1. SyncTyped'
    BY <1>7 DEF Handshake, AskForBlocks, SyncInv, SyncTyped, Flags
  <2>2. ChosenInCopy'
    BY <1>7 DEF Handshake, AskForBlocks, nodeVars, SyncInv, ChosenInCopy
  <2>3. \A t \in Slots : fStartSync[t] \/ asked[t] => fStartSync'[t] \/ asked'[t]
    BY <1>7 DEF Handshake, AskForBlocks, SyncInv, SyncTyped, Flags
  <2>4. SyncNodeAsked'
    BY <1>0, <1>7, <2>3 DEF Handshake, AskForBlocks, nodeVars, SyncInv, SyncNodeAsked
  <2> QED BY <2>1, <2>2, <2>4 DEF SyncInv
<1>8. CASE Unnoticed
  <2>1. UNCHANGED <<vNodes, msg>>
    BY <1>8 DEF Unnoticed, SockCopy, SockRelease, ServeTimeout, PollDisconnect, OpenerOther,
       NotWanted, NotConnected, LookAgain, AddRefFound, DialFails, MoveGrant, MarkNetworkNode,
       GiveUp, GoTo, Opening, Acquire, ByName, OneTry, Opens
  <2> QED BY <1>8, <2>1 DEF Unnoticed, syncVars, perNode, SyncInv, SyncTyped,
             ChosenInCopy, SyncNodeAsked
<1>9. ASSUME NEW s \in Slots, NEW peer \in Peers, SyncAccept(s, peer) PROVE SyncInv'
  BY <1>9, NewAtSyncInv DEF SyncAccept, AcceptNode
<1>10. ASSUME NEW s \in Slots, NEW o \in Openers, SyncAddNode(o, s) PROVE SyncInv'
  BY <1>10, NewAtSyncInv DEF SyncAddNode, AddNode
<1>11. CASE UNCHANGED allVars
  BY <1>11 DEF allVars, nodeVars, syncVars, perNode, SyncInv, SyncTyped,
     ChosenInCopy, SyncNodeAsked
<1> QED BY <1>1, <1>2, <1>3, <1>4, <1>5, <1>6, <1>7, <1>8, <1>9, <1>10, <1>11
        DEF SyncNext, SyncMsg

\* Both invariants hold of every behaviour.
LEMMA AlwaysSyncInv == SyncSpec => [](IInv /\ SyncInv)
<1>1. SyncSpec => []IInv
  BY SyncImplementsNodes, AlwaysIInv, PTL
<1> QED BY <1>1, InitSyncInv, NextSyncInv, PTL DEF SyncSpec

\* A node that is in vNodes and that the handler takes for its sync node has
\* been asked for blocks, or will be by the next SendMessages, unless a late
\* StartSync left a deleted node's address in pnodeSync.
THEOREM SyncNodeIsAsked == SyncSpec => []SyncNodeAsked
<1>1. SyncInv => SyncNodeAsked
  BY DEF SyncInv
<1> QED BY <1>1, AlwaysSyncInv, PTL

\* StartSync, which holds no lock, writes to a node that is not deleted: the
\* reference of the message thread's copy keeps it, however late it is.
THEOREM StartSyncWritesLiveNode == SyncSpec => []StartSyncSafe
<1>1. IInv /\ SyncInv => StartSyncSafe
  BY DEF IInv, UsersHoldLive, SyncInv, ChosenInCopy, StartSyncSafe
<1> QED BY <1>1, AlwaysSyncInv, PTL
=============================================================================
