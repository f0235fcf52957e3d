------------------------------- MODULE Nodes -------------------------------
(***************************************************************************)
(* The life of a CNode (net.cpp, net.h): the list vNodes, the reference    *)
(* counts, the pool vNodesDisconnected and the outbound slots of           *)
(* semOutbound.  SyncNode adds the choice of the node to download from.    *)
(*                                                                         *)
(* Three kinds of threads run: ThreadSocketHandler (accepts, serves,       *)
(* disconnects and deletes nodes), ThreadMessageHandler (polls them) and   *)
(* the threads that open connections, from the address manager, for        *)
(* -addnode or for "addnode onetry".  A step is what a thread does under   *)
(* one lock of cs_vNodes, or one access outside it.                        *)
(*                                                                         *)
(* A slot is a heap address: delete frees it and a later new CNode may     *)
(* get it again.  A thread that touches a free slot is in undefined        *)
(* behaviour, and the model ends there.                                    *)
(***************************************************************************)
EXTENDS Integers, FiniteSets

CONSTANTS
  Slots,         \* addresses a CNode can have
  Peers,         \* network addresses
  Openers,       \* threads that call ConnectNode
  Calls,         \* how each of them calls it: see Opening
  NULL,          \* no node
  MaxOutbound,   \* initial value of semOutbound
  MaxInbound,    \* nMaxConnections - MAX_OUTBOUND_CONNECTIONS
  MaxTaken       \* bound: references ConnectNode takes on one existing node

ASSUME NodesAssumption ==
  /\ NULL \notin Slots
  /\ {MaxOutbound, MaxInbound, MaxTaken} \subseteq Nat
  /\ IsFiniteSet(Slots) /\ IsFiniteSet(Openers)
  /\ Calls \in [Openers -> SUBSET {"address", "name", "connect", "onetry"}]

VARIABLES
  node,               \* the memory of each slot
  vNodes,
  vNodesDisconnected,
  semOutbound,        \* value of the semaphore
  opener,             \* where each opening thread is
  sock,               \* ThreadSocketHandler
  msg                 \* ThreadMessageHandler

nodeVars == <<node, vNodes, vNodesDisconnected, semOutbound, opener, sock, msg>>

\* Two fields are history: owned (the reference taken at creation is not
\* released) and taken (references ConnectNode took on a node it found).
NodeRecords ==
  [alive : BOOLEAN, addr : Peers \cup {NULL}, fInbound : BOOLEAN,
   fNetworkNode : BOOLEAN, hSocket : BOOLEAN, fDisconnect : BOOLEAN,
   nRefCount : Int, grantOutbound : BOOLEAN,
   owned : BOOLEAN, taken : 0..MaxTaken]

Free ==
  [alive |-> FALSE, addr |-> NULL, fInbound |-> FALSE,
   fNetworkNode |-> FALSE, hSocket |-> FALSE, fDisconnect |-> FALSE,
   nRefCount |-> 0, grantOutbound |-> FALSE, owned |-> FALSE, taken |-> 0]

\* A node as it is when it enters vNodes: constructed, with one AddRef().
NewNode(peer, inbound) ==
  [alive |-> TRUE, addr |-> peer, fInbound |-> inbound,
   fNetworkNode |-> FALSE, hSocket |-> TRUE, fDisconnect |-> FALSE,
   nRefCount |-> 1, grantOutbound |-> FALSE, owned |-> TRUE, taken |-> 0]

Idle == [pc |-> "idle", peer |-> NULL, pnode |-> NULL, grant |-> FALSE]

Init ==
  /\ node = [s \in Slots |-> Free]
  /\ vNodes = {} /\ vNodesDisconnected = {}
  /\ semOutbound = MaxOutbound
  /\ opener = [o \in Openers |-> Idle]
  /\ sock = [pc |-> "disconnect", copy |-> {}]
  /\ msg = [pc |-> "copy", copy |-> {}]

----------------------------------------------------------------------------
\* nRefCount++ and nRefCount-- of a set of nodes, under cs_vNodes.
AddRefs(nodes, S) ==
  [s \in Slots |-> IF s \in S
     THEN [nodes[s] EXCEPT !.nRefCount = nodes[s].nRefCount + 1] ELSE nodes[s]]

Releases(nodes, S) ==
  [s \in Slots |-> IF s \in S
     THEN [nodes[s] EXCEPT !.nRefCount = nodes[s].nRefCount - 1] ELSE nodes[s]]

\* CNode::CloseSocketDisconnect(); what it does to pnodeSync is in SyncNode.
Closed(r) == [r EXCEPT !.fDisconnect = TRUE, !.hSocket = FALSE]

Grants(n) == IF n THEN 1 ELSE 0

----------------------------------------------------------------------------
(* Opening a connection: OpenNetworkConnection and ConnectNode.            *)

At(o, pc) == opener[o].pc = pc

\* FindNode((CNetAddr)addr): any node of that address; the second FindNode,
\* by address and port, does not match the port an inbound peer called from.
FindNodeByAddr(peer) == {s \in vNodes : node[s].addr = peer}
FindNodeByService(peer) ==
  {s \in vNodes : node[s].addr = peer /\ ~node[s].fInbound}

Opens(o, pc, peer, grant) ==
  /\ At(o, "idle") /\ (grant => semOutbound >= 1)
  /\ semOutbound' = semOutbound - Grants(grant)
  /\ opener' = [opener EXCEPT ![o] = [pc |-> pc, peer |-> peer,
                                      pnode |-> NULL, grant |-> grant]]
  /\ UNCHANGED <<node, vNodes, vNodesDisconnected, sock, msg>>

\* ThreadOpenConnections and ThreadOpenAddedConnections take a grant, then
\* choose an address.
Acquire(o, peer) == Opens(o, "open", peer, TRUE)

\* By name, -addnode behind a name proxy and seeds with a grant and -connect
\* without one: no node of the list has that name, whatever its address.
ByName(o, peer, grant) == Opens(o, "dial", peer, grant)

\* "addnode onetry" calls ConnectNode itself, by name and with no grant.
OneTry(o, peer) == Opens(o, "onetry", peer, FALSE)

Opening(o, peer) ==
  \/ "address" \in Calls[o] /\ Acquire(o, peer)
  \/ "name" \in Calls[o] /\ ByName(o, peer, TRUE)
  \/ "connect" \in Calls[o] /\ ByName(o, peer, FALSE)
  \/ "onetry" \in Calls[o] /\ OneTry(o, peer)

\* The call returns without a node and the grant goes out of scope.
GiveUpKeepsGrant(o) ==
  /\ opener' = [opener EXCEPT ![o] = Idle]
  /\ UNCHANGED <<node, vNodes, vNodesDisconnected, semOutbound, sock, msg>>
GiveUp(o) ==
  /\ semOutbound' = semOutbound + Grants(opener[o].grant)
  /\ opener' = [opener EXCEPT ![o] = Idle]
  /\ UNCHANGED <<node, vNodes, vNodesDisconnected, sock, msg>>

GoTo(o, pc) ==
  /\ opener' = [opener EXCEPT ![o].pc = pc]
  /\ UNCHANGED <<node, vNodes, vNodesDisconnected, semOutbound, sock, msg>>

\* The address is connected already, local or banned.
NotWanted(o) == At(o, "open") /\ GiveUp(o)

NotConnected(o) ==
  At(o, "open") /\ FindNodeByAddr(opener[o].peer) = {} /\ GoTo(o, "connect")

\* ConnectNode looks again; FindNode drops cs_vNodes before it returns.
LookAgain(o) ==
  /\ At(o, "connect")
  /\ LET found == FindNodeByService(opener[o].peer) IN
       \/ found = {} /\ GoTo(o, "dial")
       \/ \E s \in found :
            /\ opener' = [opener EXCEPT ![o] =
                               [@ EXCEPT !.pc = "found", !.pnode = s]]
            /\ UNCHANGED <<node, vNodes, vNodesDisconnected, semOutbound,
                           sock, msg>>

\* AddRef() on the node that was found, without the lock: the increment may
\* be lost to, or undo, one update of another thread at the same time.
\* Nobody releases this reference.
AddRefFound(o) ==
  LET s == opener[o].pnode IN
  /\ At(o, "found") /\ node[s].alive
  /\ node[s].taken < MaxTaken
  /\ \E n \in 0..2 :
       node' = [node EXCEPT ![s] =
                  [@ EXCEPT !.nRefCount = node[s].nRefCount + n,
                            !.taken = node[s].taken + 1]]
  /\ opener' = [opener EXCEPT ![o].pc = "grant"]
  /\ UNCHANGED <<vNodes, vNodesDisconnected, semOutbound, sock, msg>>

DialFails(o) == opener[o].pc \in {"dial", "onetry"} /\ GiveUp(o)

\* new CNode, AddRef, and under cs_vNodes vNodes.push_back.
AddNode(o, s) ==
  /\ opener[o].pc \in {"dial", "onetry"} /\ ~node[s].alive
  /\ node' = [node EXCEPT ![s] = NewNode(opener[o].peer, FALSE)]
  /\ vNodes' = vNodes \cup {s}
  /\ opener' = [opener EXCEPT ![o] =
       IF At(o, "dial") THEN [@ EXCEPT !.pc = "grant", !.pnode = s]
                        ELSE Idle]
  /\ UNCHANGED <<vNodesDisconnected, semOutbound, sock, msg>>

\* grantOutbound->MoveTo(pnode->grantOutbound): what the node holds is
\* released first.
MoveGrant(o) ==
  LET s == opener[o].pnode IN
  /\ At(o, "grant") /\ node[s].alive
  /\ semOutbound' = semOutbound + Grants(node[s].grantOutbound)
  /\ node' = [node EXCEPT ![s].grantOutbound = opener[o].grant]
  /\ opener' = [opener EXCEPT ![o] =
                               [@ EXCEPT !.pc = "network", !.grant = FALSE]]
  /\ UNCHANGED <<vNodes, vNodesDisconnected, sock, msg>>

MarkNetworkNode(o) ==
  LET s == opener[o].pnode IN
  /\ At(o, "network") /\ node[s].alive
  /\ node' = [node EXCEPT ![s].fNetworkNode = TRUE]
  /\ opener' = [opener EXCEPT ![o] = Idle]
  /\ UNCHANGED <<vNodes, vNodesDisconnected, semOutbound, sock, msg>>

\* The thread dereferences a node that was deleted since FindNode.
Dangling(o) == /\ opener[o].pc \in {"found", "grant", "network"}
               /\ ~node[opener[o].pnode].alive

OpenerOther(o) ==
  \/ NotWanted(o) \/ NotConnected(o) \/ LookAgain(o) \/ AddRefFound(o)
  \/ DialFails(o) \/ MoveGrant(o) \/ MarkNetworkNode(o)

OpenerStep(o) == OpenerOther(o) \/ \E s \in Slots : AddNode(o, s)

----------------------------------------------------------------------------
(* ThreadSocketHandler.                                                    *)

\* Nodes to disconnect; the buffers of an unused node may be empty or not.
Leaving(unused) == {s \in vNodes : node[s].fDisconnect \/ s \in unused}

\* The reference of the connection is released for the nodes that have one.
HasOwner(r) == r.fNetworkNode \/ r.fInbound

\* A disconnected node: its grant and its reference are given up.
DisconnectedKeepsGrant(r) ==
  [Closed(r) EXCEPT !.nRefCount = IF HasOwner(r) THEN @ - 1 ELSE @,
                    !.owned = IF HasOwner(r) THEN FALSE ELSE @]
Disconnected(r) ==
  [Closed(r) EXCEPT !.grantOutbound = FALSE,
                    !.nRefCount = IF HasOwner(r) THEN @ - 1 ELSE @,
                    !.owned = IF HasOwner(r) THEN FALSE ELSE @]

\* The deletion tries for three locks of the node: the message thread may
\* have them on the one node of its copy that it is polling right now.
LocksFree(s, busy) == s # busy

\* GetRefCount() <= 0
UnusedBelowTwo(r) == r.nRefCount <= 1
Unused(r) == r.nRefCount <= 0

\* Disconnect the nodes that ask for it, then delete what nobody uses: both
\* in one section of cs_vNodes.  The destructor of a deleted node releases
\* the grant it may hold.
DisconnectAndDelete(unused, busy) ==
  LET out   == Leaving(unused)
      after == [s \in Slots |-> IF s \in out THEN Disconnected(node[s])
                                             ELSE node[s]]
      pool  == vNodesDisconnected \cup out
      dead  == {s \in pool : Unused(after[s]) /\ LocksFree(s, busy)}
  IN /\ sock.pc = "disconnect"
     /\ unused \subseteq {s \in vNodes : Unused(node[s])}
     /\ node' = [s \in Slots |-> IF s \in dead THEN Free ELSE after[s]]
     /\ vNodes' = vNodes \ out
     /\ vNodesDisconnected' = pool \ dead
     /\ semOutbound' =
          semOutbound + Cardinality({s \in out : node[s].grantOutbound})
                      + Cardinality({s \in dead : after[s].grantOutbound})
     /\ sock' = [sock EXCEPT !.pc = "accept"]
     /\ UNCHANGED <<opener, msg>>

\* An inbound connection, when there is room for one.
AcceptNode(s, peer) ==
  /\ sock.pc = "accept" /\ ~node[s].alive
  /\ Cardinality({t \in vNodes : node[t].fInbound}) < MaxInbound
  /\ node' = [node EXCEPT ![s] = NewNode(peer, TRUE)]
  /\ vNodes' = vNodes \cup {s}
  /\ UNCHANGED <<vNodesDisconnected, semOutbound, opener, sock, msg>>

SockCopy ==
  /\ sock.pc = "accept"
  /\ sock' = [pc |-> "serve", copy |-> vNodes]
  /\ node' = AddRefs(node, vNodes)
  /\ UNCHANGED <<vNodes, vNodesDisconnected, semOutbound, opener, msg>>

\* A node is served: its socket was closed or failed, or the peer was silent
\* for too long.  (What else is received and sent leaves this state alone.
\* The loop takes each node of the copy once; here it may come back to one,
\* which is what its next round does.)
ServeClose(s) ==
  /\ sock.pc = "serve" /\ s \in sock.copy /\ node[s].hSocket
  /\ node' = [node EXCEPT ![s] = Closed(@)]
  /\ UNCHANGED <<vNodes, vNodesDisconnected, semOutbound, opener, sock, msg>>

ServeTimeout(s) ==
  /\ sock.pc = "serve" /\ s \in sock.copy /\ node[s].hSocket
  /\ node' = [node EXCEPT ![s].fDisconnect = TRUE]
  /\ UNCHANGED <<vNodes, vNodesDisconnected, semOutbound, opener, sock, msg>>

SockRelease ==
  /\ sock.pc = "serve"
  /\ node' = Releases(node, sock.copy)
  /\ sock' = [pc |-> "disconnect", copy |-> {}]
  /\ UNCHANGED <<vNodes, vNodesDisconnected, semOutbound, opener, msg>>

SockStep ==
  \/ \E unused \in SUBSET vNodes, busy \in msg.copy \cup {NULL} :
       DisconnectAndDelete(unused, busy)
  \/ SockCopy \/ SockRelease

----------------------------------------------------------------------------
(* ThreadMessageHandler.                                                   *)

MsgCopy ==
  /\ msg.pc = "copy"
  /\ node' = AddRefs(node, vNodes)
  /\ msg' = [pc |-> "poll", copy |-> vNodes]
  /\ UNCHANGED <<vNodes, vNodesDisconnected, semOutbound, opener, sock>>

\* A node is polled, when its locks are free: the messages may ask for a
\* disconnection, or fail, and so may the sending.
PollDisconnect(s) ==
  /\ msg.pc = "poll" /\ s \in msg.copy /\ ~node[s].fDisconnect
  /\ node' = [node EXCEPT ![s].fDisconnect = TRUE]
  /\ UNCHANGED <<vNodes, vNodesDisconnected, semOutbound, opener, sock, msg>>

PollClose(s) ==
  /\ msg.pc = "poll" /\ s \in msg.copy /\ ~node[s].fDisconnect
  /\ node' = [node EXCEPT ![s] = Closed(@)]
  /\ UNCHANGED <<vNodes, vNodesDisconnected, semOutbound, opener, sock, msg>>

MsgReleaseListed ==
  /\ msg.pc = "poll"
  /\ node' = Releases(node, msg.copy \cap vNodes)
  /\ msg' = [pc |-> "copy", copy |-> {}]
  /\ UNCHANGED <<vNodes, vNodesDisconnected, semOutbound, opener, sock>>
MsgRelease ==
  /\ msg.pc = "poll"
  /\ node' = Releases(node, msg.copy)
  /\ msg' = [pc |-> "copy", copy |-> {}]
  /\ UNCHANGED <<vNodes, vNodesDisconnected, semOutbound, opener, sock>>

MsgStep == MsgCopy \/ MsgRelease

----------------------------------------------------------------------------
Defined == \A o \in Openers : ~Dangling(o)

Next ==
  /\ Defined
  /\ \/ \E o \in Openers :
          OpenerStep(o) \/ \E peer \in Peers : Opening(o, peer)
     \/ SockStep
     \/ \E s \in Slots : \/ ServeClose(s) \/ ServeTimeout(s)
                        \/ PollDisconnect(s) \/ PollClose(s)
     \/ \E s \in Slots, peer \in Peers : AcceptNode(s, peer)
     \/ MsgStep

Spec == Init /\ [][Next]_nodeVars

\* Both handlers loop for as long as the process lives.  Nothing is assumed
\* of the threads that open connections.
Fairness ==
  /\ WF_nodeVars(Defined /\ SockStep)
  /\ WF_nodeVars(Defined /\ MsgStep)

FairSpec == Spec /\ Fairness
----------------------------------------------------------------------------
TypeOK ==
  /\ node \in [Slots -> NodeRecords]
  /\ vNodes \subseteq Slots /\ vNodesDisconnected \subseteq Slots
  /\ semOutbound \in 0..MaxOutbound
  /\ opener \in [Openers -> [pc : {"idle", "open", "connect", "dial", "onetry",
                                   "found", "grant", "network"},
                             peer : Peers \cup {NULL},
                             pnode : Slots \cup {NULL}, grant : BOOLEAN]]
  /\ sock \in [pc : {"disconnect", "accept", "serve"},
               copy : SUBSET Slots]
  /\ msg \in [pc : {"copy", "poll"}, copy : SUBSET Slots]

\* A node that a handler thread has in its copy, or that is in one of the two
\* lists, has not been deleted, and it is in one list only: what
\* ThreadSocketHandler deletes, no handler uses.
UsersHoldLive ==
  /\ \A s \in vNodes \cup vNodesDisconnected \cup sock.copy \cup msg.copy :
       node[s].alive
  /\ vNodes \cap vNodesDisconnected = {}

Users(s) == Grants(node[s].owned) + Grants(s \in sock.copy)
              + Grants(s \in msg.copy)

\* The count of a node is the number of its users: the connection and the two
\* handlers.  ConnectNode's reference on a node it found can only raise it.
RefsExact ==
  \A s \in Slots : node[s].alive =>
    /\ node[s].nRefCount >= Users(s)
    /\ node[s].taken = 0 => node[s].nRefCount = Users(s)

\* No outbound slot is lost or doubled: the free ones, the ones on their way
\* in an opening thread and the ones in nodes are always as many as at start.
SlotsConserved ==
  semOutbound + Cardinality({o \in Openers : opener[o].grant})
    + Cardinality({s \in Slots : node[s].alive /\ node[s].grantOutbound})
    = MaxOutbound

\* A disconnected node whose connection gave up its reference is deleted,
\* unless ConnectNode found it and took a reference that nobody returns.
DisconnectedDeleted ==
  \A s \in Slots :
    (s \in vNodesDisconnected /\ ~node[s].owned)
      ~> (s \notin vNodesDisconnected \/ node[s].taken > 0 \/ ~Defined)

=============================================================================
