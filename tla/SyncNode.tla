------------------------------ MODULE SyncNode ------------------------------
(***************************************************************************)
(* Choosing the node that blocks are downloaded from (net.cpp): pnodeSync, *)
(* which ThreadMessageHandler sets in StartSync, outside any lock, and     *)
(* every CloseSocketDisconnect() of that node clears.  The nodes, lists    *)
(* and threads are those of Nodes; each action here is one of its actions  *)
(* with what it does to the download.                                      *)
(***************************************************************************)
EXTENDS Nodes

VARIABLES
  pnodeSync,               \* a slot, or NULL
  fSuccessfullyConnected,  \* of each node: the handshake is over, with a peer
                           \* that has the blocks (see Handshake)
  fStartSync,              \* of each node: SendMessages has to ask for blocks
  starting,                \* where StartSync is, and the node it has chosen
  asked,                   \* history: the node was asked for blocks
  reborn                   \* history: the node got an address that pnodeSync
                           \* already held

perNode == <<fSuccessfullyConnected, fStartSync, asked, reborn>>
syncVars == <<pnodeSync, starting, perNode>>
allVars == <<nodeVars, syncVars>>

NotStarting == [pc |-> "no", best |-> NULL]
None == [s \in Slots |-> FALSE]

SyncInit ==
  /\ Init
  /\ pnodeSync = NULL /\ starting = NotStarting
  /\ fSuccessfullyConnected = None /\ fStartSync = None
  /\ asked = None /\ reborn = None

\* CloseSocketDisconnect(): if this was the sync node, there is none now.
ClearSync(closed) ==
  pnodeSync' = IF pnodeSync \in closed THEN NULL ELSE pnodeSync

\* What the constructor of a node sets.
NewAt(s) ==
  /\ fSuccessfullyConnected' = [fSuccessfullyConnected EXCEPT ![s] = FALSE]
  /\ fStartSync' = [fStartSync EXCEPT ![s] = FALSE]
  /\ asked' = [asked EXCEPT ![s] = FALSE]
  /\ reborn' = [reborn EXCEPT ![s] = (pnodeSync = s)]
  /\ UNCHANGED <<pnodeSync, starting>>

\* The nodes that a round of the socket thread disconnects.
SyncDisconnect ==
  \E unused \in SUBSET vNodes, busy \in msg.copy \cup {NULL} :
    /\ DisconnectAndDelete(unused, busy)
    /\ ClearSync(Leaving(unused))
    /\ UNCHANGED <<starting, perNode>>

SyncAccept(s, peer) == AcceptNode(s, peer) /\ NewAt(s)
SyncAddNode(o, s) == AddNode(o, s) /\ NewAt(s)

SyncClose(s) ==
  /\ ServeClose(s) \/ (starting.pc = "no" /\ PollClose(s))
  /\ ClearSync({s})
  /\ UNCHANGED <<starting, perNode>>

\* The copy of vNodes, and fHaveSyncNode in the same section of cs_vNodes.
SyncCopyIfSet ==
  /\ MsgCopy
  /\ starting' = IF pnodeSync # NULL THEN NotStarting
                                     ELSE [NotStarting EXCEPT !.pc = "choose"]
  /\ UNCHANGED <<pnodeSync, perNode>>
SyncCopy ==
  /\ MsgCopy
  /\ starting' = IF pnodeSync \in vNodes THEN NotStarting
                                         ELSE [NotStarting EXCEPT !.pc = "choose"]
  /\ UNCHANGED <<pnodeSync, perNode>>

\* Of the nodes that qualify the best by the time of the last message: any.
SyncCandidates ==
  {s \in msg.copy : ~node[s].fDisconnect /\ fSuccessfullyConnected[s]}

\* StartSync reads the nodes without a lock ...
ChooseSync ==
  /\ starting.pc = "choose"
  /\ starting' \in
       IF SyncCandidates = {} THEN {NotStarting}
       ELSE {[pc |-> "start", best |-> s] : s \in SyncCandidates}
  /\ UNCHANGED <<nodeVars, pnodeSync, perNode>>

\* ... and writes later, whatever became of the node it chose.
StartSyncUnmarked ==
  /\ starting.pc = "start"
  /\ pnodeSync' = starting.best
  /\ starting' = NotStarting
  /\ UNCHANGED <<nodeVars, perNode>>
StartSync ==
  /\ starting.pc = "start"
  /\ fStartSync' = [fStartSync EXCEPT ![starting.best] = TRUE]
  /\ pnodeSync' = starting.best
  /\ starting' = NotStarting
  /\ UNCHANGED <<nodeVars, fSuccessfullyConnected, asked, reborn>>

Polled(s) == /\ msg.pc = "poll" /\ starting.pc = "no" /\ s \in msg.copy
             /\ ~node[s].fDisconnect

\* The message "version" completes the handshake.  A client, a one-shot
\* connection or a peer with too few blocks is one that never gets here.
Handshake(s) ==
  /\ Polled(s) /\ ~fSuccessfullyConnected[s]
  /\ fSuccessfullyConnected' = [fSuccessfullyConnected EXCEPT ![s] = TRUE]
  /\ UNCHANGED <<nodeVars, pnodeSync, starting, fStartSync, asked, reborn>>

\* SendMessages: the first one after StartSync asks for blocks.
AskForBlocks(s) ==
  /\ Polled(s) /\ fStartSync[s]
  /\ fStartSync' = [fStartSync EXCEPT ![s] = FALSE]
  /\ asked' = [asked EXCEPT ![s] = TRUE]
  /\ UNCHANGED <<nodeVars, pnodeSync, starting, fSuccessfullyConnected, reborn>>

SyncRelease == starting.pc = "no" /\ MsgRelease /\ UNCHANGED syncVars

\* The steps of Nodes that the download does not notice.
Unnoticed ==
  /\ \/ SockCopy \/ SockRelease
     \/ \E s \in Slots : \/ ServeTimeout(s)
                         \/ starting.pc = "no" /\ PollDisconnect(s)
     \/ \E o \in Openers :
          OpenerOther(o) \/ \E peer \in Peers : Opening(o, peer)
  /\ UNCHANGED syncVars

SyncSock == SyncDisconnect \/ ((SockCopy \/ SockRelease) /\ UNCHANGED syncVars)
SyncMsg == SyncCopy \/ ChooseSync \/ StartSync \/ SyncRelease

SyncNext ==
  /\ Defined
  /\ \/ SyncDisconnect \/ SyncMsg \/ Unnoticed
     \/ \E s \in Slots :
          \/ SyncClose(s) \/ Handshake(s) \/ AskForBlocks(s)
          \/ \E peer \in Peers : SyncAccept(s, peer)
          \/ \E o \in Openers : SyncAddNode(o, s)

SyncSpec ==
  /\ SyncInit /\ [][SyncNext]_allVars
  /\ WF_allVars(Defined /\ SyncSock)
  /\ WF_allVars(Defined /\ SyncMsg)
----------------------------------------------------------------------------
\* While pnodeSync is in vNodes the handler looks for no other: that node has
\* been asked for blocks or is about to be.  (Not when a new node was given
\* the address that a late StartSync left in pnodeSync: see reborn.)
SyncNodeAsked ==
  \A s \in vNodes : (s = pnodeSync /\ ~reborn[s]) => fStartSync[s] \/ asked[s]

\* When a usable node stays connected, a node to download from is found again
\* whenever it is lost.
SyncResumes ==
  \A s \in Slots :
    <>[](Defined /\ s \in vNodes /\ fSuccessfullyConnected[s]
                 /\ ~node[s].fDisconnect)
      => []<>(pnodeSync \in vNodes)
=============================================================================
