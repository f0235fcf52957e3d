--------------------------- MODULE BlockDownload ---------------------------
(***************************************************************************)
(* How nodes get each other's blocks (main.cpp, net.h): getblocks answered *)
(* by batches of inv, AskFor and its retries, getdata, the inv of the best *)
(* block that follows the last block of a batch and makes the other side   *)
(* ask for the next one, orphan blocks and the request for what is missing *)
(* below them, and the announcement of new blocks.                         *)
(*                                                                         *)
(* Every node runs the same code.  What a node keeps for a peer (a CNode)  *)
(* is indexed by the pair <<n, m>>: node n, about its peer m.  A connection *)
(* delivers in order until it breaks.  Blocks are valid, of equal work and *)
(* accepted as in OrphanBlocks, in one step.                               *)
(***************************************************************************)
EXTENDS Integers, FiniteSets, Sequences, SequencesExt

CONSTANTS
  Nodes,
  Blocks, Genesis,
  Parent,       \* hashPrevBlock: [Blocks \ {Genesis} -> Blocks]
  First,        \* the best block each node starts with: [Nodes -> Blocks]
  Mineable,     \* the blocks that may be mined while nodes are connected
  NoHash,       \* hash zero and the null pointer
  nLimit,       \* blocks in an answer to getblocks (500)
  MaxBreaks     \* bound: connections that break

ASSUME DownloadAssumption ==
  /\ Genesis \in Blocks /\ NoHash \notin Blocks
  /\ Parent \in [Blocks \ {Genesis} -> Blocks]
  /\ \A S \in SUBSET Blocks : S # {} => \E b \in S : b = Genesis \/ Parent[b] \notin S
  /\ First \in [Nodes -> Blocks] /\ Mineable \subseteq Blocks
  /\ nLimit \in Nat \ {0} /\ MaxBreaks \in Nat

VARIABLES
  mapBlockIndex,       \* of each node: the blocks it has with all below them
  mapOrphanBlocks,     \* of each node: the blocks it has without a parent
  best,                \* of each node: hashBestChain
  mapAlreadyAskedFor,  \* of each node: the blocks it has asked someone for
  syncNode,            \* of each node: pnodeSync, or NoHash
  peer,                \* what n keeps for its connection to m
  net,                 \* messages on their way from n to m
  breaks               \* connections that broke

vars == <<mapBlockIndex, mapOrphanBlocks, best, mapAlreadyAskedFor, syncNode,
          peer, net, breaks>>

Links == {l \in Nodes \X Nodes : l[1] # l[2]}
Back(l) == <<l[2], l[1]>>

----------------------------------------------------------------------------
(* The tree of blocks: the ones from b down to the genesis block, and the  *)
(* same in the order of their heights.                                     *)

Closed(S) == \A c \in S \ {Genesis} : Parent[c] \in S
Below == [b \in Blocks |->
            {a \in Blocks : \A S \in SUBSET Blocks : (b \in S /\ Closed(S)) => a \in S}]
Height == [b \in Blocks |-> Cardinality(Below[b]) - 1]
Chain == [b \in Blocks |->
            [i \in 1..Height[b] + 1 |-> CHOOSE a \in Below[b] : Height[a] = i - 1]]

----------------------------------------------------------------------------
\* known, toSend: setInventoryKnown, vInventoryToSend; due, waiting:
\* mapAskFor, the requests that can be sent and the ones that are two minutes
\* off; last: pindexLastGetBlocksBegin, hashLastGetBlocksEnd; untriggered is
\* history: an inv message was answered in a way that can lose the trigger of
\* the next batch (see ReceiveInv).
NewPeer == [known |-> {}, toSend |-> <<>>, due |-> <<>>,
            waiting |-> <<>>, last |-> <<NoHash, NoHash>>,
            hashContinue |-> NoHash, untriggered |-> FALSE]

Init ==
  /\ mapBlockIndex = [n \in Nodes |-> Below[First[n]]]
  /\ mapOrphanBlocks = [n \in Nodes |-> {}]
  /\ best = First
  /\ mapAlreadyAskedFor = [n \in Nodes |-> {}]
  /\ syncNode = [n \in Nodes |-> NoHash]
  /\ peer = [l \in Links |-> NewPeer]
  /\ net = [l \in Links |-> <<>>]
  /\ breaks = 0

AlreadyHave(n, b) == b \in mapBlockIndex[n] \cup mapOrphanBlocks[n]

Inv(hashes) == [type |-> "inv", hashes |-> hashes]
GetData(hashes) == [type |-> "getdata", hashes |-> hashes]
GetBlocks(begin, end) == [type |-> "getblocks", begin |-> begin, end |-> end]
Block(b) == [type |-> "block", block |-> b]

\* One side of a connection while a handler works on it: p is the record of
\* the peer, out the messages to it.
PushMessage(c, m) == [c EXCEPT !.out = Append(@, m)]

\* PushGetBlocks: the same request twice in a row is sent once.
PushGetBlocks(c, begin, end) ==
  IF c.p.last = <<begin, end>> THEN c
  ELSE PushMessage([c EXCEPT !.p.last = <<begin, end>>], GetBlocks(begin, end))

\* The blocks of s that are in S, in their order.
Filter(s, S) == FoldLeft(LAMBDA r, b : IF b \in S THEN Append(r, b) ELSE r, <<>>, s)

\* PushInventory for a sequence of blocks.
PushInventory(p, bs) == [p EXCEPT !.toSend = @ \o Filter(bs, Blocks \ p.known)]

\* The lowest orphan under an orphan.
GetOrphanRoot(orphans, b) ==
  CHOOSE r \in Below[b] \cap orphans :
    /\ Parent[r] \notin orphans
    /\ \A a \in Below[b] : Height[a] >= Height[r] => a \in orphans

\* What is left to do of a handler of l = <<n, m>>: the record and the output.
Begin(l) == [p |-> peer[l], out |-> <<>>]
End(l, c) == /\ peer' = [peer EXCEPT ![l] = c.p]
             /\ net' = [net EXCEPT ![l] = @ \o c.out,
                                   ![Back(l)] = Tail(@)]

Received(l, type) ==
  net[Back(l)] # <<>> /\ Head(net[Back(l)]).type = type

----------------------------------------------------------------------------
(* Handlers of n = l[1] for messages from m = l[2].                        *)

\* StartSync and the first SendMessages after it.
StartSync(l) ==
  LET n == l[1]
      c == PushGetBlocks(Begin(l), best[n], NoHash) IN
  /\ syncNode[n] = NoHash
  /\ syncNode' = [syncNode EXCEPT ![n] = l[2]]
  /\ peer' = [peer EXCEPT ![l] = c.p]
  /\ net' = [net EXCEPT ![l] = @ \o c.out]
  /\ UNCHANGED <<mapBlockIndex, mapOrphanBlocks, best, mapAlreadyAskedFor>>

\* AskFor: at once, unless the block was asked for less than two minutes ago.
AskFor(c, b, late) ==
  IF late THEN [c EXCEPT !.p.waiting = Append(@, b)]
          ELSE [c EXCEPT !.p.due = Append(@, b)]

\* One entry of an inv message.  late: the entries asked for a short time ago.
InvEntryIndexed(n, c, b, isLast, late) ==
  LET k == [c EXCEPT !.p.known = @ \cup {b}] IN
  CASE ~AlreadyHave(n, b) -> AskFor(k, b, b \in late)
    [] AlreadyHave(n, b) /\ ~isLast -> k
    [] AlreadyHave(n, b) /\ isLast ->
         PushGetBlocks(k, IF b \in mapBlockIndex[n] THEN b ELSE NoHash, NoHash)
InvEntry(n, c, b, isLast, late) ==
  LET k == [c EXCEPT !.p.known = @ \cup {b}] IN
  CASE ~AlreadyHave(n, b) -> AskFor(k, b, b \in late)
    [] b \in mapOrphanBlocks[n] ->
         PushGetBlocks(k, best[n], GetOrphanRoot(mapOrphanBlocks[n], b))
    [] b \in mapBlockIndex[n] ->
         IF isLast THEN PushGetBlocks(k, b, NoHash) ELSE k

InvEntries(l, hashes, late) ==
  FoldLeftDomain(LAMBDA c, i : InvEntry(l[1], c, hashes[i], i = Len(hashes), late),
                 Begin(l), hashes)

\* Requests that were made in order expire in order: of the entries asked for
\* before, the ones from some place on have to wait.
Late(n, hashes, k) ==
  {hashes[i] : i \in k..Len(hashes)} \cap mapAlreadyAskedFor[n]

\* Its last block was an orphan already and is not requested, or a request has
\* to wait and a later one does not.
ReceiveInv(l) ==
  LET n == l[1]
      hashes == Head(net[Back(l)]).hashes
      new == {b \in ToSet(hashes) : ~AlreadyHave(n, b)} IN
  /\ Received(l, "inv")
  /\ \E k \in 1..Len(hashes) + 1 :
       LET late == Late(n, hashes, k)
           lost == \/ Last(hashes) \in mapOrphanBlocks[n]
                   \/ \E i, j \in DOMAIN hashes :
                        /\ i < j
                        /\ hashes[i] \in new \cap late
                        /\ hashes[j] \in new \ late
       IN End(l, [InvEntries(l, hashes, late) EXCEPT !.p.untriggered = @ \/ lost])
  /\ mapAlreadyAskedFor' = [mapAlreadyAskedFor EXCEPT ![n] = @ \cup new]
  /\ UNCHANGED <<mapBlockIndex, mapOrphanBlocks, best, syncNode>>

\* The blocks of n's main chain after the first block of the locator that is
\* in it, up to hashStop or the limit.
AfterLocator(n, begin, end) ==
  LET mine == Chain[best[n]]
      fork == CHOOSE i \in 1..Len(mine) :
                /\ mine[i] \in Below[begin]
                /\ i = Len(mine) \/ mine[i + 1] \notin Below[begin]
      stop == {i \in fork + 1..Len(mine) : mine[i] = end}
      upto == IF stop = {} THEN Len(mine) ELSE (CHOOSE i \in stop : TRUE) - 1
  IN SubSeq(mine, fork + 1, IF upto - fork > nLimit THEN fork + nLimit ELSE upto)

ReceiveGetBlocks(l) ==
  LET n == l[1]
      m == Head(net[Back(l)])
      batch == AfterLocator(n, m.begin, m.end)
      pushed == PushInventory(peer[l], batch)
  IN /\ Received(l, "getblocks")
     /\ End(l, [p |-> [pushed EXCEPT !.hashContinue =
                         IF Len(batch) = nLimit THEN Last(batch) ELSE @],
                out |-> <<>>])
     /\ UNCHANGED <<mapBlockIndex, mapOrphanBlocks, best, mapAlreadyAskedFor,
                    syncNode>>

\* ProcessGetData: after the last block of a batch comes an inv of the best
\* block, past setInventoryKnown.
ServeBlock(n, c, b) ==
  IF b \in mapBlockIndex[n] THEN PushMessage(c, Block(b)) ELSE c
Serve(n, c, b) ==
  IF b \notin mapBlockIndex[n] THEN c
  ELSE LET d == PushMessage(c, Block(b)) IN
       IF b = d.p.hashContinue
         THEN PushMessage([d EXCEPT !.p.hashContinue = NoHash], Inv(<<best[n]>>))
         ELSE d

ServeAll(l, hashes) == FoldLeft(LAMBDA c, b : Serve(l[1], c, b), Begin(l), hashes)

ReceiveGetData(l) ==
  /\ Received(l, "getdata")
  /\ End(l, ServeAll(l, Head(net[Back(l)]).hashes))
  /\ UNCHANGED <<mapBlockIndex, mapOrphanBlocks, best, mapAlreadyAskedFor,
                 syncNode>>

----------------------------------------------------------------------------
\* The orphans that a block lets in.
Released(orphans, b) ==
  {o \in orphans : Below[o] \ (Below[b] \cup orphans) = {}}

\* The new blocks that become the best one, in the order they are accepted,
\* when t is the one that stays the best.
NewTips(n, new, t) ==
  Filter(Chain[t], {b \in new : Height[b] > Height[best[n]]})

Highest(new) == {b \in new : \A c \in new : Height[c] <= Height[b]}

\* Every new best block is announced to the peers.
Announced(peers, n, tips) ==
  [l \in Links |-> IF l[1] = n THEN PushInventory(peers[l], tips) ELSE peers[l]]

\* AcceptBlock for the block and for the orphans above it.
Accept(n, b, peers) ==
  LET new == {b} \cup Released(mapOrphanBlocks[n], b) IN
  \E t \in Highest(new) :
    /\ mapBlockIndex' = [mapBlockIndex EXCEPT ![n] = @ \cup new]
    /\ mapOrphanBlocks' = [mapOrphanBlocks EXCEPT ![n] = @ \ new]
    /\ best' = [best EXCEPT ![n] = IF Height[t] > Height[@] THEN t ELSE @]
    /\ peer' = Announced(peers, n, NewTips(n, new, t))

\* The message "block" and ProcessBlock.
ReceiveBlock(l) ==
  LET n == l[1]
      b == Head(net[Back(l)]).block
      c == [Begin(l) EXCEPT !.p.known = @ \cup {b}] IN
  /\ Received(l, "block")
  /\ \/ /\ AlreadyHave(n, b)
        /\ End(l, c)
        /\ UNCHANGED <<mapBlockIndex, mapOrphanBlocks, best, mapAlreadyAskedFor>>
     \/ /\ ~AlreadyHave(n, b) /\ Parent[b] \notin mapBlockIndex[n]
        /\ mapOrphanBlocks' = [mapOrphanBlocks EXCEPT ![n] = @ \cup {b}]
        /\ End(l, PushGetBlocks(c, best[n],
                    GetOrphanRoot(mapOrphanBlocks[n] \cup {b}, b)))
        /\ mapAlreadyAskedFor' = [mapAlreadyAskedFor EXCEPT ![n] = @ \ {b}]
        /\ UNCHANGED <<mapBlockIndex, best>>
     \/ /\ ~AlreadyHave(n, b) /\ Parent[b] \in mapBlockIndex[n]
        /\ Accept(n, b, [peer EXCEPT ![l] = c.p])
        /\ net' = [net EXCEPT ![Back(l)] = Tail(@)]
        /\ mapAlreadyAskedFor' = [mapAlreadyAskedFor EXCEPT ![n] = @ \ {b}]
  /\ UNCHANGED syncNode

----------------------------------------------------------------------------
\* The inventory the peer does not know.
Unknown(p) ==
  FoldLeft(LAMBDA s, b : IF b \in p.known \cup ToSet(s) THEN s ELSE Append(s, b),
           <<>>, p.toSend)

\* That, and the requests that are due and not answered yet.
SendMessages(l) ==
  LET n == l[1]
      p == peer[l]
      inv == Unknown(p)
      ask == Filter(p.due, {b \in Blocks : ~AlreadyHave(n, b)})
      Unless(s, m) == IF s = <<>> THEN <<>> ELSE <<m>>
  IN /\ p.toSend # <<>> \/ p.due # <<>>
     /\ peer' = [peer EXCEPT ![l] =
          [p EXCEPT !.known = @ \cup ToSet(inv), !.toSend = <<>>, !.due = <<>>]]
     /\ net' = [net EXCEPT ![l] = @ \o Unless(inv, Inv(inv))
                                    \o Unless(ask, GetData(ask))]
     /\ UNCHANGED <<mapBlockIndex, mapOrphanBlocks, best, mapAlreadyAskedFor,
                    syncNode>>

\* Two minutes pass: the oldest request can be sent again (mapAskFor is
\* ordered by time, and the requests were made in the order of the chain).
Retry(l) ==
  /\ peer[l].waiting # <<>>
  /\ peer' = [peer EXCEPT ![l].waiting = Tail(@),
                          ![l].due = Append(@, Head(peer[l].waiting))]
  /\ UNCHANGED <<mapBlockIndex, mapOrphanBlocks, best, mapAlreadyAskedFor,
                 syncNode, net>>

\* A node mines on its best block.
Mine(n, b) ==
  /\ b \in Mineable /\ Parent[b] = best[n]
  /\ \A m \in Nodes : b \notin mapBlockIndex[m]
  /\ Accept(n, b, peer)
  /\ UNCHANGED <<mapAlreadyAskedFor, syncNode, net>>

\* A connection breaks and is opened again: both sides drop what they kept
\* for it and what was under way, and choose a node to download from anew.
Reconnect(l) ==
  /\ breaks < MaxBreaks
  /\ breaks' = breaks + 1
  /\ peer' = [peer EXCEPT ![l] = NewPeer, ![Back(l)] = NewPeer]
  /\ net' = [net EXCEPT ![l] = <<>>, ![Back(l)] = <<>>]
  /\ syncNode' = [n \in Nodes |-> IF <<n, syncNode[n]>> \in {l, Back(l)}
                                    THEN NoHash ELSE syncNode[n]]
  /\ UNCHANGED <<mapBlockIndex, mapOrphanBlocks, best, mapAlreadyAskedFor>>

Receive(l) ==
  ReceiveInv(l) \/ ReceiveGetBlocks(l) \/ ReceiveGetData(l) \/ ReceiveBlock(l)

Connected(A) == A /\ UNCHANGED breaks

Next ==
  \/ \E l \in Links :
       \/ Connected(StartSync(l) \/ SendMessages(l) \/ Receive(l) \/ Retry(l))
       \/ Reconnect(l)
  \/ \E n \in Nodes, b \in Blocks : Connected(Mine(n, b))

Spec == Init /\ [][Next]_vars

\* The message threads run and the clock goes on; nobody has to mine, and no
\* connection has to break.
FairSpec ==
  /\ Spec
  /\ \A l \in Links :
       /\ WF_vars(Connected(StartSync(l))) /\ WF_vars(Connected(Receive(l)))
       /\ WF_vars(Connected(SendMessages(l))) /\ WF_vars(Connected(Retry(l)))
----------------------------------------------------------------------------
Messages ==
  [type : {"inv", "getdata"}, hashes : Seq(Blocks)]
    \cup [type : {"getblocks"}, begin : Blocks, end : Blocks \cup {NoHash}]
    \cup [type : {"block"}, block : Blocks]

TypeOK ==
  /\ mapBlockIndex \in [Nodes -> SUBSET Blocks]
  /\ mapOrphanBlocks \in [Nodes -> SUBSET Blocks]
  /\ best \in [Nodes -> Blocks]
  /\ mapAlreadyAskedFor \in [Nodes -> SUBSET Blocks]
  /\ syncNode \in [Nodes -> Nodes \cup {NoHash}]
  /\ peer \in [Links -> [known : SUBSET Blocks, toSend : Seq(Blocks),
                         due : Seq(Blocks), waiting : Seq(Blocks),
                         last : (Blocks \cup {NoHash}) \X (Blocks \cup {NoHash}),
                         hashContinue : Blocks \cup {NoHash},
                         untriggered : BOOLEAN]]
  /\ net \in [Links -> Seq(Messages)]
  /\ breaks \in 0..MaxBreaks

Caught(l) == Height[best[l[1]]] >= Height[best[l[2]]]

\* A node comes to a chain at least as long as that of the node it downloads
\* from: when the last block of a batch is requested the next batch follows,
\* whatever is mined, orphaned or cut off in the meantime.
Converge ==
  \A l \in Links : <>[](syncNode[l[1]] = l[2]) => <>[]Caught(l)

\* The same, and no orphan block is kept for good, unless the trigger of a
\* batch was lost: its last block was an orphan here already, or a request that
\* was held back for two minutes was overtaken by a later one of the batch.
ConvergeTriggered ==
  \A l \in Links :
    <>[](syncNode[l[1]] = l[2] /\ ~peer[l].untriggered)
      => <>[](Caught(l) /\ mapOrphanBlocks[l[1]] = {})
=============================================================================
