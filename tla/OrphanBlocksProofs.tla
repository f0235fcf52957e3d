------------------------- MODULE OrphanBlocksProofs -------------------------
(***************************************************************************)
(* Proofs about OrphanBlocks.  ProcessBlock over the chain selection does  *)
(* nothing to it that BlockChain does not allow, so that every theorem of  *)
(* BlockChainProofs holds of it; the maps of the orphans stay in step; and *)
(* the order of arrival does not matter to the tip.                        *)
(***************************************************************************)
EXTENDS OrphanBlocks, BlockChainProofs

----------------------------------------------------------------------------
(* ProcessBlock and chain selection.                                       *)

\* A step of ProcessBlock is a step of chain selection, or none.
LEMMA OrphanStep == [OrphanNext]_allVars => [Next]_vars
<1> SUFFICES ASSUME [OrphanNext]_allVars PROVE [Next]_vars
  OBVIOUS
<1>1. ASSUME NEW b \in Blocks, KeepOrphan(b) \/ OrphanRefused(b) PROVE UNCHANGED vars
  BY <1>1 DEF KeepOrphan, OrphanRefused
<1>2. ASSUME NEW b \in Blocks, NEW roll \in BOOLEAN, NEW ibd \in IBD,
             ProcessBlock(b, roll, ibd) \/ AcceptOrphan(b, roll, ibd)
      PROVE  AcceptBlock(b, roll, ibd)
  BY <1>2 DEF ProcessBlock, AcceptOrphan
<1>3. CASE ProcessBlockFails \/ StartWork \/ OrphanAccepted \/ RangeDone
  BY <1>3 DEF ProcessBlockFails, StartWork, OrphanAccepted, RangeDone
<1>4. CASE ChainStep
  BY <1>4 DEF ChainStep, Next
<1>5. CASE Ends
  BY <1>5 DEF Ends, Next
<1>6. CASE UNCHANGED allVars
  BY <1>6 DEF allVars
<1> QED BY <1>1, <1>2, <1>3, <1>4, <1>5, <1>6 DEF OrphanNext, WorkStep, Next

\* ProcessBlock implements chain selection: it brings in blocks in an order of
\* its own, and every theorem about BlockChain holds of it.
THEOREM OrphansImplementChain == OrphanSpec => Spec
<1>1. OrphanInit => Init
  BY DEF OrphanInit
<1> QED BY <1>1, OrphanStep, PTL DEF OrphanSpec, Spec

\* What a step of a call leaves alone.
LEMMA CallIs ==
  ASSUME Types, IndexOK, CallStep
  PROVE  /\ pc \notin {"idle", "down"}
         /\ Indexed' = Indexed
         /\ \/ starting' = starting /\ pc' \notin {"idle", "down"}
            \/ starting' = FALSE /\ pc' \in {"idle", "down"}
         /\ invalid' = invalid
<1>r. ASSUME ReturnTo(TRUE, coinsTip) \/ ReturnTo(FALSE, coinsTip)
      PROVE  starting' = FALSE /\ pc' \in {"idle", "down"}
  BY <1>r DEF ReturnTo
<1>s. ASSUME status' = status PROVE Indexed' = Indexed
  BY <1>s DEF Indexed
<1>c. ASSUME attach # {}, NEW S \in SUBSET Connect, NEW marked \in SUBSET (Connect \cap invalid),
             NEW ibd \in BOOLEAN, ConnectEffect(S, ibd, marked)
      PROVE  Indexed' = Indexed
  BY <1>c, ConnectGrown DEF Types, ControlOK, MemoryOK
<1>0. {} \in SUBSET (Connect \cap invalid) /\ Connect \in SUBSET Connect
  OBVIOUS
<1>1. CASE NothingBetter \/ AttachDone
  BY <1>1, <1>r, <1>s DEF NothingBetter, AttachDone, memVars
<1>2. ASSUME NEW b \in Blocks, ChooseAttach(b)
      PROVE  /\ pc \notin {"idle", "down"} /\ Indexed' = Indexed /\ starting' = starting
             /\ pc' \notin {"idle", "down"} /\ invalid' = invalid
  BY <1>2, <1>s DEF ChooseAttach, memVars
<1>3. ASSUME NEW b \in Blocks, MarkFailedChild(b)
      PROVE  /\ pc \notin {"idle", "down"} /\ Indexed' = Indexed /\ starting' = starting
             /\ pc' \notin {"idle", "down"} /\ invalid' = invalid
  <2>1. pc = "best" /\ pc' = pc /\ starting' = starting /\ invalid' = invalid /\ b \in cand
    BY <1>3 DEF MarkFailedChild, BestCandidate
  <2>2. PICK culprit \in Scanned(b) \cap Failed :
           /\ IndexGrows(Marked(b, culprit)) /\ Grown(Marked(b, culprit), status, status', invalid)
           /\ cand' = cand \ Marked(b, culprit)
           /\ \A c \in Marked(b, culprit) : status'[c] = status[c] \union {"failedchild"}
    BY <1>3, MarkGrown
  <2>3. \A c \in Blocks \ Marked(b, culprit) : status'[c] = status[c]
    BY <2>2 DEF IndexGrows
  <2>4. \A c \in Chain[b] : status[c] # {}
    BY <2>1, ChainIndexed DEF IndexOK, CandidatesSound, Indexed, Running
  <2>5. \A c \in Blocks : status'[c] # {} <=> status[c] # {}
    BY <2>2, <2>3, <2>4 DEF Marked
  <2> QED BY <2>1, <2>5 DEF Indexed
<1>4. CASE DisconnectFails
  <2>1. pc = "attach" /\ status' = status /\ invalid' = invalid
    BY <1>4 DEF DisconnectFails, memVars
  <2>2. starting' = FALSE /\ pc' \in {"idle", "down"}
    BY <1>4, <1>r DEF DisconnectFails, GoDown
  <2> QED BY <1>s, <2>1, <2>2
<1>5. ASSUME NEW ibd \in IBD, ReadFails(ibd)
      PROVE  /\ pc \notin {"idle", "down"} /\ Indexed' = Indexed /\ starting' = FALSE
             /\ pc' = "down" /\ invalid' = invalid
  <2>1. PICK S \in SUBSET Connect : ConnectEffect(S, ibd, {}) /\ ibd \in BOOLEAN
    BY <1>5, ReadFailsConnects
  <2>2. attach # {}
    BY <1>5 DEF ReadFails
  <2>3. Indexed' = Indexed
    BY <1>0, <1>c, <2>1, <2>2
  <2> QED BY <1>5, <2>3 DEF ReadFails, GoDown
<1>6. ASSUME NEW ibd \in IBD, BlockInvalid(ibd)
      PROVE  /\ pc \notin {"idle", "down"} /\ Indexed' = Indexed /\ invalid' = invalid
             /\ \/ starting' = starting /\ pc' \notin {"idle", "down"}
                \/ starting' = FALSE /\ pc' \in {"idle", "down"}
  <2> DEFINE bad == Lowest(Bad)
  <2>1. /\ bad \in Connect \cap invalid /\ InvalidBlockFound(bad)
        /\ \E S \in SUBSET Connect : ConnectEffect(S, ibd, {bad}) /\ ibd \in BOOLEAN
    BY <1>6, BlockInvalidConnects
  <2>2. attach # {} /\ pc = "attach" /\ coinsTip' = coinsTip /\ invalid' = invalid
    BY <1>6 DEF BlockInvalid, CoinsAfterFailure
  <2> HIDE DEF bad
  <2>3. {bad} \in SUBSET (Connect \cap invalid)
    BY <2>1
  <2>4. Indexed' = Indexed
    BY <1>c, <2>1, <2>2, <2>3
  <2> QED BY <1>r, <2>1, <2>2, <2>4 DEF InvalidBlockFound
<1>7. ASSUME NEW ibd \in IBD, NEW flush \in BOOLEAN, ViewFlushed(ibd, flush)
      PROVE  /\ pc \notin {"idle", "down"} /\ Indexed' = Indexed /\ starting' = starting
             /\ pc' \notin {"idle", "down"} /\ invalid' = invalid
  <2>1. ConnectEffect(Connect, ibd, {}) /\ ibd \in BOOLEAN
    BY <1>7, ViewFlushedConnects
  <2>2. attach # {}
    BY <1>7 DEF ViewFlushed
  <2>3. Indexed' = Indexed
    BY <1>0, <1>c, <2>1, <2>2
  <2> QED BY <1>7, <2>3 DEF ViewFlushed
<1>8. CASE FlushBlockFile \/ SyncTree \/ FlushCoins \/ Register
  BY <1>8, <1>s DEF FlushBlockFile, SyncTree, FlushCoins, Register, memVars
<1> QED BY <1>1, <1>2, <1>3, <1>4, <1>5, <1>6, <1>7, <1>8 DEF CallStep

\* Outside the calls: how the node goes down and comes back.
LEMMA EndsAre ==
  ASSUME Ends
  PROVE  /\ OrphansKeptOrLost /\ refused' = refused /\ invalid' = invalid
         /\ \/ pc' = "down" /\ starting' = FALSE
            \/ pc = "down" /\ pc' = "best" /\ starting' = TRUE
BY DEF Ends, DiskLow, Shutdown, Crash, Lose, PowerLoss, Restart, GoDown

----------------------------------------------------------------------------
(* The maps of the orphans.                                                *)

OrphanTypes ==
  /\ refused \in SUBSET MayBeRefused
  /\ orphans \in SUBSET Blocks /\ byPrev \in SUBSET Blocks
  /\ vWorkQueue \in Seq(Blocks) /\ handled \in SUBSET Blocks
  /\ current \in Blocks \union {None}

\* Which calls are under way.
CallsOK ==
  /\ pc = "down" => orphans = {} /\ byPrev = {}
  /\ pc = "down" \/ starting => vWorkQueue = <<>> /\ current = None
  /\ pc = "idle" => ~ starting
  /\ pc \notin {"idle", "down"} /\ ~ starting => current # None

\* The maps differ by what the loop over one range has deleted from the first
\* and not yet from the second.
MapsOK ==
  /\ orphans \subseteq byPrev
  /\ byPrev \ orphans \subseteq handled
  /\ handled \cap orphans = {}
  /\ (orphans \cap Indexed) \subseteq {current} \union handled
  /\ vWorkQueue = <<>> => handled = {} /\ current \notin orphans
  /\ vWorkQueue # <<>> => /\ handled \subseteq WaitingFor(Head(vWorkQueue))
                          /\ current # None => current \in WaitingFor(Head(vWorkQueue))

\* The maps are what the property says.
LEMMA MapsSuffice == MapsOK => OrphanMapsAgree
BY DEF MapsOK, OrphanMapsAgree, Between

\* The first state.
LEMMA MapsInit == OrphanInit => OrphanTypes /\ CallsOK /\ MapsOK
<1> SUFFICES ASSUME OrphanInit PROVE OrphanTypes /\ CallsOK /\ MapsOK
  OBVIOUS
<1>1. /\ orphans = {} /\ byPrev = {} /\ vWorkQueue = <<>> /\ current = None /\ handled = {}
      /\ refused \in SUBSET MayBeRefused /\ pc = "idle" /\ starting = FALSE
  BY DEF OrphanInit, Init
<1> QED BY <1>1 DEF OrphanTypes, CallsOK, MapsOK

\* A step of chain selection with the maps kept or lost.
LEMMA KeptOrLost ==
  ASSUME Types, IndexOK, OrphanTypes, CallsOK, MapsOK, ChainStep \/ Ends
  PROVE  OrphanTypes' /\ CallsOK' /\ MapsOK'
<1>1. OrphansKeptOrLost /\ refused' = refused
  BY EndsAre DEF ChainStep
<1>2. CASE pc' = "down"
  <2>1. /\ orphans' = {} /\ byPrev' = {}
        /\ vWorkQueue' = <<>> /\ current' = None /\ handled' = {}
    BY <1>1, <1>2 DEF OrphansKeptOrLost
  <2> QED BY <1>1, <1>2, <2>1 DEF OrphanTypes, CallsOK, MapsOK
<1>3. CASE pc' # "down"
  <2>1. UNCHANGED <<orphans, byPrev, vWorkQueue, current, handled>>
    BY <1>1, <1>3 DEF OrphansKeptOrLost, orphanVars
  <2>2. OrphanTypes'
    BY <1>1, <2>1 DEF OrphanTypes
  <2>3. CASE ChainStep
    <3>1. /\ pc \notin {"idle", "down"} /\ Indexed' = Indexed
          /\ \/ starting' = starting /\ pc' \notin {"idle", "down"}
             \/ starting' = FALSE /\ pc' = "idle"
      BY <1>3, <2>3, CallIs DEF ChainStep
    <3>2. CallsOK'
      BY <1>3, <2>1, <3>1 DEF CallsOK
    <3>3. MapsOK'
      BY <2>1, <3>1 DEF MapsOK, WaitingFor
    <3> QED BY <2>2, <3>2, <3>3
  <2>4. CASE Ends
    <3>1. pc = "down" /\ pc' = "best" /\ starting' = TRUE
      BY <1>3, <2>4, EndsAre
    <3>2. /\ orphans = {} /\ byPrev = {} /\ vWorkQueue = <<>> /\ current = None /\ handled = {}
      BY <3>1 DEF CallsOK, MapsOK
    <3> QED BY <2>1, <2>2, <3>1, <3>2 DEF CallsOK, MapsOK
  <2> QED BY <2>3, <2>4
<1> QED BY <1>2, <1>3

\* A block enters AcceptBlock, from a peer or from the maps.
LEMMA AcceptMaps ==
  ASSUME Types, IndexOK, OrphanTypes, CallsOK, MapsOK,
         NEW b \in Blocks, NEW roll \in BOOLEAN, NEW ibd \in IBD, AcceptBlock(b, roll, ibd),
         current = None, current' = b, UNCHANGED <<refused, orphans, byPrev, vWorkQueue, handled>>,
         b \in orphans => vWorkQueue # <<>>,
         vWorkQueue # <<>> => b \in WaitingFor(Head(vWorkQueue))
  PROVE  OrphanTypes' /\ CallsOK' /\ MapsOK'
<1>1. pc = "idle" /\ pc' = "best" /\ starting' = starting /\ b \notin Indexed
  BY DEF AcceptBlock
<1>2. Indexed' = Indexed \union {b}
  <2>1. IndexGrows({b}) /\ status'[b] = {"data"}
    BY AcceptGrown
  <2> QED BY <2>1 DEF IndexGrows, Indexed
<1>3. b # None
  BY TreeAssumption DEF TreeAssumption
<1>4. OrphanTypes'
  BY DEF OrphanTypes
<1>5. CallsOK'
  BY <1>1, <1>3 DEF CallsOK
<1>6. None \notin orphans
  BY TreeAssumption DEF OrphanTypes, TreeAssumption
<1>7. MapsOK'
  BY <1>2, <1>3, <1>6 DEF MapsOK, WaitingFor
<1> QED BY <1>4, <1>5, <1>7

\* Every step of ProcessBlock keeps the two maps in step.
LEMMA MapsNext ==
  ASSUME Types, IndexOK, OrphanTypes, CallsOK, MapsOK, [OrphanNext]_allVars
  PROVE  OrphanTypes' /\ CallsOK' /\ MapsOK'
<1>t. /\ refused \in SUBSET MayBeRefused
      /\ orphans \in SUBSET Blocks /\ byPrev \in SUBSET Blocks
      /\ vWorkQueue \in Seq(Blocks) /\ handled \in SUBSET Blocks
      /\ current \in Blocks \union {None} /\ None \notin Blocks
  BY TreeAssumption DEF OrphanTypes, TreeAssumption
<1>v. ASSUME UNCHANGED vars PROVE Indexed' = Indexed /\ pc' = pc /\ starting' = starting
  BY <1>v DEF vars, memVars, Indexed
<1>1. ASSUME NEW b \in Blocks, KeepOrphan(b) PROVE OrphanTypes' /\ CallsOK' /\ MapsOK'
  <2>1. /\ Between /\ b \notin Indexed /\ b \notin orphans
        /\ orphans' = orphans \union {b} /\ byPrev' = byPrev \union {b}
        /\ UNCHANGED <<vars, refused, vWorkQueue, current, handled>>
    BY <1>1 DEF KeepOrphan, Known
  <2>2. pc = "idle" /\ vWorkQueue = <<>> /\ current = None /\ handled = {}
    BY <2>1 DEF Between, MapsOK
  <2>3. OrphanTypes'
    BY <1>t, <2>1 DEF OrphanTypes
  <2>4. CallsOK'
    BY <1>v, <2>1, <2>2 DEF CallsOK
  <2>5. MapsOK'
    BY <1>t, <1>v, <2>1, <2>2 DEF MapsOK
  <2> QED BY <2>3, <2>4, <2>5
<1>2. ASSUME NEW b \in Blocks, NEW roll \in BOOLEAN, NEW ibd \in IBD, ProcessBlock(b, roll, ibd)
      PROVE  OrphanTypes' /\ CallsOK' /\ MapsOK'
  <2>1. /\ AcceptBlock(b, roll, ibd) /\ current = None /\ current' = b /\ vWorkQueue = <<>>
        /\ UNCHANGED <<refused, orphans, byPrev, vWorkQueue, handled>> /\ b \notin orphans
    BY <1>2 DEF ProcessBlock, Between, Known
  <2> QED BY <2>1, AcceptMaps
<1>3. ASSUME NEW o \in Blocks, NEW roll \in BOOLEAN, NEW ibd \in IBD, AcceptOrphan(o, roll, ibd)
      PROVE  OrphanTypes' /\ CallsOK' /\ MapsOK'
  <2>1. /\ AcceptBlock(o, roll, ibd) /\ current = None /\ current' = o /\ vWorkQueue # <<>>
        /\ UNCHANGED <<refused, orphans, byPrev, vWorkQueue, handled>>
        /\ o \in WaitingFor(Head(vWorkQueue))
    BY <1>3 DEF AcceptOrphan, InLoop
  <2> QED BY <2>1, AcceptMaps
<1>4. CASE ProcessBlockFails
  <2>1. /\ pc = "idle" /\ vWorkQueue = <<>> /\ current' = None /\ UNCHANGED vars
        /\ UNCHANGED <<refused, orphans, byPrev, vWorkQueue, handled>>
    BY <1>4 DEF ProcessBlockFails
  <2>2. OrphanTypes' /\ CallsOK'
    BY <1>t, <1>v, <2>1 DEF OrphanTypes, CallsOK
  <2>3. current \notin orphans
    BY <1>4, <2>1 DEF MapsOK, ProcessBlockFails
  <2>4. MapsOK'
    BY <1>t, <1>v, <2>1, <2>3 DEF MapsOK
  <2> QED BY <2>2, <2>4
<1>5. CASE StartWork
  <2>1. /\ pc = "idle" /\ vWorkQueue = <<>> /\ current # None
        /\ vWorkQueue' = <<current>> /\ current' = None /\ UNCHANGED vars
        /\ UNCHANGED <<refused, orphans, byPrev, handled>>
    BY <1>5 DEF StartWork
  <2>2. OrphanTypes' /\ CallsOK'
    BY <1>t, <1>v, <2>1 DEF OrphanTypes, CallsOK
  <2>3. handled = {} /\ vWorkQueue' # <<>>
    BY <2>1 DEF MapsOK
  <2>4. MapsOK'
    BY <1>v, <2>1, <2>3 DEF MapsOK
  <2> QED BY <2>2, <2>4
<1>6. CASE OrphanAccepted
  <2>1. /\ pc = "idle" /\ vWorkQueue # <<>> /\ current # None
        /\ vWorkQueue' = Pushed(current) /\ orphans' = orphans \ {current}
        /\ handled' = handled \union {current} /\ current' = None /\ UNCHANGED vars
        /\ UNCHANGED <<refused, byPrev>>
    BY <1>6 DEF OrphanAccepted, InLoop, Left
  <2>2. vWorkQueue' \in Seq(Blocks) /\ vWorkQueue' # <<>> /\ Head(vWorkQueue') = Head(vWorkQueue)
    BY <1>t, <2>1 DEF Pushed
  <2>3. OrphanTypes' /\ CallsOK'
    BY <1>t, <1>v, <2>1, <2>2 DEF OrphanTypes, CallsOK
  <2>4. WaitingFor(Head(vWorkQueue))' = WaitingFor(Head(vWorkQueue))
    BY <2>1, <2>2 DEF WaitingFor
  <2>5. /\ orphans' \subseteq byPrev' /\ byPrev' \ orphans' \subseteq handled'
        /\ handled' \cap orphans' = {}
        /\ (orphans' \cap Indexed') \subseteq {current'} \union handled'
    BY <1>v, <2>1 DEF MapsOK
  <2>6. handled' \subseteq WaitingFor(Head(vWorkQueue))
    BY <2>1 DEF MapsOK
  <2> QED BY <2>1, <2>2, <2>3, <2>4, <2>5, <2>6 DEF MapsOK
<1>7. ASSUME NEW o \in Blocks, OrphanRefused(o) PROVE OrphanTypes' /\ CallsOK' /\ MapsOK'
  <2>1. /\ pc = "idle" /\ vWorkQueue # <<>> /\ current = None
        /\ o \in WaitingFor(Head(vWorkQueue))
        /\ orphans' = orphans \ {o} /\ handled' = handled \union {o}
        /\ UNCHANGED vars /\ UNCHANGED <<refused, byPrev, vWorkQueue, current>>
    BY <1>7 DEF OrphanRefused, InLoop, Left
  <2>2. OrphanTypes' /\ CallsOK'
    BY <1>t, <1>v, <2>1 DEF OrphanTypes, CallsOK
  <2>3. MapsOK'
    BY <1>v, <2>1 DEF MapsOK, WaitingFor
  <2> QED BY <2>2, <2>3
<1>8. CASE RangeDone
  <2>1. /\ pc = "idle" /\ vWorkQueue # <<>> /\ current = None
        /\ WaitingFor(Head(vWorkQueue)) \subseteq handled
        /\ byPrev' = byPrev \ WaitingFor(Head(vWorkQueue))
        /\ vWorkQueue' = Tail(vWorkQueue) /\ handled' = {}
        /\ UNCHANGED vars /\ UNCHANGED <<refused, orphans, current>>
    BY <1>8 DEF RangeDone, InLoop
  <2>2. vWorkQueue' \in Seq(Blocks)
    BY <1>t, <2>1
  <2>3. OrphanTypes' /\ CallsOK'
    BY <1>t, <1>v, <2>1, <2>2 DEF OrphanTypes, CallsOK
  <2>4. handled = WaitingFor(Head(vWorkQueue))
    BY <2>1 DEF MapsOK
  <2>5. None \notin orphans
    BY <1>t
  <2>6. MapsOK'
    BY <1>v, <2>1, <2>4, <2>5 DEF MapsOK
  <2> QED BY <2>3, <2>6
<1>9. CASE UNCHANGED allVars
  <2>1. UNCHANGED vars /\ UNCHANGED <<refused, orphans, byPrev, vWorkQueue, current, handled>>
    BY <1>9 DEF allVars, orphanVars
  <2> QED BY <1>v, <2>1 DEF OrphanTypes, CallsOK, MapsOK, WaitingFor
<1> QED BY <1>1, <1>2, <1>3, <1>4, <1>5, <1>6, <1>7, <1>8, <1>9, KeptOrLost DEF OrphanNext, WorkStep

----------------------------------------------------------------------------
(* What a call for a new block tries.                                      *)

\* A failed block on the chain of c that "check ancestry" meets.
Visible(c) == \E f \in Chain[c] \cap Failed : Height[f] >= Height[tip]

\* In a call for a new block only that block is attached: every other candidate
\* with more work than the tip has a failed block that is met.  The call fails
\* only if the chain of the block is invalid.
TryOK ==
  Running /\ FilesIntact /\ ~ starting =>
    /\ pc # "idle" => Untried \subseteq {current}
    /\ \A c \in cand : ChainWork[c] > ChainWork[tip] =>
                          Visible(c) \/ (pc # "idle" /\ c = current)
    /\ pc \in Attaching => attach \subseteq Chain[current]
    /\ current # None /\ ~ ok => Chain[current] \cap invalid # {}

\* A chain with a failed block at the height of the tip or above is not chosen.
LEMMA VisibleMet ==
  ASSUME Types, TipOK, Running, NEW b \in Blocks, Visible(b)
  PROVE  Scanned(b) \cap Failed # {}
<1>1. PICK f \in Chain[b] \cap Failed : Height[f] >= Height[tip]
  BY DEF Visible
<1>2. PICK s \in Chain[b] : /\ Scanned(b) = {c \in Chain[b] : s \in Chain[c]}
                            /\ s = Genesis \/ GetNextInMainChain(s) # None
  BY ScannedIs
<1>3. f \in Blocks /\ s \in Blocks /\ tip \in Blocks
  BY ChainSelf DEF Types, MemoryOK
<1>4. Height[f] \in Nat /\ Height[s] \in Nat /\ Height[tip] \in Nat
  BY <1>3, HeightType
<1>5. s \in Chain[f]
  <2>1. CASE s = Genesis
    BY <1>3, <2>1, GenesisOnChain
  <2>2. CASE GetNextInMainChain(s) # None
    <3>1. Height[s] + 1 <= Height[tip]
      BY <1>3, <2>2, NextIs DEF TipOK
    <3>2. Height[s] <= Height[f]
      BY <1>1, <1>4, <3>1
    <3> QED BY <1>1, <3>2, HeightOrder
  <2> QED BY <1>2, <2>1, <2>2
<1> QED BY <1>1, <1>2, <1>5

\* Failing blocks keeps a failed block in sight.
LEMMA VisibleKept ==
  ASSUME NEW c, Visible(c), Failed \subseteq Failed', tip' = tip
  PROVE  Visible(c)'
BY DEF Visible

\* A call for a new block attaches its chain.
LEMMA ChooseTries ==
  ASSUME ChainInv, TryOK, FilesIntact, ~ starting, NEW b \in Blocks, ChooseAttach(b)
  PROVE  b = current /\ attach' \subseteq Chain[current]
<1>1. /\ pc = "best" /\ b \in cand /\ (\A c \in cand : ChainWork[c] <= ChainWork[b])
      /\ ChainWork[b] # ChainWork[tip] /\ Scanned(b) \cap Failed = {}
      /\ attach' = AttachSet(b)
  BY DEF ChooseAttach, BestCandidate
<1>2. tip \in cand /\ tip \in Blocks /\ Running
  BY <1>1, TipIsCandidate DEF ChainInv, TipOK, Running, Types, MemoryOK
<1>3. ChainWork[b] > ChainWork[tip]
  BY <1>1, <1>2, WorkType
<1>4. ~ Visible(b)
  BY <1>1, <1>2, VisibleMet DEF ChainInv
<1>5. b = current
  BY <1>1, <1>2, <1>3, <1>4 DEF TryOK
<1> QED BY <1>1, <1>5, ScannedIs DEF AttachSet

\* The tip moves to the new block, and then nothing is left to attach.
LEMMA RegisterTries ==
  ASSUME ChainInv, ChainInv', TryOK, FilesIntact, ~ starting, Register
  PROVE  \A c \in cand' : ~ (ChainWork[c] > ChainWork[tip'])
<1>1. /\ pc \in Flushing /\ Running /\ tip' = Target /\ attach' = attach \ {Target}
      /\ pc' = "attach" /\ pc # "idle"
  BY DEF Register, Flushing, Running
<1>2. attach # {} /\ attach \in SUBSET Blocks /\ coinsTip \in Blocks /\ coinsTip = Target
  BY <1>1 DEF ChainInv, Types, ControlOK, MemoryOK, TipOK
<1>3. Target \in attach /\ Target \in Blocks
  BY <1>2, TargetIs
<1>4. Chain[Target] \cap Failed = {}
  BY <1>2, ValidNotFailed DEF ChainInv, CoinsOK
<1>5. Target \in Untried
  BY <1>3, <1>4 DEF Untried, ChainInv, IndexOK, TipOK
<1>6. Target = current /\ attach \subseteq Chain[Target]
  BY <1>1, <1>5 DEF TryOK, Attaching
<1>7. \A a \in attach' \union {tip'} : ChainWork[a] <= ChainWork[tip'] /\ a \in Blocks
  BY <1>1, <1>2, <1>3, <1>6, WorkOnChain, WorkType
<1>8. ASSUME NEW c \in cand' PROVE ~ (ChainWork[c] > ChainWork[tip'])
  <2>1. PICK a \in attach' \union {tip'} : ChainWork[c] <= ChainWork[a]
    BY <1>1 DEF ChainInv, AttachOK, Attaching
  <2>2. ChainWork[a] <= ChainWork[tip'] /\ a \in Blocks /\ c \in Blocks /\ tip' \in Blocks
    BY <1>1, <1>3, <1>7 DEF ChainInv, Types, MemoryOK
  <2> QED BY <2>1, <2>2, WorkType
<1> QED BY <1>8

\* A failure of the call for a new block is a failure of its chain.
LEMMA InvalidTries ==
  ASSUME ChainInv, OrphanTypes, CallsOK, TryOK, FilesIntact, ~ starting, NEW ibd \in IBD,
         BlockInvalid(ibd)
  PROVE  /\ Lowest(Bad) \in Chain[current] \cap invalid
         /\ GetNextInMainChain(Lowest(Bad)) = None => Height[Lowest(Bad)] >= Height[tip]
<1> DEFINE bad == Lowest(Bad)
<1>1. bad \in Connect \cap invalid
  BY BlockInvalidConnects DEF ChainInv
<1>2. pc = "attach" /\ attach # {} /\ Running
  BY DEF BlockInvalid, Running
<1>3. attach \in SUBSET Blocks /\ coinsTip \in Blocks /\ tip \in Blocks
  BY DEF ChainInv, Types, ControlOK, MemoryOK
<1>4. Target \in attach /\ Target \in Blocks /\ Connect \subseteq Chain[Target]
  BY <1>2, <1>3, TargetIs
<1>5. Target \in Chain[current]
  BY <1>2, <1>4 DEF TryOK, Attaching
<1>6. current \in Blocks
  BY <1>2 DEF CallsOK, OrphanTypes
<1>7. bad \in Chain[current] /\ bad \in Blocks
  BY <1>1, <1>4, <1>5, <1>6, ChainSub, ChainSelf
<1>8. ASSUME GetNextInMainChain(bad) = None PROVE Height[bad] >= Height[tip]
  <2>1. ~ (Height[bad] + 1 <= Height[tip])
    BY <1>2, <1>7, <1>8, NextIs DEF ChainInv, TipOK
  <2>2. Height[bad] \in Nat /\ Height[tip] \in Nat
    BY <1>3, <1>7, HeightType
  <2> QED BY <2>1, <2>2
<1> QED BY <1>1, <1>7, <1>8

\* A step of chain selection in a call for a new block, or the end of the call
\* of AppInit2.
LEMMA CallTries ==
  ASSUME ChainInv, ChainInv', OrphanTypes, CallsOK, TryOK, CallStep, Running', FilesIntact,
         ~ starting', current' = current
  PROVE  TryOK'
<1>t. ChainInv => Types /\ IndexOK
  BY DEF ChainInv
<1>r. Running /\ pc # "idle"
  BY <1>t, CallIs DEF Running
<1>w. ChainWork[tip] \in Nat /\ tip \in Blocks
  BY WorkType DEF ChainInv, Types, MemoryOK
<1>n. ASSUME pc' = "idle", \A c \in cand' : ChainWork[c] <= ChainWork[tip'],
             current # None /\ ~ ok' => Chain[current] \cap invalid' # {}
      PROVE  TryOK'
  <2>1. ASSUME NEW c \in cand', ChainWork[c] > ChainWork[tip'] PROVE FALSE
    <3>1. ChainWork[c] \in Nat /\ ChainWork[tip'] \in Nat /\ ChainWork[c] <= ChainWork[tip']
      BY <1>n, <2>1, WorkType DEF ChainInv, Types, MemoryOK
    <3> QED BY <2>1, <3>1
  <2> QED BY <1>n, <2>1 DEF TryOK, Attaching, Flushing
<1>k. ASSUME ReturnTo(TRUE, coinsTip)
      PROVE  /\ pc' = "idle"
             /\ invalid' = invalid => (current # None /\ ~ ok' => Chain[current] \cap invalid' # {})
  <2>1. pc' = "idle"
    BY <1>k DEF ReturnTo, Running
  <2>2. ok' = ok
    BY <1>k, <2>1 DEF ReturnTo, ChainInv, Types, ControlOK
  <2>3. starting => current = None
    BY DEF CallsOK
  <2> QED BY <1>r, <2>1, <2>2, <2>3 DEF TryOK
<1>1. CASE NothingBetter
  <2>1. PICK b \in cand : /\ \A c \in cand : ChainWork[c] <= ChainWork[b]
                          /\ b = tip \/ ChainWork[b] = ChainWork[tip]
    BY <1>1 DEF NothingBetter
  <2>2. UNCHANGED <<cand, tip, invalid>> /\ ReturnTo(TRUE, coinsTip)
    BY <1>1 DEF NothingBetter, memVars
  <2> QED BY <1>k, <1>n, <2>1, <2>2
<1>2. CASE AttachDone
  <2>1. pc = "attach" /\ attach = {} /\ UNCHANGED <<cand, tip, invalid>> /\ ReturnTo(TRUE, coinsTip)
    BY <1>2 DEF AttachDone, memVars
  <2>2. \A c \in cand : ChainWork[c] <= ChainWork[tip]
    BY <2>1 DEF ChainInv, AttachOK, Attaching
  <2> QED BY <1>k, <1>n, <2>1, <2>2
<1>3. CASE DisconnectFails
  BY <1>r, <1>3, NotStuck DEF DisconnectFails, UndoOK, ChainInv
<1>4. ASSUME NEW ibd \in IBD, ReadFails(ibd) PROVE FALSE
  BY <1>4 DEF ReadFails, GoDown, Running
<1>s. ASSUME ~ (NothingBetter \/ AttachDone \/ DisconnectFails) PROVE ~ starting
  <2>1. ASSUME NEW ibd \in IBD, BlockInvalid(ibd) PROVE ~ starting
    <3>1. InvalidBlockFound(Lowest(Bad)) /\ coinsTip' = coinsTip
      BY <2>1 DEF BlockInvalid, CoinsAfterFailure
    <3> QED BY <3>1 DEF InvalidBlockFound, ReturnTo, Running
  <2>2. ASSUME NEW b \in Blocks, MarkFailedChild(b) \/ ChooseAttach(b) PROVE ~ starting
    BY <2>2 DEF MarkFailedChild, ChooseAttach
  <2>3. ASSUME NEW ibd \in IBD, NEW flush \in BOOLEAN, ViewFlushed(ibd, flush) PROVE ~ starting
    BY <2>3 DEF ViewFlushed
  <2>4. FlushBlockFile \/ SyncTree \/ FlushCoins \/ Register => ~ starting
    BY DEF FlushBlockFile, SyncTree, FlushCoins, Register
  <2> QED BY <1>4, <1>s, <2>1, <2>2, <2>3, <2>4 DEF CallStep
<1>o. ASSUME ~ starting
      PROVE  /\ Untried \subseteq {current}
             /\ \A c \in cand : ChainWork[c] > ChainWork[tip] => Visible(c) \/ c = current
             /\ pc \in Attaching => attach \subseteq Chain[current]
             /\ current # None /\ ~ ok => Chain[current] \cap invalid # {}
  BY <1>o, <1>r DEF TryOK
<1>g. ASSUME ~ starting, cand' \subseteq cand, tip' = tip, Failed \subseteq Failed',
             Indexed' = Indexed, pc' # "idle", pc' \in Attaching => attach' \subseteq Chain[current],
             current # None /\ ~ ok' => Chain[current] \cap invalid' # {}
      PROVE  TryOK'
  <2>1. Untried' \subseteq Untried
    BY <1>g, <1>w, UntriedLess DEF ChainInv
  <2>2. \A c \in cand' : ChainWork[c] > ChainWork[tip'] => Visible(c)' \/ c = current
    BY <1>g, <1>o, VisibleKept
  <2> QED BY <1>g, <1>o, <2>1, <2>2 DEF TryOK
<1>i. Indexed' = Indexed /\ invalid' = invalid
  BY <1>t, CallIs
<1>5. ASSUME NEW b \in Blocks, MarkFailedChild(b) PROVE TryOK'
  <2>1. /\ pc' = pc /\ starting' = starting /\ tip' = tip /\ pc = "best" /\ ok' = ok
    BY <1>5 DEF MarkFailedChild
  <2>2. PICK culprit \in Scanned(b) \cap Failed :
           /\ IndexGrows(Marked(b, culprit)) /\ Grown(Marked(b, culprit), status, status', invalid)
           /\ cand' = cand \ Marked(b, culprit)
           /\ \A c \in Marked(b, culprit) : status'[c] = status[c] \union {"failedchild"}
    BY <1>t, <1>5, MarkGrown
  <2>3. \A c \in Blocks \ Marked(b, culprit) : status'[c] = status[c]
    BY <2>2 DEF IndexGrows
  <2>4. Failed \subseteq Failed'
    BY <2>2, <2>3 DEF Failed
  <2>5. pc' \notin Attaching /\ pc' # "idle"
    BY <2>1 DEF Attaching, Flushing
  <2> QED BY <1>g, <1>i, <1>o, <2>1, <2>2, <2>4, <2>5
<1>6. ASSUME NEW b \in Blocks, ChooseAttach(b) PROVE TryOK'
  <2>1. UNCHANGED <<cand, tip, status, starting, ok>> /\ pc' = "attach"
    BY <1>6 DEF ChooseAttach, memVars
  <2>2. Failed' = Failed
    BY <2>1 DEF Failed
  <2>3. attach' \subseteq Chain[current]
    BY <1>6, <2>1, ChooseTries
  <2> QED BY <1>g, <1>i, <1>o, <2>1, <2>2, <2>3
<1>c. ASSUME attach # {}, NEW S \in SUBSET Connect, NEW marked \in SUBSET (Connect \cap invalid),
             NEW ibd \in BOOLEAN, ConnectEffect(S, ibd, marked)
      PROVE  Failed' = Failed \union marked
  BY <1>c, ConnectGrown DEF ChainInv, Types, ControlOK, MemoryOK
<1>7. ASSUME NEW ibd \in IBD, NEW flush \in BOOLEAN, ViewFlushed(ibd, flush) PROVE TryOK'
  <2>1. ConnectEffect(Connect, ibd, {}) /\ ibd \in BOOLEAN
    BY <1>t, <1>7, ViewFlushedConnects
  <2>2. /\ attach # {} /\ UNCHANGED <<cand, tip, attach, starting, ok>> /\ pc' # "idle"
        /\ pc \in Attaching
    BY <1>7 DEF ViewFlushed, Attaching
  <2>3. {} \in SUBSET (Connect \cap invalid) /\ Connect \in SUBSET Connect
    OBVIOUS
  <2>4. Failed' = Failed \union {}
    BY <1>c, <2>1, <2>2, <2>3
  <2> QED BY <1>g, <1>i, <1>o, <2>2, <2>4
<1>8. CASE FlushBlockFile \/ SyncTree \/ FlushCoins
  <2>1. /\ UNCHANGED <<cand, tip, status, attach, starting, ok>> /\ pc' # "idle"
        /\ pc \in Attaching
    BY <1>8 DEF FlushBlockFile, SyncTree, FlushCoins, memVars, Attaching, Flushing
  <2>2. Failed' = Failed
    BY <2>1 DEF Failed
  <2> QED BY <1>g, <1>i, <1>o, <2>1, <2>2
<1>9. CASE Register
  <2>1. /\ tip' = Target /\ attach' \subseteq attach /\ UNCHANGED <<cand, status, starting, ok>>
        /\ pc' = "attach" /\ pc \in Attaching /\ pc \in Flushing
    BY <1>9 DEF Register, Attaching, Flushing
  <2>2. \A c \in cand' : ~ (ChainWork[c] > ChainWork[tip'])
    BY <1>9, <2>1, RegisterTries
  <2>3. Untried' \subseteq Untried
    <3>1. attach # {}
      BY <2>1 DEF ChainInv, Types, ControlOK
    <3>2. Target \in attach /\ Target \in Blocks
      BY <3>1, TargetIs DEF ChainInv, Types, ControlOK, MemoryOK
    <3>3. ChainWork[Target] > ChainWork[tip] /\ ChainWork[Target] \in Nat
      BY <3>2, WorkType DEF ChainInv, TipOK
    <3>4. ChainWork[tip'] >= ChainWork[tip]
      BY <1>w, <2>1, <3>3
    <3>5. Failed' = Failed
      BY <2>1 DEF Failed
    <3> QED BY <1>i, <3>4, <3>5, UntriedLess DEF ChainInv
  <2> QED BY <1>i, <1>o, <2>1, <2>2, <2>3 DEF TryOK
<1>10. ASSUME NEW ibd \in IBD, BlockInvalid(ibd), ~ starting PROVE TryOK'
  <2> DEFINE bad == Lowest(Bad)
  <2>1. /\ bad \in Connect \cap invalid /\ InvalidBlockFound(bad) /\ cand' = cand \ {bad}
        /\ \E S \in SUBSET Connect : ConnectEffect(S, ibd, {bad}) /\ ibd \in BOOLEAN
    BY <1>t, <1>10, BlockInvalidConnects
  <2>2. tip' = tip /\ coinsTip' = coinsTip /\ attach # {} /\ attach' = {}
    BY <1>10 DEF BlockInvalid, CoinsAfterFailure
  <2>3. /\ bad \in Chain[current] \cap invalid
        /\ GetNextInMainChain(bad) = None => Height[bad] >= Height[tip]
    BY <1>10, InvalidTries
  <2>4. Failed' = Failed \union {bad}
    <3> HIDE DEF bad
    <3>1. {bad} \in SUBSET (Connect \cap invalid)
      BY <2>1
    <3> QED BY <1>c, <2>1, <2>2, <3>1
  <2>5. Chain[current] \cap invalid' # {}
    BY <1>i, <2>3
  <2>6. CASE GetNextInMainChain(bad) # None
    <3>1. pc' = "best"
      BY <2>1, <2>6 DEF InvalidBlockFound
    <3> QED BY <1>g, <1>i, <1>10, <2>1, <2>2, <2>4, <2>5, <3>1 DEF Attaching, Flushing
  <2>7. CASE GetNextInMainChain(bad) = None
    <3>1. ReturnTo(FALSE, coinsTip)
      BY <2>1, <2>2, <2>7 DEF InvalidBlockFound
    <3>2. pc' = "idle"
      BY <1>10, <3>1 DEF ReturnTo
    <3>3. Visible(current)'
      BY <2>2, <2>3, <2>4, <2>7 DEF Visible
    <3>4. \A c \in cand' : ChainWork[c] > ChainWork[tip'] => Visible(c)'
      <4>1. \A c \in cand : ChainWork[c] > ChainWork[tip] => Visible(c) \/ c = current
        BY <1>10, <1>o
      <4>2. Failed \subseteq Failed'
        BY <2>4
      <4> QED BY <2>1, <2>2, <3>3, <4>1, <4>2, VisibleKept
    <3> QED BY <2>5, <3>2, <3>4 DEF TryOK, Attaching, Flushing
  <2> QED BY <2>6, <2>7
<1> QED BY <1>1, <1>2, <1>3, <1>4, <1>s, <1>5, <1>6, <1>7, <1>8, <1>9, <1>10 DEF CallStep

\* A new block enters the call.
LEMMA AcceptTries ==
  ASSUME ChainInv, TryOK, FilesIntact, NEW b \in Blocks, NEW roll \in BOOLEAN, NEW ibd \in IBD,
         AcceptBlock(b, roll, ibd), current' = b, CallsOK
  PROVE  TryOK'
<1>1. /\ pc = "idle" /\ pc' = "best" /\ tip' = tip /\ cand' = cand \union {b} /\ ok' = TRUE
      /\ starting' = starting
  BY DEF AcceptBlock, AddToBlockIndex
<1>2. Untried' \subseteq {b} /\ Failed \subseteq Failed'
  BY AcceptUntried DEF ChainInv
<1>3. ~ starting
  BY <1>1 DEF CallsOK
<1>4. \A c \in cand : ChainWork[c] > ChainWork[tip] => Visible(c)
  BY <1>1, <1>3 DEF TryOK, Running
<1>5. \A c \in cand' : ChainWork[c] > ChainWork[tip'] => Visible(c)' \/ c = current'
  BY <1>1, <1>2, <1>4, VisibleKept
<1> QED BY <1>1, <1>2, <1>5 DEF TryOK, Attaching, Flushing

\* The steps of the loop over the orphans.
LEMMA IdleTries ==
  ASSUME TryOK, UNCHANGED vars, pc = "idle", current' \in {current, None}
  PROVE  TryOK'
<1>1. UNCHANGED <<pc, status, cand, tip, attach, starting, ok, blk, undo, invalid>>
  BY DEF vars, memVars, fileVars
<1>2. Running' = Running /\ FilesIntact' = FilesIntact
  BY <1>1 DEF Running, FilesIntact, Indexed
<1>3. \A c : Visible(c)' = Visible(c)
  BY <1>1 DEF Visible, Failed
<1> QED BY <1>1, <1>2, <1>3 DEF TryOK, Attaching, Flushing

\* The first state.
LEMMA TryInit == OrphanInit => TryOK
<1> SUFFICES ASSUME OrphanInit PROVE TryOK
  OBVIOUS
<1>1. pc = "idle" /\ cand = {Genesis} /\ tip = Genesis /\ current = None
  BY DEF OrphanInit, Init
<1>2. ~ (ChainWork[Genesis] > ChainWork[Genesis])
  BY WorkType, ChainOfGenesis
<1> QED BY <1>1, <1>2 DEF TryOK, Attaching, Flushing

\* A node that is down only starts again.
LEMMA DownOrphans ==
  ASSUME ~ Running, [OrphanNext]_allVars, Running'
  PROVE  Restart /\ Ends
<1>0. pc = "down"
  BY DEF Running
<1>1. ~ CallStep
  BY <1>0 DEF CallStep, NothingBetter, AttachDone, MarkFailedChild, ChooseAttach, DisconnectFails,
     ReadFails, BlockInvalid, ViewFlushed, FlushBlockFile, SyncTree, FlushCoins, Register
<1>2. ~ WorkStep
  BY <1>0 DEF WorkStep, ProcessBlockFails, StartWork, OrphanAccepted, RangeDone, OrphanRefused,
     AcceptOrphan, InLoop
<1>3. ASSUME NEW b \in Blocks, KeepOrphan(b) PROVE FALSE
  BY <1>0, <1>3 DEF KeepOrphan, Between
<1>4. ASSUME NEW b \in Blocks, NEW roll \in BOOLEAN, NEW ibd \in IBD, ProcessBlock(b, roll, ibd)
      PROVE  FALSE
  BY <1>0, <1>4 DEF ProcessBlock, Between
<1>5. Ends => Restart
  BY <1>0 DEF Ends, DiskLow, Shutdown, Crash, Lose, PowerLoss
<1>6. ~ UNCHANGED allVars
  BY <1>0 DEF allVars, vars, Running
<1> QED BY <1>1, <1>2, <1>3, <1>4, <1>5, <1>6 DEF OrphanNext, ChainStep

\* Every step keeps a block that was accepted tried.
LEMMA TryNext ==
  ASSUME ChainInv, ChainInv', OrphanTypes, CallsOK, MapsOK, TryOK, [OrphanNext]_allVars
  PROVE  TryOK'
<1> SUFFICES ASSUME Running', FilesIntact', ~ starting' PROVE TryOK'
  BY DEF TryOK
<1>1. Running
  <2>1. Restart => starting'
    BY DEF Restart
  <2> QED BY <2>1, DownOrphans
<1>2. FilesIntact
  BY <1>1, OrphanStep, IntactBefore DEF ChainInv
<1>3. ASSUME NEW b \in Blocks, KeepOrphan(b) PROVE TryOK'
  BY <1>3, IdleTries DEF KeepOrphan, Between
<1>4. ASSUME NEW b \in Blocks, NEW roll \in BOOLEAN, NEW ibd \in IBD, ProcessBlock(b, roll, ibd)
      PROVE  TryOK'
  BY <1>2, <1>4, AcceptTries DEF ProcessBlock
<1>5. ASSUME NEW b \in Blocks, NEW roll \in BOOLEAN, NEW ibd \in IBD, AcceptOrphan(b, roll, ibd)
      PROVE  TryOK'
  BY <1>2, <1>5, AcceptTries DEF AcceptOrphan
<1>6. CASE ProcessBlockFails \/ StartWork \/ OrphanAccepted \/ RangeDone
  BY <1>6, IdleTries DEF ProcessBlockFails, StartWork, OrphanAccepted, RangeDone, InLoop
<1>7. ASSUME NEW o \in Blocks, OrphanRefused(o) PROVE TryOK'
  BY <1>7, IdleTries DEF OrphanRefused, InLoop
<1>8. CASE ChainStep
  <2>1. CallStep /\ current' = current
    BY <1>8 DEF ChainStep, OrphansKeptOrLost, orphanVars, Running
  <2> QED BY <1>2, <2>1, CallTries
<1>9. ~ Ends
  BY <1>1, EndsAre DEF Running
<1>10. CASE UNCHANGED allVars
  <2>1. UNCHANGED <<pc, status, cand, tip, attach, starting, ok, blk, undo, invalid, current>>
    BY <1>10 DEF allVars, vars, memVars, fileVars, orphanVars
  <2>2. \A c : Visible(c)' = Visible(c)
    BY <2>1 DEF Visible, Failed
  <2>3. Untried' = Untried
    BY <2>1 DEF Untried, Indexed, Failed
  <2> QED BY <1>1, <1>2, <2>1, <2>2, <2>3 DEF TryOK
<1> QED BY <1>3, <1>4, <1>5, <1>6, <1>7, <1>8, <1>9, <1>10 DEF OrphanNext, WorkStep

----------------------------------------------------------------------------
(* What becomes of the orphans.                                            *)

\* An orphan whose parent is indexed is about to be looked at, unless the
\* chain of the parent is invalid.
Queued(b) == \E i \in 1..Len(vWorkQueue) : vWorkQueue[i] = b
ReleaseOK ==
  Running /\ FilesIntact =>
    \A o \in orphans : Parent[o] \in Indexed =>
      \/ Chain[Parent[o]] \cap invalid # {}
      \/ Parent[o] = current
      \/ Queued(Parent[o])

\* Every step keeps an orphan whose parent arrived in the work queue's reach.
LEMMA ReleaseNext ==
  ASSUME ChainInv, OrphanTypes, CallsOK, MapsOK, TryOK, ReleaseOK, [OrphanNext]_allVars
  PROVE  ReleaseOK'
<1> SUFFICES ASSUME Running', FilesIntact', NEW o \in orphans', Parent[o] \in Indexed'
             PROVE  \/ Chain[Parent[o]] \cap invalid' # {}
                    \/ Parent[o] = current'
                    \/ Queued(Parent[o])'
  BY DEF ReleaseOK
<1>t. ChainInv => Types /\ IndexOK
  BY DEF ChainInv
<1>q. vWorkQueue \in Seq(Blocks)
  BY DEF OrphanTypes
<1>1. CASE ~ Running
  <2>1. Restart /\ Ends
    BY <1>1, DownOrphans
  <2>2. orphans' = orphans /\ orphans = {}
    BY <1>1, <2>1, EndsAre DEF OrphansKeptOrLost, orphanVars, Running, CallsOK
  <2> QED BY <2>2
<1> SUFFICES ASSUME Running PROVE \/ Chain[Parent[o]] \cap invalid' # {}
                                  \/ Parent[o] = current'
                                  \/ Queued(Parent[o])'
  BY <1>1
<1>2. FilesIntact
  BY <1>t, OrphanStep, IntactBefore
<1>3. ASSUME o \in orphans, Parent[o] \in Indexed
      PROVE  \/ Chain[Parent[o]] \cap invalid # {}
             \/ Parent[o] = current
             \/ Queued(Parent[o])
  BY <1>2, <1>3 DEF ReleaseOK
<1>v. ASSUME UNCHANGED vars PROVE invalid' = invalid /\ Indexed' = Indexed
  BY <1>v DEF vars, memVars, Indexed
<1>f. ASSUME pc = "idle", current # None, ~ ok PROVE Chain[current] \cap invalid # {}
  BY <1>f, <1>2 DEF TryOK, CallsOK
<1>4. ASSUME NEW b \in Blocks, KeepOrphan(b)
      PROVE  Chain[Parent[o]] \cap invalid' # {} \/ Parent[o] = current' \/ Queued(Parent[o])'
  <2>1. /\ orphans' = orphans \union {b} /\ Parent[b] \notin Indexed
        /\ UNCHANGED vars /\ UNCHANGED <<vWorkQueue, current>>
    BY <1>4 DEF KeepOrphan
  <2> QED BY <1>3, <1>v, <2>1 DEF Queued
<1>a. ASSUME NEW b \in Blocks, NEW roll \in BOOLEAN, NEW ibd \in IBD, AcceptBlock(b, roll, ibd),
             current = None, current' = b, UNCHANGED <<orphans, vWorkQueue>>
      PROVE  Chain[Parent[o]] \cap invalid' # {} \/ Parent[o] = current' \/ Queued(Parent[o])'
  <2>1. IndexGrows({b})
    BY <1>t, <1>a, AcceptGrown
  <2>2. Parent[o] = b \/ Parent[o] \in Indexed
    BY <2>1 DEF IndexGrows, Indexed
  <2>3. invalid' = invalid
    BY <1>a DEF AcceptBlock
  <2>4. None \notin Indexed
    BY TreeAssumption DEF Indexed, TreeAssumption
  <2> QED BY <1>3, <1>a, <2>2, <2>3, <2>4 DEF Queued
<1>5. ASSUME NEW b \in Blocks, NEW roll \in BOOLEAN, NEW ibd \in IBD,
             ProcessBlock(b, roll, ibd) \/ AcceptOrphan(b, roll, ibd)
      PROVE  Chain[Parent[o]] \cap invalid' # {} \/ Parent[o] = current' \/ Queued(Parent[o])'
  BY <1>5, <1>a DEF ProcessBlock, AcceptOrphan, Between
<1>6. CASE ProcessBlockFails
  <2>1. /\ pc = "idle" /\ current # None /\ ~ ok /\ UNCHANGED vars
        /\ UNCHANGED <<orphans, vWorkQueue>>
    BY <1>6 DEF ProcessBlockFails
  <2> QED BY <1>3, <1>v, <1>f, <2>1 DEF Queued
<1>7. CASE StartWork
  <2>1. /\ vWorkQueue' = <<current>> /\ vWorkQueue = <<>> /\ UNCHANGED vars /\ orphans' = orphans
    BY <1>7 DEF StartWork
  <2>2. /\ 1 \in 1..Len(vWorkQueue')
        /\ vWorkQueue'[1] = current
    BY <2>1
  <2>3. ~ Queued(Parent[o])
    BY <2>1 DEF Queued
  <2> QED BY <1>3, <1>v, <2>1, <2>2, <2>3 DEF Queued
<1>8. CASE OrphanAccepted
  <2>1. /\ pc = "idle" /\ current # None /\ UNCHANGED vars
        /\ vWorkQueue' = Pushed(current) /\ orphans' \subseteq orphans
    BY <1>8 DEF OrphanAccepted, InLoop, Left
  <2>2. Queued(Parent[o]) => Queued(Parent[o])'
    BY <1>q, <2>1 DEF Queued, Pushed
  <2>3. CASE ok
    <3>1. vWorkQueue' = Append(vWorkQueue, current)
      BY <2>1, <2>3 DEF Pushed
    <3>2. Len(vWorkQueue') \in 1..Len(vWorkQueue') /\ vWorkQueue'[Len(vWorkQueue')] = current
      BY <1>q, <3>1
    <3> QED BY <1>3, <1>v, <2>1, <2>2, <3>2 DEF Queued
  <2>4. CASE ~ ok
    BY <1>3, <1>v, <1>f, <2>1, <2>2, <2>4
  <2> QED BY <2>3, <2>4
<1>9. ASSUME NEW b \in Blocks, OrphanRefused(b)
      PROVE  Chain[Parent[o]] \cap invalid' # {} \/ Parent[o] = current' \/ Queued(Parent[o])'
  BY <1>3, <1>v, <1>9 DEF OrphanRefused, Left, Queued
<1>10. CASE RangeDone
  <2>1. /\ vWorkQueue # <<>> /\ current = None /\ UNCHANGED vars
        /\ WaitingFor(Head(vWorkQueue)) \subseteq handled
        /\ vWorkQueue' = Tail(vWorkQueue) /\ UNCHANGED <<orphans, current>>
    BY <1>10 DEF RangeDone, InLoop
  <2>2. Parent[o] # Head(vWorkQueue)
    BY <2>1 DEF MapsOK, WaitingFor
  <2>3. ASSUME Queued(Parent[o]) PROVE Queued(Parent[o])'
    <3>1. PICK i \in 1..Len(vWorkQueue) : vWorkQueue[i] = Parent[o]
      BY <2>3 DEF Queued
    <3>2. i # 1
      BY <1>q, <2>1, <2>2, <3>1
    <3>3. i - 1 \in 1..Len(vWorkQueue') /\ vWorkQueue'[i - 1] = vWorkQueue[i]
      BY <1>q, <2>1, <3>1, <3>2
    <3> QED BY <3>1, <3>3 DEF Queued
  <2> QED BY <1>3, <1>v, <2>1, <2>3
<1>11. CASE ChainStep
  <2>1. CallStep /\ UNCHANGED <<orphans, vWorkQueue, current>>
    BY <1>11 DEF ChainStep, OrphansKeptOrLost, orphanVars, Running
  <2>2. Indexed' = Indexed /\ invalid' = invalid
    BY <1>t, <2>1, CallIs
  <2> QED BY <1>3, <2>1, <2>2 DEF Queued
<1>12. ~ Ends
  BY EndsAre DEF Running
<1>13. CASE UNCHANGED allVars
  BY <1>3, <1>v, <1>13 DEF allVars, orphanVars, Queued
<1> QED BY <1>4, <1>5, <1>6, <1>7, <1>8, <1>9, <1>10, <1>11, <1>12, <1>13 DEF OrphanNext, WorkStep

----------------------------------------------------------------------------
(* The theorems.                                                           *)

\* The inductive invariant.
OrphanInv == ChainInv /\ OrphanTypes /\ CallsOK /\ MapsOK /\ TryOK /\ ReleaseOK

\* Every reachable state satisfies it.
LEMMA OrphanInvariant == OrphanSpec => []OrphanInv
<1>1. OrphanInit => OrphanInv
  <2> SUFFICES ASSUME OrphanInit PROVE OrphanInv
    OBVIOUS
  <2>1. ChainInv
    BY ChainInvInit DEF OrphanInit
  <2>2. ReleaseOK
    BY DEF OrphanInit, ReleaseOK
  <2> QED BY <2>1, <2>2, MapsInit, TryInit DEF OrphanInv
<1>2. OrphanInv /\ [OrphanNext]_allVars => OrphanInv'
  <2> SUFFICES ASSUME OrphanInv, [OrphanNext]_allVars PROVE OrphanInv'
    OBVIOUS
  <2>1. ChainInv'
    BY OrphanStep, ChainInvNext DEF OrphanInv
  <2>2. OrphanTypes' /\ CallsOK' /\ MapsOK'
    BY MapsNext DEF OrphanInv, ChainInv
  <2>3. TryOK'
    BY <2>1, TryNext DEF OrphanInv
  <2>4. ReleaseOK'
    BY ReleaseNext DEF OrphanInv
  <2> QED BY <2>1, <2>2, <2>3, <2>4 DEF OrphanInv
<1> QED BY <1>1, <1>2, PTL DEF OrphanSpec

\* Every variable of ProcessBlock and of chain selection keeps its type.
THEOREM OrphansTypeCorrect == OrphanSpec => []OrphanTypeOK
<1>1. OrphanInv => OrphanTypeOK
  BY TypesSuffice DEF OrphanInv, ChainInv, OrphanTypes, OrphanTypeOK
<1> QED BY <1>1, OrphanInvariant, PTL

\* The two maps of orphans stay in step: between calls they hold the same
\* blocks and none that is indexed, and inside the loop they differ by what
\* the range under way has deleted.
THEOREM OrphanMapsAlwaysAgree == OrphanSpec => []OrphanMapsAgree
<1>1. OrphanInv => OrphanMapsAgree
  BY MapsSuffice DEF OrphanInv
<1> QED BY <1>1, OrphanInvariant, PTL

\* While the files hold what the index counts on (always, outside the initial
\* download), no orphan is left behind a parent that is indexed and valid: a
\* call that gives up without looking at the orphans of its block has found
\* the chain of that block invalid.
THEOREM OrphansAlwaysReleased == OrphanSpec => []((ibdSeen => FilesIntact) => OrphansReleased)
<1>1. OrphanInv => ((ibdSeen => FilesIntact) => OrphansReleased)
  <2> SUFFICES ASSUME OrphanInv, ibdSeen => FilesIntact, Between,
                      NEW o \in orphans, Parent[o] \in Indexed
               PROVE  Chain[Parent[o]] \cap invalid # {}
    BY DEF OrphansReleased
  <2>1. Running /\ vWorkQueue = <<>> /\ current = None
    BY DEF Between, Running
  <2>2. FilesIntact
    BY <2>1, MemoryIntact DEF OrphanInv, ChainInv, FilesKept
  <2>3. ~ Queued(Parent[o])
    BY <2>1 DEF Queued
  <2>4. None \notin Indexed
    BY TreeAssumption DEF Indexed, TreeAssumption
  <2> QED BY <2>1, <2>2, <2>3, <2>4 DEF OrphanInv, ReleaseOK
<1> QED BY <1>1, OrphanInvariant, PTL

\* With the same proviso, the order in which blocks arrive does not matter:
\* between calls the tip has at least the work of every valid chain whose
\* blocks have all arrived.
THEOREM BestOfArrivedAlways == OrphanSpec => []((ibdSeen => FilesIntact) => BestOfArrived)
<1>1. OrphanInv /\ ((ibdSeen => FilesIntact) => OrphansReleased)
        => ((ibdSeen => FilesIntact) => BestOfArrived)
  <2> SUFFICES ASSUME OrphanInv, ibdSeen => FilesIntact, OrphansReleased, Between, NEW b \in Blocks,
                      Chain[b] \subseteq Indexed \union orphans,
                      Chain[b] \cap (invalid \union refused) = {}
               PROVE  ChainWork[b] <= ChainWork[tip]
    BY DEF BestOfArrived
  <2>1. Running /\ pc = "idle"
    BY DEF Between, Running
  <2>2. FilesIntact
    BY <2>1, MemoryIntact DEF OrphanInv, ChainInv, FilesKept
  <2>3. Untried = {}
    BY <2>1, <2>2 DEF OrphanInv, ChainInv, BestOK
  <2>4. Chain[b] \cap Failed = {}
    BY ValidNotFailed DEF OrphanInv, ChainInv, Valid
  <2>5. CASE b \in Indexed
    <3>1. ~ (ChainWork[b] > ChainWork[tip])
      BY <2>3, <2>4, <2>5 DEF Untried
    <3>2. ChainWork[b] \in Nat /\ ChainWork[tip] \in Nat
      BY WorkType DEF OrphanInv, ChainInv, Types, MemoryOK
    <3> QED BY <3>1, <3>2
  <2>6. CASE b \notin Indexed
    <3> DEFINE S == Chain[b] \ Indexed
               o == Lowest(S)
    <3>1. S \in SUBSET Blocks /\ S # {}
      BY <2>6, ChainSelf
    <3>2. o \in S /\ \A c \in S : ChainWork[o] <= ChainWork[c]
      <4> HIDE DEF S
      <4> QED BY <3>1, LowestIs
    <3> HIDE DEF o
    <3>3. o \in Blocks /\ o \in Chain[b] /\ o \in orphans /\ o # Genesis
      <4>1. Genesis \in Indexed
        BY ChainOfGenesis DEF OrphanInv, ChainInv, IndexOK, GoodIndex, Indexed
      <4> QED BY <3>1, <3>2, <4>1
    <3>4. Parent[o] \in Chain[b] /\ Parent[o] \in Blocks
      BY <3>3, ChainParent, ChainSelf
    <3>5. ChainWork[o] > ChainWork[Parent[o]]
      BY <3>3, WorkAssumption DEF WorkAssumption
    <3>6. Parent[o] \in Indexed
      <4>1. ChainWork[o] \in Nat /\ ChainWork[Parent[o]] \in Nat
        BY <3>3, <3>4, WorkType
      <4> QED BY <3>2, <3>4, <3>5, <4>1
    <3>7. Chain[Parent[o]] \cap invalid # {}
      BY <3>3, <3>6 DEF OrphansReleased
    <3>8. Chain[Parent[o]] \subseteq Chain[b]
      BY <3>4, ChainSub
    <3> QED BY <3>7, <3>8
  <2> QED BY <2>5, <2>6
<1> QED BY <1>1, OrphanInvariant, OrphansAlwaysReleased, PTL
=============================================================================
