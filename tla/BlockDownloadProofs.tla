------------------------ MODULE BlockDownloadProofs ------------------------
(***************************************************************************)
(* Proofs about BlockDownload, for any number of nodes, any tree of        *)
(* blocks, any size of a batch and any number of broken connections.       *)
(*                                                                         *)
(* What is on its way between two nodes is sound at both of its ends:      *)
(* InFlight says that a node offers and sends only blocks it has, and asks *)
(* only for blocks that the other node has.  It needs IndexSound: the      *)
(* index of a node is closed under parents and has no orphan, its best     *)
(* block is in it and is the highest, and no orphan stays whose parent is  *)
(* known.  TypeOK needs both: the requests for what is below an orphan     *)
(* name the root of the orphan, which exists because the genesis block is  *)
(* not an orphan.                                                          *)
(***************************************************************************)
EXTENDS BlockDownload, FoldProofs, FiniteSetTheorems, SequenceTheorems

----------------------------------------------------------------------------
(* The tree of blocks.                                                     *)

\* Induction over the tree: a set with every block whose parent is in it.
LEMMA TreeInduction ==
  ASSUME NEW S, Genesis \in S,
         \A b \in Blocks \ {Genesis} : Parent[b] \in S => b \in S
  PROVE  Blocks \subseteq S
<1> DEFINE T == Blocks \ S
<1> SUFFICES ASSUME T # {} PROVE FALSE
  OBVIOUS
<1>1. PICK b \in T : b = Genesis \/ Parent[b] \notin T
  <2>1. T \in SUBSET Blocks
    OBVIOUS
  <2> HIDE DEF T
  <2> QED BY <2>1, DownloadAssumption
<1>2. b # Genesis /\ Parent[b] \in Blocks
  BY <1>1, DownloadAssumption
<1> QED BY <1>1, <1>2

\* What is below a block: the block itself, and blocks only.
LEMMA BelowSelf ==
  ASSUME NEW b \in Blocks
  PROVE  b \in Below[b] /\ Below[b] \subseteq Blocks
BY DEF Below

\* Below[b] is in every closed set with b.
LEMMA BelowLeast ==
  ASSUME NEW b \in Blocks, NEW S \in SUBSET Blocks, Closed(S), b \in S
  PROVE  Below[b] \subseteq S
BY DEF Below

\* Below[b] is closed.
LEMMA BelowClosed ==
  ASSUME NEW b \in Blocks
  PROVE  Closed(Below[b])
<1> SUFFICES ASSUME NEW c \in Below[b] \ {Genesis} PROVE Parent[c] \in Below[b]
  BY DEF Closed
<1>1. c \in Blocks /\ Parent[c] \in Blocks
  BY DownloadAssumption DEF Below
<1>2. ASSUME NEW S \in SUBSET Blocks, b \in S, Closed(S) PROVE Parent[c] \in S
  <2>1. c \in S
    BY <1>2 DEF Below
  <2> QED BY <1>2, <2>1 DEF Closed
<1> QED BY <1>1, <1>2 DEF Below

\* What is below a block of Below[b] is in it.
LEMMA BelowSub ==
  ASSUME NEW b \in Blocks, NEW c \in Below[b]
  PROVE  c \in Blocks /\ Below[c] \subseteq Below[b]
BY BelowSelf, BelowLeast, BelowClosed

\* A block is on top of what is below its parent.
LEMMA BelowOfParent ==
  ASSUME NEW b \in Blocks \ {Genesis}
  PROVE  /\ Parent[b] \in Blocks
         /\ Below[b] = Below[Parent[b]] \cup {b}
<1> DEFINE S == Below[Parent[b]] \cup {b}
<1>1. Parent[b] \in Blocks
  BY DownloadAssumption
<1>2. S \in SUBSET Blocks /\ b \in S
  BY <1>1, BelowSelf
<1>3. Closed(S)
  BY <1>1, BelowSelf, BelowClosed DEF Closed
<1>4. Below[b] \subseteq S
  <2> HIDE DEF S
  <2> QED BY <1>2, <1>3, BelowLeast
<1>5. Parent[b] \in Below[b]
  BY BelowSelf, BelowClosed DEF Closed
<1> QED BY <1>1, <1>4, <1>5, BelowSelf, BelowSub

\* Nothing is below the genesis block.
LEMMA BelowGenesis == Below[Genesis] = {Genesis}
<1> DEFINE S == {Genesis}
<1>1. S \in SUBSET Blocks /\ Genesis \in S /\ Genesis \in Blocks
  BY DownloadAssumption
<1>2. Closed(S)
  BY DEF Closed
<1>3. Below[Genesis] \subseteq S
  <2> HIDE DEF S
  <2> QED BY <1>1, <1>2, BelowLeast
<1> QED BY <1>1, <1>3, BelowSelf

\* The genesis block is below every block, and there are finitely many.
LEMMA BelowFinite ==
  ASSUME NEW b \in Blocks
  PROVE  Genesis \in Below[b] /\ IsFiniteSet(Below[b])
<1> DEFINE S == {c \in Blocks : Genesis \in Below[c] /\ IsFiniteSet(Below[c])}
<1>1. Genesis \in S
  BY BelowGenesis, FS_Singleton, DownloadAssumption
<1>2. ASSUME NEW c \in Blocks \ {Genesis}, Parent[c] \in S PROVE c \in S
  BY <1>2, BelowOfParent, FS_AddElement
<1>3. Blocks \subseteq S
  <2> HIDE DEF S
  <2> QED BY <1>1, <1>2, TreeInduction
<1> QED BY <1>3

\* A block is not below its parent: parents do not go round in a circle.
LEMMA NotBelowParent ==
  ASSUME NEW b \in Blocks \ {Genesis}
  PROVE  b \notin Below[Parent[b]]
<1> DEFINE S == {c \in Blocks : \A d \in Blocks \ {Genesis} : Parent[d] = c => d \notin Below[c]}
<1>0. Genesis \in S
  BY BelowGenesis, DownloadAssumption
<1>1. ASSUME NEW c \in Blocks \ {Genesis}, Parent[c] \in S PROVE c \in S
  <2> SUFFICES ASSUME NEW d \in Blocks \ {Genesis}, Parent[d] = c, d \in Below[c] PROVE FALSE
    OBVIOUS
  <2>1. Parent[c] \in Blocks /\ Below[c] = Below[Parent[c]] \cup {c} /\ c \notin Below[Parent[c]]
    BY <1>1, BelowOfParent
  <2>2. CASE d = c
    \* then Parent[c] = c and c is below its parent
    BY <2>1, <2>2, BelowSelf
  <2>3. CASE d \in Below[Parent[c]]
    <3>1. Closed(Below[Parent[c]])
      BY <2>1, BelowClosed
    <3>2. c \in Below[Parent[c]]
      BY <2>3, <3>1 DEF Closed
    <3> QED BY <2>1, <3>2
  <2> QED BY <2>1, <2>2, <2>3
<1>2. Blocks \subseteq S
  <2> HIDE DEF S
  <2> QED BY <1>0, <1>1, TreeInduction
<1>3. Parent[b] \in S
  BY <1>2, DownloadAssumption
<1> QED BY <1>3

\* The height of a block is one more than that of its parent.
LEMMA HeightStep ==
  /\ Height[Genesis] = 0
  /\ \A b \in Blocks : Height[b] \in Nat
  /\ \A b \in Blocks \ {Genesis} : Height[b] = Height[Parent[b]] + 1
<1>1. \A b \in Blocks : Cardinality(Below[b]) \in Nat /\ Height[b] = Cardinality(Below[b]) - 1
  BY BelowFinite, FS_CardinalityType DEF Height
<1>2. Cardinality(Below[Genesis]) = 1 /\ Genesis \in Blocks
  BY BelowGenesis, FS_Singleton, DownloadAssumption
<1>3. ASSUME NEW b \in Blocks \ {Genesis}
      PROVE  Cardinality(Below[b]) = Cardinality(Below[Parent[b]]) + 1
  BY BelowOfParent, BelowFinite, NotBelowParent, FS_AddElement
<1>4. \A b \in Blocks : Cardinality(Below[b]) >= 1
  <2> SUFFICES ASSUME NEW b \in Blocks PROVE Cardinality(Below[b]) # 0
    BY <1>1
  <2> QED BY BelowFinite, FS_EmptySet
<1>5. \A b \in Blocks \ {Genesis} : Parent[b] \in Blocks
  BY DownloadAssumption
<1> QED BY <1>1, <1>2, <1>3, <1>4, <1>5

\* What is below a block is lower.
LEMMA HeightBelow ==
  ASSUME NEW b \in Blocks, NEW a \in Below[b]
  PROVE  Height[a] <= Height[b] /\ (a # b => Height[a] < Height[b])
<1> DEFINE S == {c \in Blocks : \A d \in Below[c] :
                   Height[d] <= Height[c] /\ (d # c => Height[d] < Height[c])}
<1>0. Genesis \in S
  BY BelowGenesis, HeightStep, DownloadAssumption
<1>1. ASSUME NEW c \in Blocks \ {Genesis}, Parent[c] \in S PROVE c \in S
  <2>1. Parent[c] \in Blocks /\ Below[c] = Below[Parent[c]] \cup {c}
    BY BelowOfParent
  <2>2. Height[c] = Height[Parent[c]] + 1 /\ Height[c] \in Nat /\ Height[Parent[c]] \in Nat
    BY <2>1, HeightStep
  <2> SUFFICES ASSUME NEW d \in Below[c]
               PROVE  Height[d] <= Height[c] /\ (d # c => Height[d] < Height[c])
    OBVIOUS
  <2>3. d \in Blocks /\ Height[d] \in Nat
    BY BelowSelf, HeightStep
  <2>4. CASE d = c
    BY <2>2, <2>4
  <2>5. CASE d \in Below[Parent[c]]
    <3>1. Height[d] <= Height[Parent[c]]
      BY <1>1, <2>5
    <3> QED BY <2>2, <2>3, <3>1
  <2> QED BY <2>1, <2>4, <2>5
<1>2. Blocks \subseteq S
  <2> HIDE DEF S
  <2> QED BY <1>0, <1>1, TreeInduction
<1> QED BY <1>2

\* There is a block of every height below a block.
LEMMA HeightOnto ==
  ASSUME NEW b \in Blocks, NEW i \in 0..Height[b]
  PROVE  \E a \in Below[b] : Height[a] = i
<1> DEFINE S == {c \in Blocks : \A j \in 0..Height[c] : \E a \in Below[c] : Height[a] = j}
<1>0. Genesis \in S
  BY BelowGenesis, HeightStep, DownloadAssumption
<1>1. ASSUME NEW c \in Blocks \ {Genesis}, Parent[c] \in S PROVE c \in S
  <2>1. Parent[c] \in Blocks /\ Below[c] = Below[Parent[c]] \cup {c}
    BY BelowOfParent
  <2>2. Height[c] = Height[Parent[c]] + 1 /\ Height[c] \in Nat /\ Height[Parent[c]] \in Nat
    BY <2>1, HeightStep
  <2> SUFFICES ASSUME NEW j \in 0..Height[c] PROVE \E a \in Below[c] : Height[a] = j
    OBVIOUS
  <2>3. CASE j = Height[c]
    BY <2>1, <2>3
  <2>4. CASE j # Height[c]
    <3>1. j \in 0..Height[Parent[c]]
      BY <2>2, <2>4
    <3> QED BY <1>1, <2>1, <3>1
  <2> QED BY <2>3, <2>4
<1>2. Blocks \subseteq S
  <2> HIDE DEF S
  <2> QED BY <1>0, <1>1, TreeInduction
<1> QED BY <1>2

\* Chain[b] lists what is below b by height, from the genesis block on.
LEMMA ChainIs ==
  ASSUME NEW b \in Blocks
  PROVE  /\ Chain[b] \in Seq(Blocks) /\ Len(Chain[b]) = Height[b] + 1
         /\ \A i \in 1..Len(Chain[b]) : Chain[b][i] \in Below[b] /\ Height[Chain[b][i]] = i - 1
         /\ Chain[b][1] = Genesis
<1> DEFINE n == Height[b] + 1
<1>0. n \in Nat /\ 1 \in 1..n /\ \A i \in 1..n : i - 1 \in 0..Height[b]
  BY HeightStep
<1>1. Chain[b] = [i \in 1..n |-> CHOOSE a \in Below[b] : Height[a] = i - 1]
  BY DEF Chain
<1>2. ASSUME NEW i \in 1..n PROVE Chain[b][i] \in Below[b] /\ Height[Chain[b][i]] = i - 1
  <2>1. \E a \in Below[b] : Height[a] = i - 1
    BY <1>0, HeightOnto
  <2> HIDE DEF n
  <2> QED BY <1>1, <2>1
<1> HIDE DEF n
<1>3. Chain[b] \in [1..n -> Blocks]
  BY <1>1, <1>2, BelowSelf
<1>4. Chain[b] \in Seq(Blocks) /\ Len(Chain[b]) = n
  BY <1>0, <1>3
<1>5. Chain[b][1] = Genesis
  <2>1. Chain[b][1] \in Below[b] /\ Height[Chain[b][1]] = 0
    BY <1>0, <1>2
  <2>2. Chain[b][1] \in Blocks
    BY <2>1, BelowSelf
  <2>3. Genesis \in Below[Chain[b][1]] /\ Height[Genesis] = 0
    BY <2>2, BelowFinite, HeightStep
  <2> QED BY <2>1, <2>2, <2>3, HeightBelow
<1> QED BY <1>2, <1>4, <1>5 DEF n

----------------------------------------------------------------------------
(* Sequences.                                                              *)

\* A sequence over a set is one over a larger set.
LEMMA SeqMono ==
  ASSUME NEW S, NEW T, S \subseteq T
  PROVE  Seq(S) \subseteq Seq(T)
<1> SUFFICES ASSUME NEW s \in Seq(S) PROVE s \in Seq(T)
  OBVIOUS
<1>1. Len(s) \in Nat /\ s \in [1..Len(s) -> S]
  OBVIOUS
<1>2. s \in [1..Len(s) -> T]
  BY <1>1
<1> QED BY <1>1, <1>2

\* What Filter keeps.
LEMMA FilterIs ==
  ASSUME NEW B, NEW s \in Seq(B), NEW S
  PROVE  Filter(s, S) \in Seq(B \cap S)
<1> DEFINE n == Len(s)
           A == Seq(B \cap S)
           base == <<>>
           T == [k \in 1..n |-> [a \in A |-> IF s[k] \in S THEN Append(a, s[k]) ELSE a]]
           Eq(g) == g = [u \in SUBSET (1..n) |->
                           IF u = {} THEN base
                           ELSE IF s[Max(u)] \in S THEN Append(g[u \ {Max(u)}], s[Max(u)])
                                                   ELSE g[u \ {Max(u)}]]
           iter == CHOOSE g : Eq(g)
<1>1. n \in Nat /\ DOMAIN s = 1..n /\ \A k \in 1..n : s[k] \in B
  OBVIOUS
<1>2. Steps(n, A, T)
  BY <1>1 DEF Steps
<1>3. base \in A
  OBVIOUS
<1>4. Filter(s, S) = iter[1..n]
  BY <1>1 DEF Filter, FoldLeft, MapThenFoldSet
<1>5. \A u \in SUBSET (1..n) : u # {} => Max(u) \in 1..n
  BY <1>1, MaxIn
<1> HIDE DEF n, base, A
<1>6. \E g : Eq(g)
  <2>1. PICK g : g \in [SUBSET (1..n) -> A] /\ LeftFold(n, A, base, T, g)
    <3> HIDE DEF T
    <3> QED BY <1>1, <1>2, <1>3, FoldLeftExists
  <2>2. ASSUME NEW u \in SUBSET (1..n), u # {}
        PROVE  g[u] = IF s[Max(u)] \in S THEN Append(g[u \ {Max(u)}], s[Max(u)])
                                         ELSE g[u \ {Max(u)}]
    <3>1. g[u \ {Max(u)}] \in A
      BY <2>1
    <3> QED BY <1>5, <2>1, <2>2, <3>1 DEF LeftFold
  <2>3. g[{}] = base
    BY <2>1 DEF LeftFold
  <2>4. Eq(g)
    BY <2>1, <2>2, <2>3
  <2> HIDE DEF Eq
  <2> QED BY <2>4
<1>7. Eq(iter)
  <2> HIDE DEF Eq
  <2> QED BY <1>6
<1> HIDE DEF iter
<1>8. LeftFold(n, A, base, T, iter)
  BY <1>5, <1>7 DEF LeftFold
<1>9. PICK acc : LeftRuns(n, A, base, T, acc) /\ acc[n] = iter[1..n]
  <2> HIDE DEF T, Eq
  <2> QED BY <1>1, <1>2, <1>3, <1>8, LeftRun
<1>10. acc[n] \in A
  BY <1>1, <1>9 DEF LeftRuns
<1> QED BY <1>4, <1>9, <1>10 DEF A

\* What SendMessages announces is some of what is to be sent.
LEMMA UnknownIs ==
  ASSUME NEW B, NEW p, p.toSend \in Seq(B)
  PROVE  Unknown(p) \in Seq(B)
<1> DEFINE s == p.toSend
           n == Len(s)
           A == Seq(B)
           base == <<>>
           T == [k \in 1..n |-> [a \in A |->
                   IF s[k] \in p.known \cup ToSet(a) THEN a ELSE Append(a, s[k])]]
           Eq(g) == g = [u \in SUBSET (1..n) |->
                           IF u = {} THEN base
                           ELSE IF s[Max(u)] \in p.known \cup ToSet(g[u \ {Max(u)}])
                                  THEN g[u \ {Max(u)}]
                                  ELSE Append(g[u \ {Max(u)}], s[Max(u)])]
           iter == CHOOSE g : Eq(g)
<1>1. n \in Nat /\ DOMAIN s = 1..n /\ \A k \in 1..n : s[k] \in B
  OBVIOUS
<1>2. Steps(n, A, T)
  BY <1>1 DEF Steps
<1>3. base \in A
  OBVIOUS
<1>4. Unknown(p) = iter[1..n]
  BY <1>1 DEF Unknown, FoldLeft, MapThenFoldSet
<1>5. \A u \in SUBSET (1..n) : u # {} => Max(u) \in 1..n
  BY <1>1, MaxIn
<1> HIDE DEF s, n, base, A
<1>6. \E g : Eq(g)
  <2>1. PICK g : g \in [SUBSET (1..n) -> A] /\ LeftFold(n, A, base, T, g)
    <3> HIDE DEF T
    <3> QED BY <1>1, <1>2, <1>3, FoldLeftExists
  <2>2. ASSUME NEW u \in SUBSET (1..n), u # {}
        PROVE  g[u] = IF s[Max(u)] \in p.known \cup ToSet(g[u \ {Max(u)}])
                        THEN g[u \ {Max(u)}]
                        ELSE Append(g[u \ {Max(u)}], s[Max(u)])
    <3>1. g[u \ {Max(u)}] \in A
      BY <2>1
    <3> QED BY <1>5, <2>1, <2>2, <3>1 DEF LeftFold
  <2>3. g[{}] = base
    BY <2>1 DEF LeftFold
  <2>4. Eq(g)
    BY <2>1, <2>2, <2>3
  <2> HIDE DEF Eq
  <2> QED BY <2>4
<1>7. Eq(iter)
  <2> HIDE DEF Eq
  <2> QED BY <1>6
<1> HIDE DEF iter
<1>8. LeftFold(n, A, base, T, iter)
  BY <1>5, <1>7 DEF LeftFold
<1>9. PICK acc : LeftRuns(n, A, base, T, acc) /\ acc[n] = iter[1..n]
  <2> HIDE DEF T, Eq
  <2> QED BY <1>1, <1>2, <1>3, <1>8, LeftRun
<1>10. acc[n] \in A
  BY <1>1, <1>9 DEF LeftRuns
<1> QED BY <1>4, <1>9, <1>10 DEF A

----------------------------------------------------------------------------
(* The invariant.                                                          *)

\* What a node with the blocks mine keeps for a peer with the blocks theirs,
\* and what it may have sent to it: it announces and sends what it has, and
\* asks for what the peer has.
PeerRecords(mine, theirs) ==
  [known : SUBSET (mine \cup theirs), toSend : Seq(mine),
   due : Seq(theirs), waiting : Seq(theirs),
   last : (Blocks \cup {NoHash}) \X (Blocks \cup {NoHash}),
   hashContinue : mine \cup {NoHash}, untriggered : BOOLEAN]

MessagesFrom(mine, theirs) ==
  [type : {"inv"}, hashes : Seq(mine) \ {<<>>}]
    \cup [type : {"getdata"}, hashes : Seq(theirs) \ {<<>>}]
    \cup [type : {"getblocks"}, begin : mine, end : Blocks \cup {NoHash}]
    \cup [type : {"block"}, block : mine]

Conns(mine, theirs) ==
  [p : PeerRecords(mine, theirs), out : Seq(MessagesFrom(mine, theirs))]

\* The blocks at the two ends of a connection.
Ours(l) == mapBlockIndex[l[1]]
Theirs(l) == mapBlockIndex[l[2]]

\* The maps of a node.
Maps ==
  /\ mapBlockIndex \in [Nodes -> SUBSET Blocks]
  /\ mapOrphanBlocks \in [Nodes -> SUBSET Blocks]
  /\ best \in [Nodes -> Blocks]
  /\ mapAlreadyAskedFor \in [Nodes -> SUBSET Blocks]
  /\ syncNode \in [Nodes -> Nodes \cup {NoHash}]
  /\ breaks \in 0..MaxBreaks

\* The index of a node is closed under parents; its best block is in it and no
\* block of it is higher; an orphan is not in it, nor is its parent: an orphan
\* whose parent arrives is taken in at once (ProcessBlock), in any order of
\* arrival.
IndexSound ==
  \A n \in Nodes :
    /\ Genesis \in mapBlockIndex[n] /\ Closed(mapBlockIndex[n])
    /\ best[n] \in mapBlockIndex[n]
    /\ \A b \in mapBlockIndex[n] : Height[b] <= Height[best[n]]
    /\ \A o \in mapOrphanBlocks[n] :
         o \notin mapBlockIndex[n] /\ Parent[o] \notin mapBlockIndex[n]

\* Whatever is on its way or waits to be sent fits both ends: an inv or a block
\* is of blocks the sender has, a getblocks starts at one, and a getdata, sent
\* or still due, asks only for blocks the other node has, so that
\* ProcessGetData skips none of them.
InFlight ==
  /\ peer = [l \in Links |-> peer[l]] /\ net = [l \in Links |-> net[l]]
  /\ \A l \in Links :
       /\ peer[l] \in PeerRecords(Ours(l), Theirs(l))
       /\ net[l] \in Seq(MessagesFrom(Ours(l), Theirs(l)))

DownloadInv == Maps /\ IndexSound /\ InFlight

----------------------------------------------------------------------------
(* Handlers.                                                               *)

\* A connection and its other direction.
LEMMA LinkEnds ==
  ASSUME NEW l \in Links
  PROVE  /\ l[1] \in Nodes /\ l[2] \in Nodes /\ l[1] # l[2]
         /\ Back(l) \in Links /\ Back(l) # l /\ Back(l)[1] = l[2] /\ Back(l)[2] = l[1]
         /\ Back(Back(l)) = l
BY DEF Links, Back

\* A record and a message stay good when indexes grow.
LEMMA GrowOK ==
  ASSUME NEW A, NEW B, NEW A2, NEW B2, A \subseteq A2, B \subseteq B2
  PROVE  /\ PeerRecords(A, B) \subseteq PeerRecords(A2, B2)
         /\ MessagesFrom(A, B) \subseteq MessagesFrom(A2, B2)
         /\ Seq(MessagesFrom(A, B)) \subseteq Seq(MessagesFrom(A2, B2))
<1>1. Seq(A) \subseteq Seq(A2) /\ Seq(B) \subseteq Seq(B2)
  BY SeqMono
<1>2. PeerRecords(A, B) \subseteq PeerRecords(A2, B2)
  BY <1>1 DEF PeerRecords
<1>3. MessagesFrom(A, B) \subseteq MessagesFrom(A2, B2)
  BY <1>1 DEF MessagesFrom
<1> QED BY <1>2, <1>3, SeqMono

\* An orphan has a root: the lowest of the orphans it stands on.
LEMMA RootIs ==
  ASSUME NEW orphans \in SUBSET Blocks, Genesis \notin orphans, NEW b \in orphans
  PROVE  /\ GetOrphanRoot(orphans, b) \in Below[b] \cap orphans
         /\ GetOrphanRoot(orphans, b) \in Blocks
         /\ Parent[GetOrphanRoot(orphans, b)] \notin orphans
<1> DEFINE Root(c, r) == /\ r \in Below[c] \cap orphans
                         /\ Parent[r] \notin orphans
                         /\ \A a \in Below[c] : Height[a] >= Height[r] => a \in orphans
           S == {c \in Blocks : c \in orphans => \E r : Root(c, r)}
<1>1. Genesis \in S
  BY DownloadAssumption
<1>2. ASSUME NEW c \in Blocks \ {Genesis}, Parent[c] \in S PROVE c \in S
  <2> SUFFICES ASSUME c \in orphans PROVE \E r : Root(c, r)
    OBVIOUS
  <2>1. Parent[c] \in Blocks /\ Below[c] = Below[Parent[c]] \cup {c}
    BY BelowOfParent
  <2>2. CASE Parent[c] \notin orphans
    <3>1. \A a \in Below[c] : Height[a] >= Height[c] => a = c
      <4> SUFFICES ASSUME NEW a \in Below[c], a # c PROVE ~(Height[a] >= Height[c])
        OBVIOUS
      <4>1. Height[a] < Height[c] /\ Height[a] \in Nat /\ Height[c] \in Nat
        BY HeightBelow, HeightStep, BelowSelf
      <4> QED BY <4>1
    <3>2. Root(c, c)
      BY <2>2, <3>1, BelowSelf
    <3> QED BY <3>2
  <2>3. CASE Parent[c] \in orphans
    <3>1. PICK r : Root(Parent[c], r)
      BY <1>2, <2>3
    <3>2. Root(c, r)
      BY <2>1, <3>1
    <3> QED BY <3>2
  <2> QED BY <2>2, <2>3
<1>3. Blocks \subseteq S
  <2> HIDE DEF S
  <2> QED BY <1>1, <1>2, TreeInduction
<1>4. \E r : Root(b, r)
  BY <1>3
<1>5. GetOrphanRoot(orphans, b) = CHOOSE r \in Below[b] \cap orphans : Root(b, r)
  BY DEF GetOrphanRoot
<1>6. Root(b, GetOrphanRoot(orphans, b))
  BY <1>4, <1>5
<1> QED BY <1>6

\* A message is added to the output, and PushGetBlocks adds at most one.
LEMMA PushMessageOK ==
  ASSUME NEW A, NEW B, NEW c \in Conns(A, B), NEW m \in MessagesFrom(A, B)
  PROVE  PushMessage(c, m) \in Conns(A, B) /\ PushMessage(c, m).p = c.p
<1> DEFINE P == PeerRecords(A, B)
           M == MessagesFrom(A, B)
<1>1. c \in [p : P, out : Seq(M)] /\ m \in M
  BY DEF Conns
<1> HIDE DEF P, M
<1>2. PushMessage(c, m) = [p |-> c.p, out |-> Append(c.out, m)]
  <2> DEFINE x == Append(c.out, m)
  <2>1. PushMessage(c, m) = [c EXCEPT !.out = x]
    BY DEF PushMessage
  <2> HIDE DEF x
  <2>2. [c EXCEPT !.out = x] = [p |-> c.p, out |-> x]
    BY <1>1
  <2> QED BY <2>1, <2>2 DEF x
<1>3. [p |-> c.p, out |-> Append(c.out, m)] \in [p : P, out : Seq(M)]
  BY <1>1
<1> QED BY <1>2, <1>3 DEF Conns, P, M
\* The request of PushGetBlocks starts at a block of the node.
LEMMA PushGetBlocksOK ==
  ASSUME NEW A \in SUBSET Blocks, NEW B, NEW c \in Conns(A, B), NEW begin \in A,
         NEW end \in Blocks \cup {NoHash}
  PROVE  PushGetBlocks(c, begin, end) \in Conns(A, B)
<1> DEFINE P == PeerRecords(A, B)
           M == MessagesFrom(A, B)
           q == [c.p EXCEPT !.last = <<begin, end>>]
           d == [c EXCEPT !.p.last = <<begin, end>>]
<1>1. c \in [p : P, out : Seq(M)]
  BY DEF Conns
<1>2. q \in P
  BY <1>1 DEF PeerRecords
<1>3. d = [p |-> q, out |-> c.out]
  BY <1>1
<1>4. d \in Conns(A, B)
  <2> HIDE DEF P, M, q, d
  <2>1. [p |-> q, out |-> c.out] \in [p : P, out : Seq(M)]
    BY <1>1, <1>2
  <2> QED BY <1>3, <2>1 DEF Conns, P, M
<1>5. GetBlocks(begin, end) \in MessagesFrom(A, B)
  BY DEF GetBlocks, MessagesFrom
<1> HIDE DEF d
<1>6. PushMessage(d, GetBlocks(begin, end)) \in Conns(A, B)
  BY <1>4, <1>5, PushMessageOK
<1> QED BY <1>6 DEF PushGetBlocks, d

\* The state of a node, as the handlers use it.
LEMMA NodeOK ==
  ASSUME DownloadInv, NEW n \in Nodes
  PROVE  /\ mapBlockIndex[n] \in SUBSET Blocks /\ mapOrphanBlocks[n] \in SUBSET Blocks
         /\ Genesis \in mapBlockIndex[n] /\ Genesis \notin mapOrphanBlocks[n]
         /\ best[n] \in mapBlockIndex[n] /\ best[n] \in Blocks
BY DEF DownloadInv, Maps, IndexSound

\* A handler starts with a good record and no output.
LEMMA BeginOK ==
  ASSUME DownloadInv, NEW l \in Links
  PROVE  Begin(l) \in Conns(Ours(l), Theirs(l)) /\ Begin(l).p = peer[l] /\ Begin(l).out = <<>>
<1> DEFINE P == PeerRecords(Ours(l), Theirs(l))
           M == MessagesFrom(Ours(l), Theirs(l))
<1>1. peer[l] \in P
  BY DEF DownloadInv, InFlight
<1> HIDE DEF P, M
<1>2. [p |-> peer[l], out |-> <<>>] \in [p : P, out : Seq(M)]
  BY <1>1
<1> QED BY <1>2 DEF Begin, Conns, P, M

\* What a peer announces or sends is known to be had by it.
LEMMA LearnOK ==
  ASSUME NEW A, NEW B, NEW c \in Conns(A, B), NEW b \in B
  PROVE  [c EXCEPT !.p.known = @ \cup {b}] \in Conns(A, B)
<1> DEFINE P == PeerRecords(A, B)
           M == MessagesFrom(A, B)
           q == [c.p EXCEPT !.known = @ \cup {b}]
<1>1. c \in [p : P, out : Seq(M)]
  BY DEF Conns
<1>2. q \in P
  BY <1>1 DEF PeerRecords
<1> HIDE DEF P, M
<1>3. [c EXCEPT !.p.known = @ \cup {b}] = [p |-> q, out |-> c.out]
  <2> DEFINE x == c.p.known \cup {b}
  <2> HIDE DEF x
  <2>1. [c EXCEPT !.p.known = x] = [p |-> [c.p EXCEPT !.known = x], out |-> c.out]
    BY <1>1
  <2> QED BY <2>1 DEF x
<1> HIDE DEF q
<1>4. [p |-> q, out |-> c.out] \in [p : P, out : Seq(M)]
  BY <1>1, <1>2
<1> QED BY <1>3, <1>4 DEF Conns, P, M

\* AskFor notes a block of the peer.
LEMMA AskForOK ==
  ASSUME NEW A, NEW B, NEW c \in Conns(A, B), NEW b \in B, NEW late \in BOOLEAN
  PROVE  AskFor(c, b, late) \in Conns(A, B)
<1> DEFINE P == PeerRecords(A, B)
           M == MessagesFrom(A, B)
           w == [c.p EXCEPT !.waiting = Append(@, b)]
           d == [c.p EXCEPT !.due = Append(@, b)]
<1>1. c \in [p : P, out : Seq(M)]
  BY DEF Conns
<1>2. w \in P /\ d \in P
  <2>1. c.p \in P /\ Append(c.p.waiting, b) \in Seq(B) /\ Append(c.p.due, b) \in Seq(B)
    BY <1>1 DEF PeerRecords
  <2>2. /\ w = [c.p EXCEPT !.waiting = Append(c.p.waiting, b)]
        /\ d = [c.p EXCEPT !.due = Append(c.p.due, b)]
    BY <2>1
  <2> DEFINE x == Append(c.p.waiting, b)
             y == Append(c.p.due, b)
  <2> HIDE DEF x, y, w, d
  <2>3. [c.p EXCEPT !.waiting = x] \in P /\ [c.p EXCEPT !.due = y] \in P
    BY <2>1 DEF PeerRecords, x, y
  <2> QED BY <2>2, <2>3 DEF x, y
<1> HIDE DEF P, M
<1>3. /\ [c EXCEPT !.p.waiting = Append(@, b)] = [p |-> w, out |-> c.out]
      /\ [c EXCEPT !.p.due = Append(@, b)] = [p |-> d, out |-> c.out]
  <2> DEFINE x == Append(c.p.waiting, b)
             y == Append(c.p.due, b)
  <2> HIDE DEF x, y
  <2>1. /\ [c EXCEPT !.p.waiting = x] = [p |-> [c.p EXCEPT !.waiting = x], out |-> c.out]
        /\ [c EXCEPT !.p.due = y] = [p |-> [c.p EXCEPT !.due = y], out |-> c.out]
    BY <1>1
  <2> QED BY <2>1 DEF x, y
<1> HIDE DEF w, d
<1>4. /\ [p |-> w, out |-> c.out] \in [p : P, out : Seq(M)]
      /\ [p |-> d, out |-> c.out] \in [p : P, out : Seq(M)]
  BY <1>1, <1>2
<1> QED BY <1>3, <1>4 DEF AskFor, Conns, P, M

\* An entry of an inv message.
LEMMA InvEntryOK ==
  ASSUME DownloadInv, NEW l \in Links, NEW c \in Conns(Ours(l), Theirs(l)),
         NEW b \in Theirs(l), NEW isLast \in BOOLEAN, NEW late
  PROVE  InvEntry(l[1], c, b, isLast, late) \in Conns(Ours(l), Theirs(l))
<1> DEFINE n == l[1]
           k == [c EXCEPT !.p.known = @ \cup {b}]
           C == Conns(Ours(l), Theirs(l))
           root == GetOrphanRoot(mapOrphanBlocks[n], b)
<1>1. n \in Nodes /\ Ours(l) = mapBlockIndex[n]
  BY LinkEnds DEF Ours
<1>2. k \in C
  BY LearnOK
<1>3. Ours(l) \in SUBSET Blocks /\ best[n] \in Ours(l) /\ NoHash \in Blocks \cup {NoHash}
  BY <1>1, NodeOK
<1> HIDE DEF k, C, root
<1>4. AskFor(k, b, b \in late) \in C
  <2>1. (b \in late) \in BOOLEAN
    OBVIOUS
  <2> DEFINE x == b \in late
  <2> HIDE DEF x
  <2>2. AskFor(k, b, x) \in C
    BY <1>2, <2>1, AskForOK DEF C, x
  <2> QED BY <2>2 DEF x
<1>5. b \in mapOrphanBlocks[n] => PushGetBlocks(k, best[n], root) \in C
  <2> SUFFICES ASSUME b \in mapOrphanBlocks[n] PROVE PushGetBlocks(k, best[n], root) \in C
    OBVIOUS
  <2>1. root \in Blocks \cup {NoHash}
    BY <1>1, NodeOK, RootIs DEF root
  <2> QED BY <1>2, <1>3, <2>1, PushGetBlocksOK DEF C
<1>6. b \in mapBlockIndex[n] => PushGetBlocks(k, b, NoHash) \in C
  BY <1>1, <1>2, <1>3, PushGetBlocksOK DEF C
<1>7. InvEntry(l[1], c, b, isLast, late)
        = CASE ~AlreadyHave(n, b) -> AskFor(k, b, b \in late)
            [] b \in mapOrphanBlocks[n] -> PushGetBlocks(k, best[n], root)
            [] b \in mapBlockIndex[n] ->
                 IF isLast THEN PushGetBlocks(k, b, NoHash) ELSE k
  BY DEF InvEntry, k, root
<1>8. CASE ~AlreadyHave(n, b)
  <2>1. b \notin mapOrphanBlocks[n] /\ b \notin mapBlockIndex[n]
    BY <1>8 DEF AlreadyHave
  <2>2. InvEntry(l[1], c, b, isLast, late) = AskFor(k, b, b \in late)
    BY <1>7, <1>8, <2>1
  <2> QED BY <1>4, <2>2 DEF C
<1>9. CASE AlreadyHave(n, b) /\ b \in mapOrphanBlocks[n]
  <2>1. b \notin mapBlockIndex[n]
    BY <1>1, <1>9 DEF DownloadInv, IndexSound
  <2>2. InvEntry(l[1], c, b, isLast, late) = PushGetBlocks(k, best[n], root)
    BY <1>7, <1>9, <2>1
  <2> QED BY <1>5, <1>9, <2>2 DEF C
<1>10. CASE AlreadyHave(n, b) /\ b \notin mapOrphanBlocks[n]
  <2>1. b \in mapBlockIndex[n]
    BY <1>10 DEF AlreadyHave
  <2>2. InvEntry(l[1], c, b, isLast, late) = IF isLast THEN PushGetBlocks(k, b, NoHash) ELSE k
    BY <1>7, <1>10, <2>1
  <2> QED BY <1>2, <1>6, <2>1, <2>2 DEF C
<1> QED BY <1>8, <1>9, <1>10

\* An inv message is a run over its entries.
LEMMA InvEntriesOK ==
  ASSUME DownloadInv, NEW l \in Links, NEW hashes \in Seq(Theirs(l)), NEW late
  PROVE  InvEntries(l, hashes, late) \in Conns(Ours(l), Theirs(l))
<1> DEFINE n == Len(hashes)
           A == Conns(Ours(l), Theirs(l))
           base == Begin(l)
           Op(c, i) == InvEntry(l[1], c, hashes[i], i = Len(hashes), late)
           d == [i \in DOMAIN hashes |-> i]
           T == [k \in 1..n |-> [a \in A |-> Op(a, k)]]
           Eq(g) == g = [u \in SUBSET (1..n) |->
                           IF u = {} THEN base ELSE Op(g[u \ {Max(u)}], d[Max(u)])]
           iter == CHOOSE g : Eq(g)
<1>1. /\ n \in Nat /\ DOMAIN hashes = 1..n /\ \A k \in 1..n : hashes[k] \in Theirs(l)
      /\ DOMAIN d = 1..n /\ \A k \in 1..n : d[k] = k
  OBVIOUS
<1>2. \A k \in 1..n : \A a \in A : Op(a, k) \in A
  <2> SUFFICES ASSUME NEW k \in 1..n, NEW a \in A PROVE Op(a, k) \in A
    OBVIOUS
  <2>1. hashes[k] \in Theirs(l) /\ (k = Len(hashes)) \in BOOLEAN
    BY <1>1
  <2> QED BY <2>1, InvEntryOK
<1>3. base \in A
  BY BeginOK
<1>4. InvEntries(l, hashes, late) = iter[1..n]
  <2>1. InvEntries(l, hashes, late) = FoldLeft(LAMBDA c, i : Op(c, i), base, d)
    BY DEF InvEntries, FoldLeftDomain
  <2> HIDE DEF d, Op, base
  <2> QED BY <1>1, <2>1 DEF FoldLeft, MapThenFoldSet
<1>5. \A u \in SUBSET (1..n) : u # {} => Max(u) \in 1..n
  BY <1>1, MaxIn
<1> HIDE DEF n, base, A, d, Op
<1>t. Steps(n, A, T)
  BY <1>2 DEF Steps
<1>6. \E g : Eq(g)
  <2>1. PICK g : g \in [SUBSET (1..n) -> A] /\ LeftFold(n, A, base, T, g)
    <3> HIDE DEF T
    <3> QED BY <1>1, <1>t, <1>3, FoldLeftExists
  <2>2. ASSUME NEW u \in SUBSET (1..n), u # {}
        PROVE  g[u] = Op(g[u \ {Max(u)}], d[Max(u)])
    <3>1. g[u \ {Max(u)}] \in A
      BY <2>1
    <3>2. d[Max(u)] = Max(u)
      BY <1>1, <1>5, <2>2
    <3> QED BY <1>5, <2>1, <2>2, <3>1, <3>2 DEF LeftFold
  <2>3. g[{}] = base
    BY <2>1 DEF LeftFold
  <2>4. Eq(g)
    BY <2>1, <2>2, <2>3
  <2> HIDE DEF Eq
  <2> QED BY <2>4
<1>7. Eq(iter)
  <2> HIDE DEF Eq
  <2> QED BY <1>6
<1> HIDE DEF iter
<1>8. LeftFold(n, A, base, T, iter)
  <2>1. iter[{}] = base
    BY <1>7
  <2>2. ASSUME NEW u \in SUBSET (1..n), u # {}, iter[u \ {Max(u)}] \in A
        PROVE  iter[u] = T[Max(u)][iter[u \ {Max(u)}]]
    <3>1. Max(u) \in 1..n /\ d[Max(u)] = Max(u)
      BY <1>1, <1>5, <2>2
    <3>2. iter[u] = Op(iter[u \ {Max(u)}], Max(u))
      BY <1>7, <2>2, <3>1
    <3>3. T[Max(u)][iter[u \ {Max(u)}]] = Op(iter[u \ {Max(u)}], Max(u))
      <4> HIDE DEF Eq
      <4> QED BY <2>2, <3>1
    <3> QED BY <3>2, <3>3
  <2> HIDE DEF T, Eq
  <2> QED BY <2>1, <2>2 DEF LeftFold
<1>9. PICK acc : LeftRuns(n, A, base, T, acc) /\ acc[n] = iter[1..n]
  <2> HIDE DEF T, Eq
  <2> QED BY <1>1, <1>t, <1>3, <1>8, LeftRun
<1>10. acc[n] \in A
  BY <1>1, <1>9 DEF LeftRuns
<1> QED BY <1>4, <1>9, <1>10 DEF A

\* A block that is served, and the inv that follows the last one of a batch.
LEMMA ServeOK ==
  ASSUME DownloadInv, NEW l \in Links, NEW c \in Conns(Ours(l), Theirs(l)), NEW b \in Ours(l)
  PROVE  Serve(l[1], c, b) \in Conns(Ours(l), Theirs(l))
<1> DEFINE n == l[1]
           A == Ours(l)
           B == Theirs(l)
           d == PushMessage(c, Block(b))
           q == [d.p EXCEPT !.hashContinue = NoHash]
           e == [d EXCEPT !.p.hashContinue = NoHash]
<1>1. n \in Nodes /\ A = mapBlockIndex[n] /\ best[n] \in A
  BY LinkEnds, NodeOK DEF Ours
<1>2. Block(b) \in MessagesFrom(A, B)
  BY DEF Block, MessagesFrom
<1>3. d \in Conns(A, B)
  BY <1>2, PushMessageOK
<1>4. Inv(<<best[n]>>) \in MessagesFrom(A, B)
  <2>1. ASSUME NEW S, NEW x \in S PROVE <<x>> \in Seq(S) /\ <<x>> # <<>>
    OBVIOUS
  <2> HIDE DEF A, n
  <2>2. <<best[n]>> \in Seq(A) \ {<<>>}
    BY <1>1, <2>1
  <2> QED BY <2>2 DEF Inv, MessagesFrom
<1> HIDE DEF d
<1>5. e \in Conns(A, B)
  <2> DEFINE P == PeerRecords(A, B)
             M == MessagesFrom(A, B)
  <2>1. d \in [p : P, out : Seq(M)]
    BY <1>3 DEF Conns
  <2>2. q \in P
    BY <2>1 DEF PeerRecords
  <2> HIDE DEF P, M
  <2>3. e = [p |-> q, out |-> d.out]
    BY <2>1
  <2> HIDE DEF q, e
  <2>4. [p |-> q, out |-> d.out] \in [p : P, out : Seq(M)]
    BY <2>1, <2>2
  <2> QED BY <2>3, <2>4 DEF Conns, P, M
<1> HIDE DEF e
<1>6. PushMessage(e, Inv(<<best[n]>>)) \in Conns(A, B)
  BY <1>4, <1>5, PushMessageOK
<1> QED BY <1>3, <1>6 DEF Serve, d, e

\* A getdata message is a run over its entries.
LEMMA ServeAllOK ==
  ASSUME DownloadInv, NEW l \in Links, NEW hashes \in Seq(Ours(l))
  PROVE  ServeAll(l, hashes) \in Conns(Ours(l), Theirs(l))
<1> DEFINE n == Len(hashes)
           A == Conns(Ours(l), Theirs(l))
           base == Begin(l)
           Op(c, b) == Serve(l[1], c, b)
           T == [k \in 1..n |-> [a \in A |-> Op(a, hashes[k])]]
           Eq(g) == g = [u \in SUBSET (1..n) |->
                           IF u = {} THEN base ELSE Op(g[u \ {Max(u)}], hashes[Max(u)])]
           iter == CHOOSE g : Eq(g)
<1>1. n \in Nat /\ DOMAIN hashes = 1..n /\ \A k \in 1..n : hashes[k] \in Ours(l)
  OBVIOUS
<1>2. \A k \in 1..n : \A a \in A : Op(a, hashes[k]) \in A
  BY <1>1, ServeOK
<1>3. base \in A
  BY BeginOK
<1>4. ServeAll(l, hashes) = iter[1..n]
  <2>1. ServeAll(l, hashes) = FoldLeft(LAMBDA c, b : Op(c, b), base, hashes)
    BY DEF ServeAll
  <2> HIDE DEF Op, base
  <2> QED BY <1>1, <2>1 DEF FoldLeft, MapThenFoldSet
<1>5. \A u \in SUBSET (1..n) : u # {} => Max(u) \in 1..n
  BY <1>1, MaxIn
<1> HIDE DEF n, base, A, Op
<1>t. Steps(n, A, T)
  BY <1>2 DEF Steps
<1>6. \E g : Eq(g)
  <2>1. PICK g : g \in [SUBSET (1..n) -> A] /\ LeftFold(n, A, base, T, g)
    <3> HIDE DEF T
    <3> QED BY <1>1, <1>t, <1>3, FoldLeftExists
  <2>2. ASSUME NEW u \in SUBSET (1..n), u # {}
        PROVE  g[u] = Op(g[u \ {Max(u)}], hashes[Max(u)])
    <3>1. g[u \ {Max(u)}] \in A
      BY <2>1
    <3> QED BY <1>5, <2>1, <2>2, <3>1 DEF LeftFold
  <2>3. g[{}] = base
    BY <2>1 DEF LeftFold
  <2>4. Eq(g)
    BY <2>1, <2>2, <2>3
  <2> HIDE DEF Eq
  <2> QED BY <2>4
<1>7. Eq(iter)
  <2> HIDE DEF Eq
  <2> QED BY <1>6
<1> HIDE DEF iter
<1>8. LeftFold(n, A, base, T, iter)
  BY <1>5, <1>7 DEF LeftFold
<1>9. PICK acc : LeftRuns(n, A, base, T, acc) /\ acc[n] = iter[1..n]
  <2> HIDE DEF T, Eq
  <2> QED BY <1>1, <1>t, <1>3, <1>8, LeftRun
<1>10. acc[n] \in A
  BY <1>1, <1>9 DEF LeftRuns
<1> QED BY <1>4, <1>9, <1>10 DEF A

\* Of two chains one has a last block that is below the other's.
LEMMA ForkIs ==
  ASSUME NEW a \in Blocks, NEW begin \in Blocks
  PROVE  \E i \in 1..Len(Chain[a]) :
            /\ Chain[a][i] \in Below[begin]
            /\ i = Len(Chain[a]) \/ Chain[a][i + 1] \notin Below[begin]
<1> DEFINE mine == Chain[a]
           n == Len(mine)
           T == {j \in 0..(n - 1) : mine[n - j] \in Below[begin]}
<1>1. n \in Nat /\ n >= 1 /\ mine[1] \in Below[begin]
  BY ChainIs, HeightStep, BelowFinite
<1> HIDE DEF mine, n
<1>2. T \in SUBSET Nat /\ T # {}
  <2>1. n - 1 \in 0..(n - 1) /\ n - (n - 1) = 1
    BY <1>1
  <2>2. n - 1 \in T
    BY <1>1, <2>1
  <2> QED BY <2>2
<1>3. PICK j \in T : \A y \in T : ~(y < j)
  <2> HIDE DEF T
  <2> QED BY <1>2, LeastNumber
<1>4. n - j \in 1..n /\ mine[n - j] \in Below[begin]
  BY <1>1, <1>3
<1>5. n - j = n \/ mine[(n - j) + 1] \notin Below[begin]
  <2> SUFFICES ASSUME n - j # n, mine[(n - j) + 1] \in Below[begin] PROVE FALSE
    OBVIOUS
  <2>1. j - 1 \in 0..(n - 1) /\ n - (j - 1) = (n - j) + 1 /\ j - 1 < j
    BY <1>1, <1>3
  <2>2. j - 1 \in T
    BY <2>1
  <2> QED BY <1>3, <2>1, <2>2
<1> QED BY <1>4, <1>5 DEF mine, n

\* The answer to getblocks is a part of the main chain.
LEMMA AfterLocatorIs ==
  ASSUME NEW n \in Nodes, best[n] \in Blocks, NEW begin \in Blocks, NEW end
  PROVE  AfterLocator(n, begin, end) \in Seq(Below[best[n]])
<1> DEFINE mine == Chain[best[n]]
           fork == CHOOSE i \in 1..Len(mine) :
                     /\ mine[i] \in Below[begin]
                     /\ i = Len(mine) \/ mine[i + 1] \notin Below[begin]
           stop == {i \in fork + 1..Len(mine) : mine[i] = end}
           upto == IF stop = {} THEN Len(mine) ELSE (CHOOSE i \in stop : TRUE) - 1
           e == IF upto - fork > nLimit THEN fork + nLimit ELSE upto
<1>1. Len(mine) \in Nat /\ mine \in Seq(Below[best[n]])
  <2>1. mine \in Seq(Blocks) /\ \A i \in 1..Len(mine) : mine[i] \in Below[best[n]]
    BY ChainIs
  <2>2. mine \in [1..Len(mine) -> Below[best[n]]] /\ Len(mine) \in Nat
    BY <2>1
  <2> QED BY <2>2
<1>2. fork \in 1..Len(mine)
  <2>1. \E i \in 1..Len(mine) : /\ mine[i] \in Below[begin]
                                /\ i = Len(mine) \/ mine[i + 1] \notin Below[begin]
    BY ForkIs
  <2> HIDE DEF mine
  <2> QED BY <2>1
<1>3. AfterLocator(n, begin, end) = SubSeq(mine, fork + 1, e)
  BY DEF AfterLocator
<1> HIDE DEF mine, fork
<1>4. upto \in fork..Len(mine)
  <2>1. CASE stop = {}
    BY <1>1, <1>2, <2>1
  <2>2. CASE stop # {}
    <3>1. (CHOOSE i \in stop : TRUE) \in stop
      BY <2>2
    <3>2. (CHOOSE i \in stop : TRUE) \in fork + 1..Len(mine)
      BY <3>1
    <3> QED BY <1>1, <1>2, <2>2, <3>2
  <2> QED BY <2>1, <2>2
<1> HIDE DEF upto, stop
<1>5. e \in fork..Len(mine)
  BY <1>1, <1>2, <1>4, DownloadAssumption
<1> HIDE DEF e
<1>6. fork + 1 \in Int /\ e \in Int /\ \A i \in (fork + 1)..e : mine[i] \in Below[best[n]]
  BY <1>1, <1>2, <1>5
<1>7. SubSeq(mine, fork + 1, e) \in Seq(Below[best[n]])
  BY <1>6, SubSeqProperties
<1> QED BY <1>3, <1>7

----------------------------------------------------------------------------
(* What a step leaves on its way.                                          *)

\* The first message from a peer, and the rest.
LEMMA HeadOK ==
  ASSUME DownloadInv, NEW l \in Links, net[Back(l)] # <<>>
  PROVE  /\ Head(net[Back(l)]) \in MessagesFrom(Theirs(l), Ours(l))
         /\ Tail(net[Back(l)]) \in Seq(MessagesFrom(Theirs(l), Ours(l)))
<1>1. net[Back(l)] \in Seq(MessagesFrom(Theirs(l), Ours(l)))
  BY LinkEnds DEF DownloadInv, InFlight, Ours, Theirs
<1> QED BY <1>1, HeadTailProperties

\* The maps only grow, so what was good stays good.
LEMMA StillOK ==
  ASSUME DownloadInv, NEW l \in Links,
         \A n \in Nodes : mapBlockIndex[n] \subseteq mapBlockIndex'[n]
  PROVE  /\ PeerRecords(Ours(l), Theirs(l)) \subseteq PeerRecords(Ours(l)', Theirs(l)')
         /\ Seq(MessagesFrom(Ours(l), Theirs(l))) \subseteq Seq(MessagesFrom(Ours(l)', Theirs(l)'))
         /\ peer[l] \in PeerRecords(Ours(l)', Theirs(l)')
         /\ net[l] \in Seq(MessagesFrom(Ours(l)', Theirs(l)'))
<1> DEFINE A == Ours(l)
           B == Theirs(l)
           A2 == Ours(l)'
           B2 == Theirs(l)'
<1>1. A \subseteq A2 /\ B \subseteq B2
  BY LinkEnds DEF Ours, Theirs
<1>2. peer[l] \in PeerRecords(A, B) /\ net[l] \in Seq(MessagesFrom(A, B))
  BY DEF DownloadInv, InFlight
<1> HIDE DEF A, B, A2, B2
<1>3. /\ PeerRecords(A, B) \subseteq PeerRecords(A2, B2)
      /\ Seq(MessagesFrom(A, B)) \subseteq Seq(MessagesFrom(A2, B2))
  BY <1>1, GrowOK
<1> QED BY <1>2, <1>3 DEF A, B, A2, B2

\* New records and streams that are good on each connection.
LEMMA InFlightIs ==
  ASSUME NEW P, NEW M, peer' = P, net' = M,
         P = [l \in Links |-> P[l]], M = [l \in Links |-> M[l]],
         \A l \in Links : /\ P[l] \in PeerRecords(Ours(l)', Theirs(l)')
                          /\ M[l] \in Seq(MessagesFrom(Ours(l)', Theirs(l)'))
  PROVE  InFlight'
BY DEF InFlight, Ours, Theirs

\* A handler that ends, with the index as it was.
LEMMA EndOK ==
  ASSUME DownloadInv, NEW l \in Links, net[Back(l)] # <<>>,
         NEW c \in Conns(Ours(l), Theirs(l)), End(l, c), UNCHANGED mapBlockIndex
  PROVE  InFlight'
<1> DEFINE P == [peer EXCEPT ![l] = c.p]
           M == [net EXCEPT ![l] = @ \o c.out, ![Back(l)] = Tail(@)]
<1>1. peer' = P /\ net' = M
  BY DEF End
<1>2. peer = [k \in Links |-> peer[k]] /\ net = [k \in Links |-> net[k]]
  BY DEF DownloadInv, InFlight
<1>3. /\ P = [k \in Links |-> P[k]] /\ P[l] = c.p /\ \A k \in Links : k # l => P[k] = peer[k]
      /\ M = [k \in Links |-> M[k]] /\ M[l] = net[l] \o c.out /\ M[Back(l)] = Tail(net[Back(l)])
      /\ \A k \in Links : k # l /\ k # Back(l) => M[k] = net[k]
  BY <1>2, LinkEnds
<1> HIDE DEF P, M
<1>4. \A k \in Links : Ours(k)' = Ours(k) /\ Theirs(k)' = Theirs(k)
  BY DEF Ours, Theirs
<1>5. \A k \in Links : peer[k] \in PeerRecords(Ours(k), Theirs(k))
                       /\ net[k] \in Seq(MessagesFrom(Ours(k), Theirs(k)))
  BY DEF DownloadInv, InFlight
<1>6. c.p \in PeerRecords(Ours(l), Theirs(l)) /\ c.out \in Seq(MessagesFrom(Ours(l), Theirs(l)))
  BY DEF Conns
<1>7. ASSUME NEW k \in Links PROVE P[k] \in PeerRecords(Ours(k), Theirs(k))
  BY <1>3, <1>5, <1>6
<1>8. ASSUME NEW k \in Links PROVE M[k] \in Seq(MessagesFrom(Ours(k), Theirs(k)))
  <2>1. CASE k = l
    <3>1. ASSUME NEW S, NEW s \in Seq(S), NEW t \in Seq(S) PROVE s \o t \in Seq(S)
      OBVIOUS
    <3>2. net[l] \o c.out \in Seq(MessagesFrom(Ours(l), Theirs(l)))
      BY <1>5, <1>6, <3>1
    <3> QED BY <1>3, <2>1, <3>2
  <2>2. CASE k = Back(l)
    <3>1. Ours(k) = Theirs(l) /\ Theirs(k) = Ours(l)
      BY <2>2, LinkEnds DEF Ours, Theirs
    <3> QED BY <1>3, <2>2, <3>1, HeadOK
  <2>3. CASE k # l /\ k # Back(l)
    BY <1>3, <1>5, <2>3
  <2> QED BY <2>1, <2>2, <2>3
<1> QED BY <1>1, <1>3, <1>4, <1>7, <1>8, InFlightIs

\* A record for a new connection.
LEMMA NewPeerOK ==
  ASSUME NEW A, NEW B
  PROVE  NewPeer \in PeerRecords(A, B)
BY DEF NewPeer, PeerRecords

\* PushInventory of blocks that the node has.
LEMMA PushInventoryOK ==
  ASSUME NEW A, NEW B, NEW p \in PeerRecords(A, B), NEW bs \in Seq(A)
  PROVE  PushInventory(p, bs) \in PeerRecords(A, B)
<1> DEFINE f == Filter(bs, Blocks \ p.known)
           x == p.toSend \o f
<1>1. f \in Seq(A \cap (Blocks \ p.known)) /\ A \cap (Blocks \ p.known) \subseteq A
  BY FilterIs
<1>2. f \in Seq(A)
  BY <1>1, SeqMono
<1>3. p.toSend \in Seq(A)
  BY DEF PeerRecords
<1> HIDE DEF f
<1>4. x \in Seq(A)
  BY <1>2, <1>3
<1>5. PushInventory(p, bs) = [p EXCEPT !.toSend = x]
  BY DEF PushInventory, f
<1> HIDE DEF x
<1> QED BY <1>4, <1>5 DEF PeerRecords

----------------------------------------------------------------------------
(* The index.                                                              *)

\* The maps are as they were, but for what was asked for.
LEMMA SameIndex ==
  ASSUME DownloadInv, UNCHANGED <<mapBlockIndex, mapOrphanBlocks, best>>
  PROVE  IndexSound' /\ \A n \in Nodes : mapBlockIndex[n] \subseteq mapBlockIndex'[n]
BY DEF DownloadInv, IndexSound

\* A block whose parent is known is accepted with the orphans above it.
LEMMA AcceptIndex ==
  ASSUME DownloadInv, NEW n \in Nodes, NEW b \in Blocks,
         b \notin mapBlockIndex[n], Parent[b] \in mapBlockIndex[n],
         NEW peers, Accept(n, b, peers)
  PROVE  /\ mapBlockIndex' \in [Nodes -> SUBSET Blocks]
         /\ mapOrphanBlocks' \in [Nodes -> SUBSET Blocks]
         /\ best' \in [Nodes -> Blocks]
         /\ IndexSound'
         /\ \A m \in Nodes : mapBlockIndex[m] \subseteq mapBlockIndex'[m]
         /\ \E tips : tips \in Seq(mapBlockIndex'[n]) /\ peer' = Announced(peers, n, tips)
<1> DEFINE old == mapBlockIndex[n]
           orphans == mapOrphanBlocks[n]
           new == {b} \cup Released(orphans, b)
<1>0. /\ mapBlockIndex \in [Nodes -> SUBSET Blocks]
      /\ mapOrphanBlocks \in [Nodes -> SUBSET Blocks]
      /\ best \in [Nodes -> Blocks] /\ old \in SUBSET Blocks /\ orphans \in SUBSET Blocks
  BY DEF DownloadInv, Maps
<1>1. /\ Genesis \in old /\ Closed(old) /\ best[n] \in old /\ best[n] \in Blocks
      /\ \A c \in old : Height[c] <= Height[best[n]]
      /\ \A o \in orphans : o \notin old /\ Parent[o] \notin old
  BY <1>0 DEF DownloadInv, IndexSound
<1>2. b # Genesis /\ Parent[b] \in Blocks
  BY <1>0, <1>1
<1>3. PICK t \in Highest(new) :
        /\ mapBlockIndex' = [mapBlockIndex EXCEPT ![n] = @ \cup new]
        /\ mapOrphanBlocks' = [mapOrphanBlocks EXCEPT ![n] = @ \ new]
        /\ best' = [best EXCEPT ![n] = IF Height[t] > Height[@] THEN t ELSE @]
        /\ peer' = Announced(peers, n, NewTips(n, new, t))
  BY DEF Accept
<1>4. /\ new \in SUBSET Blocks /\ b \in new
      /\ \A o \in new : o = b \/ (o \in orphans /\ Below[o] \subseteq Below[b] \cup orphans)
      /\ \A o \in orphans : Below[o] \subseteq Below[b] \cup orphans => o \in new
  BY <1>0 DEF Released
<1>5. t \in new /\ t \in Blocks /\ \A c \in new : Height[c] <= Height[t]
  BY <1>4 DEF Highest
<1> HIDE DEF new
<1>6. Below[b] \subseteq old \cup {b}
  <2>1. Below[Parent[b]] \subseteq old
    BY <1>0, <1>1, <1>2, BelowLeast
  <2> QED BY <1>2, <2>1, BelowOfParent
<1>7. Closed(old \cup new)
  <2> SUFFICES ASSUME NEW c \in (old \cup new) \ {Genesis} PROVE Parent[c] \in old \cup new
    BY DEF Closed
  <2>1. CASE c \in old
    BY <1>1, <2>1 DEF Closed
  <2>2. CASE c = b
    BY <2>2
  <2>3. CASE c \in orphans /\ Below[c] \subseteq Below[b] \cup orphans
    <3>1. c \in Blocks \ {Genesis}
      BY <1>0, <2>3
    <3>2. Parent[c] \in Blocks /\ Parent[c] \in Below[c] /\ Below[Parent[c]] \subseteq Below[c]
      BY <3>1, BelowOfParent, BelowSelf
    <3>3. CASE Parent[c] \in Below[b]
      BY <1>4, <1>6, <3>3
    <3>4. CASE Parent[c] \in orphans
      BY <1>4, <2>3, <3>2, <3>4
    <3> QED BY <2>3, <3>2, <3>3, <3>4
  <2> QED BY <1>4, <2>1, <2>2, <2>3
<1>8. ASSUME NEW o \in orphans \ new PROVE o \notin old \cup new /\ Parent[o] \notin old \cup new
  <2>1. o \notin old /\ Parent[o] \notin old /\ o \in Blocks \ {Genesis}
    BY <1>0, <1>1
  <2>2. Below[o] = Below[Parent[o]] \cup {o} /\ Parent[o] \in Blocks
    BY <2>1, BelowOfParent
  <2>3. ASSUME Parent[o] \in new PROVE FALSE
    <3>1. Below[Parent[o]] \subseteq Below[b] \cup orphans
      BY <1>4, <2>3
    <3>2. Below[o] \subseteq Below[b] \cup orphans
      BY <2>2, <3>1
    <3> QED BY <1>4, <3>2
  <2> QED BY <2>1, <2>3
<1>9. /\ mapBlockIndex'[n] = old \cup new /\ mapOrphanBlocks'[n] = orphans \ new
      /\ best'[n] = IF Height[t] > Height[best[n]] THEN t ELSE best[n]
      /\ \A m \in Nodes : m # n => /\ mapBlockIndex'[m] = mapBlockIndex[m]
                                   /\ mapOrphanBlocks'[m] = mapOrphanBlocks[m]
                                   /\ best'[m] = best[m]
  BY <1>0, <1>3
<1>10. /\ mapBlockIndex' \in [Nodes -> SUBSET Blocks]
       /\ mapOrphanBlocks' \in [Nodes -> SUBSET Blocks]
       /\ best' \in [Nodes -> Blocks]
  BY <1>0, <1>3, <1>4, <1>5
<1>11. /\ best'[n] \in old \cup new
       /\ \A c \in old \cup new : Height[c] <= Height[best'[n]]
  <2>1. \A c \in Blocks : Height[c] \in Nat
    BY HeightStep
  <2>2. best'[n] \in old \cup new
    BY <1>1, <1>5, <1>9
  <2>3. Height[best'[n]] >= Height[t] /\ Height[best'[n]] >= Height[best[n]] /\ best'[n] \in Blocks
    BY <1>1, <1>5, <1>9, <2>1
  <2> SUFFICES ASSUME NEW c \in old \cup new PROVE Height[c] <= Height[best'[n]]
    BY <2>2
  <2>4. c \in Blocks /\ Height[c] \in Nat /\ Height[t] \in Nat /\ Height[best[n]] \in Nat
        /\ Height[best'[n]] \in Nat
    BY <1>0, <1>1, <1>4, <1>5, <2>1, <2>3
  <2>5. Height[c] <= Height[t] \/ Height[c] <= Height[best[n]]
    BY <1>1, <1>5
  <2> QED BY <2>3, <2>4, <2>5
<1>12. IndexSound'
  <2> SUFFICES ASSUME NEW m \in Nodes
               PROVE  /\ Genesis \in mapBlockIndex'[m] /\ Closed(mapBlockIndex'[m])
                      /\ best'[m] \in mapBlockIndex'[m]
                      /\ \A c \in mapBlockIndex'[m] : Height[c] <= Height[best'[m]]
                      /\ \A o \in mapOrphanBlocks'[m] :
                           o \notin mapBlockIndex'[m] /\ Parent[o] \notin mapBlockIndex'[m]
    BY DEF IndexSound, Closed
  <2>1. CASE m = n
    BY <1>1, <1>7, <1>8, <1>9, <1>11, <2>1
  <2>2. CASE m # n
    BY <1>9, <2>2 DEF DownloadInv, IndexSound
  <2> QED BY <2>1, <2>2
<1>13. \A m \in Nodes : mapBlockIndex[m] \subseteq mapBlockIndex'[m]
  BY <1>9
<1>14. NewTips(n, new, t) \in Seq(mapBlockIndex'[n])
  <2> DEFINE S == {c \in new : Height[c] > Height[best[n]]}
  <2>1. Filter(Chain[t], S) \in Seq(Blocks \cap S)
    BY <1>5, ChainIs, FilterIs
  <2>2. Blocks \cap S \subseteq mapBlockIndex'[n]
    BY <1>9
  <2>3. Filter(Chain[t], S) \in Seq(mapBlockIndex'[n])
    <3> HIDE DEF S
    <3> QED BY <2>1, <2>2, SeqMono
  <2> QED BY <2>3 DEF NewTips
<1> QED BY <1>3, <1>10, <1>12, <1>13, <1>14

\* The records after an announcement.
LEMMA AnnouncedOK ==
  ASSUME DownloadInv, NEW n \in Nodes, NEW tips \in Seq(mapBlockIndex'[n]),
         \A m \in Nodes : mapBlockIndex[m] \subseteq mapBlockIndex'[m],
         NEW peers, \A l \in Links : peers[l] \in PeerRecords(Ours(l), Theirs(l)),
         NEW k \in Links
  PROVE  Announced(peers, n, tips)[k] \in PeerRecords(Ours(k)', Theirs(k)')
<1>1. peers[k] \in PeerRecords(Ours(k)', Theirs(k)')
  BY StillOK
<1>2. CASE k[1] = n
  <2>1. tips \in Seq(Ours(k)')
    BY <1>2 DEF Ours
  <2>2. PushInventory(peers[k], tips) \in PeerRecords(Ours(k)', Theirs(k)')
    <3> DEFINE A == Ours(k)'
               B == Theirs(k)'
    <3> HIDE DEF A, B
    <3>1. peers[k] \in PeerRecords(A, B) /\ tips \in Seq(A)
      BY <1>1, <2>1 DEF A, B
    <3>2. PushInventory(peers[k], tips) \in PeerRecords(A, B)
      BY <3>1, PushInventoryOK
    <3> QED BY <3>2 DEF A, B
  <2> QED BY <1>2, <2>2 DEF Announced
<1>3. CASE k[1] # n
  BY <1>1, <1>3 DEF Announced
<1> QED BY <1>2, <1>3

----------------------------------------------------------------------------
(* One lemma for each action.                                              *)

\* The parts of the maps that most handlers leave alone.
SameMaps == UNCHANGED <<mapBlockIndex, mapOrphanBlocks, best, breaks>>

\* The invariant after a step that leaves the maps alone.
LEMMA SameMapsOK ==
  ASSUME DownloadInv, SameMaps, InFlight',
         mapAlreadyAskedFor' \in [Nodes -> SUBSET Blocks],
         syncNode' \in [Nodes -> Nodes \cup {NoHash}]
  PROVE  DownloadInv'
BY SameIndex DEF DownloadInv, SameMaps, Maps

\* Only one side of a connection has a new record and new messages.
LEMMA OneSideOK ==
  ASSUME DownloadInv, NEW l \in Links, UNCHANGED mapBlockIndex,
         NEW p \in PeerRecords(Ours(l), Theirs(l)),
         NEW s \in Seq(MessagesFrom(Ours(l), Theirs(l))),
         peer' = [peer EXCEPT ![l] = p], net' = [net EXCEPT ![l] = s]
  PROVE  InFlight'
<1> DEFINE P == [peer EXCEPT ![l] = p]
           M == [net EXCEPT ![l] = s]
<1>1. peer = [k \in Links |-> peer[k]] /\ net = [k \in Links |-> net[k]]
  BY DEF DownloadInv, InFlight
<1>2. /\ P = [k \in Links |-> P[k]] /\ P[l] = p /\ \A k \in Links : k # l => P[k] = peer[k]
      /\ M = [k \in Links |-> M[k]] /\ M[l] = s /\ \A k \in Links : k # l => M[k] = net[k]
      /\ peer' = P /\ net' = M
  BY <1>1
<1> HIDE DEF P, M
<1>3. \A k \in Links : Ours(k)' = Ours(k) /\ Theirs(k)' = Theirs(k)
  BY DEF Ours, Theirs
<1>4. \A k \in Links : peer[k] \in PeerRecords(Ours(k), Theirs(k))
                       /\ net[k] \in Seq(MessagesFrom(Ours(k), Theirs(k)))
  BY DEF DownloadInv, InFlight
<1>5. \A k \in Links : P[k] \in PeerRecords(Ours(k), Theirs(k))
                       /\ M[k] \in Seq(MessagesFrom(Ours(k), Theirs(k)))
  BY <1>2, <1>4
<1> QED BY <1>2, <1>3, <1>5, InFlightIs

\* Messages after the ones that are on their way.
LEMMA StreamOK ==
  ASSUME DownloadInv, NEW l \in Links, NEW s \in Seq(MessagesFrom(Ours(l), Theirs(l)))
  PROVE  net[l] \o s \in Seq(MessagesFrom(Ours(l), Theirs(l)))
<1>1. net[l] \in Seq(MessagesFrom(Ours(l), Theirs(l)))
  BY DEF DownloadInv, InFlight
<1> QED BY <1>1, ConcatProperties

\* The maps that handlers leave alone have their types.
LEMMA MapsAre ==
  ASSUME DownloadInv
  PROVE  /\ mapAlreadyAskedFor \in [Nodes -> SUBSET Blocks]
         /\ syncNode \in [Nodes -> Nodes \cup {NoHash}]
         /\ breaks \in 0..MaxBreaks
BY DEF DownloadInv, Maps

\* The first getblocks starts at the best block.
LEMMA StartSyncInv ==
  ASSUME DownloadInv, NEW l \in Links, StartSync(l), UNCHANGED breaks
  PROVE  DownloadInv'
<1> DEFINE n == l[1]
           c == PushGetBlocks(Begin(l), best[n], NoHash)
           A == Ours(l)
           B == Theirs(l)
<1>1. n \in Nodes /\ l[2] \in Nodes /\ A = mapBlockIndex[n]
  BY LinkEnds DEF Ours
<1>2. c \in Conns(A, B)
  <2>1. A \in SUBSET Blocks /\ best[n] \in A /\ NoHash \in Blocks \cup {NoHash}
    BY <1>1, NodeOK
  <2>2. Begin(l) \in Conns(A, B)
    BY BeginOK
  <2> HIDE DEF A, B, n
  <2> QED BY <2>1, <2>2, PushGetBlocksOK
<1>3. peer' = [peer EXCEPT ![l] = c.p] /\ net' = [net EXCEPT ![l] = net[l] \o c.out]
  BY DEF StartSync
<1>4. SameMaps /\ UNCHANGED mapAlreadyAskedFor /\ syncNode' = [syncNode EXCEPT ![n] = l[2]]
  BY DEF StartSync, SameMaps
<1> HIDE DEF c, A, B, n
<1>5. c.p \in PeerRecords(A, B) /\ c.out \in Seq(MessagesFrom(A, B))
  BY <1>2 DEF Conns
<1>6. net[l] \o c.out \in Seq(MessagesFrom(A, B))
  BY <1>5, StreamOK DEF A, B
<1>7. InFlight'
  BY <1>3, <1>4, <1>5, <1>6, OneSideOK DEF A, B, SameMaps
<1>8. syncNode' \in [Nodes -> Nodes \cup {NoHash}]
  BY <1>1, <1>4, MapsAre
<1> QED BY <1>4, <1>7, <1>8, MapsAre, SameMapsOK

\* An inv names blocks of the peer: what is asked for, the peer has.
LEMMA ReceiveInvInv ==
  ASSUME DownloadInv, NEW l \in Links, ReceiveInv(l), UNCHANGED breaks
  PROVE  DownloadInv'
<1> DEFINE n == l[1]
           m == Head(net[Back(l)])
           hashes == m.hashes
           new == {b \in ToSet(hashes) : ~AlreadyHave(n, b)}
           C == Conns(Ours(l), Theirs(l))
<1>1. net[Back(l)] # <<>> /\ m.type = "inv"
  BY DEF ReceiveInv, Received
<1>2. hashes \in Seq(Theirs(l))
  <2>1. m \in MessagesFrom(Theirs(l), Ours(l))
    BY <1>1, HeadOK
  <2> HIDE DEF m
  <2> QED BY <1>1, <2>1 DEF MessagesFrom
<1>3. PICK late, lost :
        /\ lost \in BOOLEAN
        /\ End(l, [InvEntries(l, hashes, late) EXCEPT !.p.untriggered = @ \/ lost])
  <2>1. PICK k \in 1..Len(hashes) + 1 :
          LET late == Late(n, hashes, k)
              lost == \/ Last(hashes) \in mapOrphanBlocks[n]
                      \/ \E i, j \in DOMAIN hashes :
                           /\ i < j
                           /\ hashes[i] \in new \cap late
                           /\ hashes[j] \in new \ late
          IN End(l, [InvEntries(l, hashes, late) EXCEPT !.p.untriggered = @ \/ lost])
    BY DEF ReceiveInv
  <2> DEFINE late == Late(n, hashes, k)
             lost == \/ Last(hashes) \in mapOrphanBlocks[n]
                     \/ \E i, j \in DOMAIN hashes :
                          /\ i < j
                          /\ hashes[i] \in new \cap late
                          /\ hashes[j] \in new \ late
  <2>2. lost \in BOOLEAN
    OBVIOUS
  <2>3. End(l, [InvEntries(l, hashes, late) EXCEPT !.p.untriggered = @ \/ lost])
    BY <2>1
  <2> HIDE DEF late, lost, hashes
  <2> QED BY <2>2, <2>3
<1>4. SameMaps /\ UNCHANGED syncNode
      /\ mapAlreadyAskedFor' = [mapAlreadyAskedFor EXCEPT ![n] = @ \cup new]
  BY DEF ReceiveInv, SameMaps
<1> HIDE DEF m, hashes
<1> DEFINE c == InvEntries(l, hashes, late)
           d == [c EXCEPT !.p.untriggered = @ \/ lost]
<1>5. c \in C
  BY <1>2, InvEntriesOK
<1>6. d \in C
  <2> DEFINE P == PeerRecords(Ours(l), Theirs(l))
             M == MessagesFrom(Ours(l), Theirs(l))
             x == c.p.untriggered \/ lost
             q == [c.p EXCEPT !.untriggered = x]
  <2> HIDE DEF c
  <2>1. c \in [p : P, out : Seq(M)]
    BY <1>5 DEF Conns
  <2>2. x \in BOOLEAN
    BY <1>3
  <2>3. d = [c EXCEPT !.p.untriggered = x]
    OBVIOUS
  <2> HIDE DEF x
  <2>4. q \in P
    BY <2>1, <2>2 DEF PeerRecords
  <2> HIDE DEF P, M
  <2>5. [c EXCEPT !.p.untriggered = x] = [p |-> q, out |-> c.out]
    BY <2>1
  <2> HIDE DEF q, d
  <2>6. [p |-> q, out |-> c.out] \in [p : P, out : Seq(M)]
    BY <2>1, <2>4
  <2> QED BY <2>3, <2>5, <2>6 DEF Conns, P, M
<1>7. InFlight'
  <2>1. End(l, d)
    BY <1>3
  <2> HIDE DEF d
  <2> QED BY <1>1, <1>4, <1>6, <2>1, EndOK DEF SameMaps
<1>8. mapAlreadyAskedFor' \in [Nodes -> SUBSET Blocks]
  <2>1. Theirs(l) \in SUBSET Blocks
    BY LinkEnds, NodeOK DEF Theirs
  <2>2. ToSet(hashes) \subseteq Theirs(l)
    BY <1>2 DEF ToSet
  <2>3. new \in SUBSET Blocks
    BY <2>1, <2>2
  <2> HIDE DEF new
  <2> QED BY <1>4, <2>3, MapsAre
<1> QED BY <1>4, <1>7, <1>8, MapsAre, SameMapsOK

\* The answer to getblocks is of blocks the node has.
LEMMA ReceiveGetBlocksInv ==
  ASSUME DownloadInv, NEW l \in Links, ReceiveGetBlocks(l), UNCHANGED breaks
  PROVE  DownloadInv'
<1> DEFINE n == l[1]
           m == Head(net[Back(l)])
           batch == AfterLocator(n, m.begin, m.end)
           pushed == PushInventory(peer[l], batch)
           A == Ours(l)
           B == Theirs(l)
           q == [pushed EXCEPT !.hashContinue = IF Len(batch) = nLimit THEN Last(batch) ELSE @]
<1>1. net[Back(l)] # <<>> /\ m.type = "getblocks"
  BY DEF ReceiveGetBlocks, Received
<1>2. n \in Nodes /\ A = mapBlockIndex[n] /\ A \in SUBSET Blocks /\ B \in SUBSET Blocks
      /\ best[n] \in Blocks /\ best[n] \in A /\ Closed(A)
  BY LinkEnds, NodeOK DEF Ours, Theirs, DownloadInv, IndexSound
<1>3. m.begin \in Blocks
  <2>1. m \in MessagesFrom(B, A)
    BY <1>1, HeadOK
  <2> HIDE DEF m, A, B
  <2>2. m.begin \in B
    BY <1>1, <2>1 DEF MessagesFrom
  <2> QED BY <1>2, <2>2
<1>4. batch \in Seq(A)
  <2>1. batch \in Seq(Below[best[n]])
    BY <1>2, <1>3, AfterLocatorIs
  <2>2. Below[best[n]] \subseteq A
    BY <1>2, BelowLeast
  <2> HIDE DEF batch, A
  <2> QED BY <2>1, <2>2, SeqMono
<1>5. pushed \in PeerRecords(A, B)
  <2>1. peer[l] \in PeerRecords(A, B)
    BY DEF DownloadInv, InFlight
  <2> HIDE DEF batch, A, B
  <2> QED BY <1>4, <2>1, PushInventoryOK
<1>6. Len(batch) = nLimit => Last(batch) \in A
  <2> HIDE DEF batch, A
  <2> QED BY <1>4, DownloadAssumption DEF Last
<1>7. SameMaps /\ UNCHANGED <<mapAlreadyAskedFor, syncNode>>
      /\ End(l, [p |-> q, out |-> <<>>])
  BY DEF ReceiveGetBlocks, SameMaps
<1>8. q \in PeerRecords(A, B)
  <2> DEFINE x == IF Len(batch) = nLimit THEN Last(batch) ELSE pushed.hashContinue
  <2>1. x \in A \cup {NoHash}
    <3> HIDE DEF batch, pushed, A, B
    <3>1. pushed.hashContinue \in A \cup {NoHash}
      BY <1>5 DEF PeerRecords
    <3> QED BY <1>6, <3>1
  <2>2. q = [pushed EXCEPT !.hashContinue = x]
    OBVIOUS
  <2> HIDE DEF x, batch, pushed, A, B, q
  <2>3. [pushed EXCEPT !.hashContinue = x] \in PeerRecords(A, B)
    BY <1>5, <2>1 DEF PeerRecords
  <2> QED BY <2>2, <2>3
<1>9. [p |-> q, out |-> <<>>] \in Conns(A, B)
  <2> DEFINE P == PeerRecords(A, B)
             M == MessagesFrom(A, B)
  <2> HIDE DEF P, M, q
  <2>1. [p |-> q, out |-> <<>>] \in [p : P, out : Seq(M)]
    BY <1>8 DEF P
  <2> QED BY <2>1 DEF Conns, P, M
<1>10. InFlight'
  <2> HIDE DEF q
  <2> QED BY <1>1, <1>7, <1>9, EndOK DEF SameMaps
<1> QED BY <1>7, <1>10, MapsAre, SameMapsOK

\* A getdata asks for blocks the node has; all of them are served.
LEMMA ReceiveGetDataInv ==
  ASSUME DownloadInv, NEW l \in Links, ReceiveGetData(l), UNCHANGED breaks
  PROVE  DownloadInv'
<1> DEFINE m == Head(net[Back(l)])
           hashes == m.hashes
<1>1. net[Back(l)] # <<>> /\ m.type = "getdata"
  BY DEF ReceiveGetData, Received
<1>2. hashes \in Seq(Ours(l))
  <2>1. m \in MessagesFrom(Theirs(l), Ours(l))
    BY <1>1, HeadOK
  <2> HIDE DEF m
  <2> QED BY <1>1, <2>1 DEF MessagesFrom
<1>3. SameMaps /\ UNCHANGED <<mapAlreadyAskedFor, syncNode>> /\ End(l, ServeAll(l, hashes))
  BY DEF ReceiveGetData, SameMaps
<1> HIDE DEF m, hashes
<1>4. ServeAll(l, hashes) \in Conns(Ours(l), Theirs(l))
  BY <1>2, ServeAllOK
<1>5. InFlight'
  BY <1>1, <1>3, <1>4, EndOK DEF SameMaps
<1> QED BY <1>3, <1>5, MapsAre, SameMapsOK

\* A block that the node has, that becomes an orphan, or that is accepted.
LEMMA ReceiveBlockInv ==
  ASSUME DownloadInv, NEW l \in Links, ReceiveBlock(l), UNCHANGED breaks
  PROVE  DownloadInv'
<1> DEFINE n == l[1]
           m == Head(net[Back(l)])
           b == m.block
           c == [Begin(l) EXCEPT !.p.known = @ \cup {b}]
           A == Ours(l)
           B == Theirs(l)
<1>1. net[Back(l)] # <<>> /\ m.type = "block" /\ UNCHANGED syncNode
  BY DEF ReceiveBlock, Received
<1>2. n \in Nodes /\ A = mapBlockIndex[n] /\ A \in SUBSET Blocks /\ B \in SUBSET Blocks
      /\ best[n] \in A /\ Genesis \in A
      /\ mapOrphanBlocks[n] \in SUBSET Blocks /\ Genesis \notin mapOrphanBlocks[n]
  BY LinkEnds, NodeOK DEF Ours, Theirs
<1>3. b \in B /\ b \in Blocks
  <2>1. m \in MessagesFrom(B, A)
    BY <1>1, HeadOK
  <2> HIDE DEF m, A, B
  <2>2. m.block \in B
    BY <1>1, <2>1 DEF MessagesFrom
  <2> QED BY <1>2, <2>2
<1>4. c \in Conns(A, B)
  <2>1. Begin(l) \in Conns(A, B)
    BY BeginOK
  <2> HIDE DEF A, B, m
  <2> QED BY <1>3, <2>1, LearnOK
<1>5. \/ /\ AlreadyHave(n, b)
         /\ End(l, c)
         /\ UNCHANGED <<mapBlockIndex, mapOrphanBlocks, best, mapAlreadyAskedFor>>
      \/ /\ ~AlreadyHave(n, b) /\ Parent[b] \notin mapBlockIndex[n]
         /\ mapOrphanBlocks' = [mapOrphanBlocks EXCEPT ![n] = @ \cup {b}]
         /\ End(l, PushGetBlocks(c, best[n], GetOrphanRoot(mapOrphanBlocks[n] \cup {b}, b)))
         /\ mapAlreadyAskedFor' = [mapAlreadyAskedFor EXCEPT ![n] = @ \ {b}]
         /\ UNCHANGED <<mapBlockIndex, best>>
      \/ /\ ~AlreadyHave(n, b) /\ Parent[b] \in mapBlockIndex[n]
         /\ Accept(n, b, [peer EXCEPT ![l] = c.p])
         /\ net' = [net EXCEPT ![Back(l)] = Tail(@)]
         /\ mapAlreadyAskedFor' = [mapAlreadyAskedFor EXCEPT ![n] = @ \ {b}]
  BY DEF ReceiveBlock
<1> HIDE DEF c, m, A, B, n
<1>6. CASE AlreadyHave(n, b) /\ End(l, c)
           /\ UNCHANGED <<mapBlockIndex, mapOrphanBlocks, best, mapAlreadyAskedFor>>
  <2>1. InFlight'
    BY <1>1, <1>4, <1>6, EndOK DEF A, B
  <2> QED BY <1>1, <1>6, <2>1, MapsAre, SameMapsOK DEF SameMaps
<1>7. ASSUME ~AlreadyHave(n, b), Parent[b] \notin mapBlockIndex[n],
             mapOrphanBlocks' = [mapOrphanBlocks EXCEPT ![n] = @ \cup {b}],
             End(l, PushGetBlocks(c, best[n], GetOrphanRoot(mapOrphanBlocks[n] \cup {b}, b))),
             mapAlreadyAskedFor' = [mapAlreadyAskedFor EXCEPT ![n] = @ \ {b}],
             UNCHANGED <<mapBlockIndex, best>>
      PROVE  DownloadInv'
  <2> DEFINE orphans == mapOrphanBlocks[n] \cup {b}
             root == GetOrphanRoot(orphans, b)
  <2>1. b \notin mapBlockIndex[n] /\ b # Genesis
    BY <1>2, <1>7 DEF AlreadyHave
  <2>2. orphans \in SUBSET Blocks /\ Genesis \notin orphans /\ b \in orphans
    BY <1>2, <1>3, <2>1
  <2>3. root \in Blocks \cup {NoHash}
    <3> HIDE DEF orphans
    <3> QED BY <2>2, RootIs
  <2>4. PushGetBlocks(c, best[n], root) \in Conns(A, B)
    <3> HIDE DEF root
    <3> QED BY <1>2, <1>4, <2>3, PushGetBlocksOK
  <2>5. InFlight'
    <3>1. End(l, PushGetBlocks(c, best[n], root))
      BY <1>7
    <3> HIDE DEF root
    <3> QED BY <1>1, <1>7, <2>4, <3>1, EndOK DEF A, B
  <2>6. mapOrphanBlocks \in [Nodes -> SUBSET Blocks]
        /\ mapAlreadyAskedFor \in [Nodes -> SUBSET Blocks]
    BY DEF DownloadInv, Maps
  <2>7. mapOrphanBlocks' \in [Nodes -> SUBSET Blocks]
        /\ mapAlreadyAskedFor' \in [Nodes -> SUBSET Blocks]
    BY <1>3, <1>7, <2>6
  <2>8. Maps'
    BY <1>1, <1>7, <2>7 DEF DownloadInv, Maps
  <2>9. IndexSound'
    <3> SUFFICES ASSUME NEW k \in Nodes, NEW o \in mapOrphanBlocks'[k]
                 PROVE  o \notin mapBlockIndex[k] /\ Parent[o] \notin mapBlockIndex[k]
      BY <1>7 DEF DownloadInv, IndexSound
    <3>1. o \in mapOrphanBlocks[k] \/ (k = n /\ o = b)
      BY <1>2, <1>7, <2>6
    <3> QED BY <1>7, <2>1, <3>1 DEF DownloadInv, IndexSound
  <2> QED BY <2>5, <2>8, <2>9 DEF DownloadInv
<1>8. ASSUME ~AlreadyHave(n, b), Parent[b] \in mapBlockIndex[n],
             Accept(n, b, [peer EXCEPT ![l] = c.p]),
             net' = [net EXCEPT ![Back(l)] = Tail(@)],
             mapAlreadyAskedFor' = [mapAlreadyAskedFor EXCEPT ![n] = @ \ {b}]
      PROVE  DownloadInv'
  <2> DEFINE peers == [peer EXCEPT ![l] = c.p]
             M == [net EXCEPT ![Back(l)] = Tail(@)]
  <2>1. b \notin mapBlockIndex[n]
    BY <1>8 DEF AlreadyHave
  <2>2. peer = [k \in Links |-> peer[k]] /\ net = [k \in Links |-> net[k]]
        /\ \A k \in Links : peer[k] \in PeerRecords(Ours(k), Theirs(k))
    BY DEF DownloadInv, InFlight
  <2>3. c.p \in PeerRecords(Ours(l), Theirs(l))
    BY <1>4 DEF Conns, A, B
  <2>4. \A k \in Links : peers[k] \in PeerRecords(Ours(k), Theirs(k))
    BY <2>2, <2>3
  <2>5. Accept(n, b, peers) /\ net' = M
    BY <1>8
  <2>6. /\ M = [k \in Links |-> M[k]] /\ M[Back(l)] = Tail(net[Back(l)])
        /\ \A k \in Links : k # Back(l) => M[k] = net[k]
    BY <2>2, LinkEnds
  <2> HIDE DEF peers, M
  <2>7. /\ mapBlockIndex' \in [Nodes -> SUBSET Blocks]
        /\ mapOrphanBlocks' \in [Nodes -> SUBSET Blocks]
        /\ best' \in [Nodes -> Blocks]
        /\ IndexSound'
        /\ \A k \in Nodes : mapBlockIndex[k] \subseteq mapBlockIndex'[k]
        /\ \E tips : tips \in Seq(mapBlockIndex'[n]) /\ peer' = Announced(peers, n, tips)
    BY <1>2, <1>3, <1>8, <2>1, <2>5, AcceptIndex
  <2>8. PICK tips : tips \in Seq(mapBlockIndex'[n]) /\ peer' = Announced(peers, n, tips)
    BY <2>7
  <2>9. \A k \in Links : Announced(peers, n, tips)[k] \in PeerRecords(Ours(k)', Theirs(k)')
    BY <1>2, <2>4, <2>7, <2>8, AnnouncedOK
  <2>10. ASSUME NEW k \in Links PROVE M[k] \in Seq(MessagesFrom(Ours(k)', Theirs(k)'))
    <3>1. CASE k = Back(l)
      <4>1. Ours(k) = Theirs(l) /\ Theirs(k) = Ours(l)
        BY <3>1, LinkEnds DEF Ours, Theirs
      <4>2. M[k] \in Seq(MessagesFrom(Ours(k), Theirs(k)))
        BY <1>1, <2>6, <3>1, <4>1, HeadOK
      <4> QED BY <2>7, <4>2, StillOK
    <3>2. CASE k # Back(l)
      BY <2>6, <2>7, <3>2, StillOK
    <3> QED BY <3>1, <3>2
  <2>11. Announced(peers, n, tips) = [k \in Links |-> Announced(peers, n, tips)[k]]
    BY DEF Announced
  <2>12. InFlight'
    BY <2>5, <2>6, <2>8, <2>9, <2>10, <2>11, InFlightIs
  <2>13. mapAlreadyAskedFor' \in [Nodes -> SUBSET Blocks]
    BY <1>8, MapsAre
  <2> QED BY <1>1, <2>7, <2>12, <2>13, MapsAre DEF DownloadInv, Maps
<1> QED BY <1>5, <1>6, <1>7, <1>8

\* What is announced the node has, what is asked for the peer has.
LEMMA SendMessagesInv ==
  ASSUME DownloadInv, NEW l \in Links, SendMessages(l), UNCHANGED breaks
  PROVE  DownloadInv'
<1> DEFINE n == l[1]
           p == peer[l]
           inv == Unknown(p)
           ask == Filter(p.due, {b \in Blocks : ~AlreadyHave(n, b)})
           Unless(s, m) == IF s = <<>> THEN <<>> ELSE <<m>>
           A == Ours(l)
           B == Theirs(l)
           M == MessagesFrom(A, B)
           q == [p EXCEPT !.known = @ \cup ToSet(inv), !.toSend = <<>>, !.due = <<>>]
           s == net[l] \o Unless(inv, Inv(inv)) \o Unless(ask, GetData(ask))
<1>1. peer' = [peer EXCEPT ![l] = q] /\ net' = [net EXCEPT ![l] = s]
      /\ SameMaps /\ UNCHANGED <<mapAlreadyAskedFor, syncNode>>
  BY DEF SendMessages, SameMaps
<1>2. p \in PeerRecords(A, B) /\ net[l] \in Seq(M)
  BY DEF DownloadInv, InFlight
<1>3. inv \in Seq(A)
  <2>1. p.toSend \in Seq(A)
    BY <1>2 DEF PeerRecords
  <2> QED BY <2>1, UnknownIs
<1>4. ask \in Seq(B)
  <2> DEFINE S == {b \in Blocks : ~AlreadyHave(n, b)}
  <2>1. p.due \in Seq(B)
    BY <1>2 DEF PeerRecords
  <2> HIDE DEF S, B, p
  <2>2. Filter(p.due, S) \in Seq(B \cap S)
    BY <2>1, FilterIs
  <2>3. Filter(p.due, S) \in Seq(B)
    BY <2>2, SeqMono
  <2> QED BY <2>3 DEF S, p
<1> HIDE DEF p, inv, ask, A, B
<1>5. Unless(inv, Inv(inv)) \in Seq(M) /\ Unless(ask, GetData(ask)) \in Seq(M)
  <2>1. inv # <<>> => Inv(inv) \in M
    BY <1>3 DEF Inv, MessagesFrom
  <2>2. ask # <<>> => GetData(ask) \in M
    BY <1>4 DEF GetData, MessagesFrom
  <2> HIDE DEF M
  <2>3. <<>> \in Seq(M) /\ \A x \in M : <<x>> \in Seq(M)
    OBVIOUS
  <2> QED BY <2>1, <2>2, <2>3
<1>6. s \in Seq(M)
  <2> DEFINE x == Unless(inv, Inv(inv))
             y == Unless(ask, GetData(ask))
  <2> HIDE DEF M, x, y
  <2>1. net[l] \o x \in Seq(M)
    BY <1>2, <1>5, ConcatProperties DEF x
  <2>2. (net[l] \o x) \o y \in Seq(M)
    BY <1>5, <2>1, ConcatProperties DEF y
  <2> QED BY <2>2 DEF x, y
<1>7. q \in PeerRecords(A, B)
  <2>1. ToSet(inv) \subseteq A
    BY <1>3 DEF ToSet
  <2> DEFINE x == p.known \cup ToSet(inv)
  <2>2. x \in SUBSET (A \cup B)
    BY <1>2, <2>1 DEF PeerRecords
  <2> DEFINE e == <<>>
  <2>3. q = [p EXCEPT !.known = x, !.toSend = e, !.due = e] /\ e \in Seq(A) /\ e \in Seq(B)
    OBVIOUS
  <2> HIDE DEF x, q, e
  <2>4. [p EXCEPT !.known = x, !.toSend = e, !.due = e] \in PeerRecords(A, B)
    BY <1>2, <2>2, <2>3 DEF PeerRecords
  <2> QED BY <2>3, <2>4
<1>8. InFlight'
  <2> HIDE DEF q, s, M
  <2>1. q \in PeerRecords(Ours(l), Theirs(l)) /\ s \in Seq(MessagesFrom(Ours(l), Theirs(l)))
    BY <1>6, <1>7 DEF A, B, M
  <2> QED BY <1>1, <2>1, OneSideOK DEF SameMaps
<1> QED BY <1>1, <1>8, MapsAre, SameMapsOK

\* A request that waited is due.
LEMMA RetryInv ==
  ASSUME DownloadInv, NEW l \in Links, Retry(l), UNCHANGED breaks
  PROVE  DownloadInv'
<1> DEFINE p == peer[l]
           A == Ours(l)
           B == Theirs(l)
           x == Tail(p.waiting)
           y == Append(p.due, Head(p.waiting))
           q == [p EXCEPT !.waiting = x, !.due = y]
<1>1. peer = [k \in Links |-> peer[k]] /\ net = [k \in Links |-> net[k]]
      /\ p \in PeerRecords(A, B) /\ net[l] \in Seq(MessagesFrom(A, B))
  BY DEF DownloadInv, InFlight
<1>2. p.waiting \in Seq(B) /\ p.due \in Seq(B) /\ p.waiting # <<>>
  BY <1>1 DEF PeerRecords, Retry
<1>3. peer' = [peer EXCEPT ![l] = q]
  BY <1>1 DEF Retry
<1>4. net' = [net EXCEPT ![l] = net[l]]
  BY <1>1 DEF Retry
<1> HIDE DEF p, A, B
<1>5. x \in Seq(B) /\ y \in Seq(B)
  BY <1>2, HeadTailProperties, AppendProperties
<1> HIDE DEF x, y
<1>6. q \in PeerRecords(A, B)
  BY <1>1, <1>5 DEF PeerRecords
<1> HIDE DEF q
<1>7. SameMaps /\ UNCHANGED <<mapAlreadyAskedFor, syncNode>>
  BY DEF Retry, SameMaps
<1>8. InFlight'
  BY <1>1, <1>3, <1>4, <1>6, <1>7, OneSideOK DEF A, B, SameMaps
<1> QED BY <1>7, <1>8, MapsAre, SameMapsOK

\* A mined block stands on the best one.
LEMMA MineInv ==
  ASSUME DownloadInv, NEW n \in Nodes, NEW b \in Blocks, Mine(n, b), UNCHANGED breaks
  PROVE  DownloadInv'
<1>1. /\ Parent[b] \in mapBlockIndex[n] /\ b \notin mapBlockIndex[n] /\ Accept(n, b, peer)
      /\ UNCHANGED <<mapAlreadyAskedFor, syncNode, net>>
  BY NodeOK DEF Mine
<1>2. peer = [k \in Links |-> peer[k]] /\ net = [k \in Links |-> net[k]]
      /\ \A k \in Links : peer[k] \in PeerRecords(Ours(k), Theirs(k))
  BY DEF DownloadInv, InFlight
<1>3. /\ mapBlockIndex' \in [Nodes -> SUBSET Blocks]
      /\ mapOrphanBlocks' \in [Nodes -> SUBSET Blocks]
      /\ best' \in [Nodes -> Blocks]
      /\ IndexSound'
      /\ \A k \in Nodes : mapBlockIndex[k] \subseteq mapBlockIndex'[k]
      /\ \E tips : tips \in Seq(mapBlockIndex'[n]) /\ peer' = Announced(peer, n, tips)
  BY <1>1, AcceptIndex
<1>4. PICK tips : tips \in Seq(mapBlockIndex'[n]) /\ peer' = Announced(peer, n, tips)
  BY <1>3
<1>5. \A k \in Links : Announced(peer, n, tips)[k] \in PeerRecords(Ours(k)', Theirs(k)')
  BY <1>2, <1>3, <1>4, AnnouncedOK
<1>6. \A k \in Links : net[k] \in Seq(MessagesFrom(Ours(k)', Theirs(k)'))
  BY <1>3, StillOK
<1>7. Announced(peer, n, tips) = [k \in Links |-> Announced(peer, n, tips)[k]]
  BY DEF Announced
<1>8. InFlight'
  BY <1>1, <1>2, <1>4, <1>5, <1>6, <1>7, InFlightIs
<1> QED BY <1>1, <1>3, <1>8, MapsAre DEF DownloadInv, Maps

\* A new connection starts from nothing.
LEMMA ReconnectInv ==
  ASSUME DownloadInv, NEW l \in Links, Reconnect(l)
  PROVE  DownloadInv'
<1> DEFINE P == [peer EXCEPT ![l] = NewPeer, ![Back(l)] = NewPeer]
           M == [net EXCEPT ![l] = <<>>, ![Back(l)] = <<>>]
<1>1. /\ peer' = P /\ net' = M
      /\ UNCHANGED <<mapBlockIndex, mapOrphanBlocks, best, mapAlreadyAskedFor>>
      /\ breaks < MaxBreaks /\ breaks' = breaks + 1
      /\ syncNode' = [n \in Nodes |-> IF <<n, syncNode[n]>> \in {l, Back(l)}
                                        THEN NoHash ELSE syncNode[n]]
  BY DEF Reconnect
<1>2. peer = [k \in Links |-> peer[k]] /\ net = [k \in Links |-> net[k]]
      /\ \A k \in Links : peer[k] \in PeerRecords(Ours(k), Theirs(k))
                          /\ net[k] \in Seq(MessagesFrom(Ours(k), Theirs(k)))
  BY DEF DownloadInv, InFlight
<1>3. /\ P = [k \in Links |-> P[k]] /\ M = [k \in Links |-> M[k]]
      /\ \A k \in Links : (P[k] = NewPeer \/ P[k] = peer[k]) /\ (M[k] = <<>> \/ M[k] = net[k])
  BY <1>2, LinkEnds
<1> HIDE DEF P, M
<1>4. \A k \in Links : Ours(k)' = Ours(k) /\ Theirs(k)' = Theirs(k)
  BY <1>1 DEF Ours, Theirs
<1>5. ASSUME NEW k \in Links
      PROVE  /\ P[k] \in PeerRecords(Ours(k), Theirs(k))
             /\ M[k] \in Seq(MessagesFrom(Ours(k), Theirs(k)))
  <2>1. NewPeer \in PeerRecords(Ours(k), Theirs(k))
    BY NewPeerOK
  <2>2. <<>> \in Seq(MessagesFrom(Ours(k), Theirs(k)))
    OBVIOUS
  <2> QED BY <1>2, <1>3, <2>1, <2>2
<1>6. InFlight'
  BY <1>1, <1>3, <1>4, <1>5, InFlightIs
<1>7. syncNode' \in [Nodes -> Nodes \cup {NoHash}]
  BY <1>1, MapsAre
<1>8. breaks' \in 0..MaxBreaks
  BY <1>1, MapsAre, DownloadAssumption
<1>9. IndexSound'
  BY <1>1, SameIndex
<1> QED BY <1>1, <1>6, <1>7, <1>8, <1>9 DEF DownloadInv, Maps

----------------------------------------------------------------------------
(* The theorems.                                                           *)

\* The invariant holds in the first state.
LEMMA DownloadInit == Init => DownloadInv
<1> SUFFICES ASSUME Init PROVE DownloadInv
  OBVIOUS
<1>1. \A n \in Nodes : First[n] \in Blocks /\ mapBlockIndex[n] = Below[First[n]]
                       /\ best[n] = First[n] /\ mapOrphanBlocks[n] = {}
  BY DownloadAssumption DEF Init
<1>2. Maps
  BY <1>1, BelowSelf, DownloadAssumption DEF Init, Maps
<1>3. IndexSound
  <2> SUFFICES ASSUME NEW n \in Nodes
               PROVE  /\ Genesis \in Below[First[n]] /\ Closed(Below[First[n]])
                      /\ First[n] \in Below[First[n]]
                      /\ \A b \in Below[First[n]] : Height[b] <= Height[First[n]]
    BY <1>1 DEF IndexSound
  <2> QED BY <1>1, BelowFinite, BelowClosed, BelowSelf, HeightBelow
<1>4. InFlight
  <2>1. peer = [l \in Links |-> NewPeer] /\ net = [l \in Links |-> <<>>]
    BY DEF Init
  <2>2. \A l \in Links : NewPeer \in PeerRecords(Ours(l), Theirs(l))
    BY NewPeerOK
  <2>3. \A l \in Links : <<>> \in Seq(MessagesFrom(Ours(l), Theirs(l)))
    OBVIOUS
  <2> QED BY <2>1, <2>2, <2>3 DEF InFlight
<1> QED BY <1>2, <1>3, <1>4 DEF DownloadInv

\* Every step keeps it.
LEMMA DownloadNext == DownloadInv /\ [Next]_vars => DownloadInv'
<1> SUFFICES ASSUME DownloadInv, [Next]_vars PROVE DownloadInv'
  OBVIOUS
<1>1. CASE UNCHANGED vars
  <2>1. SameMaps /\ UNCHANGED <<mapAlreadyAskedFor, syncNode, peer, net>>
    BY <1>1 DEF vars, SameMaps
  <2>2. InFlight'
    BY <2>1 DEF DownloadInv, InFlight, SameMaps, Ours, Theirs
  <2> QED BY <2>1, <2>2, MapsAre, SameMapsOK
<1>2. ASSUME NEW l \in Links, Connected(StartSync(l) \/ SendMessages(l) \/ Receive(l) \/ Retry(l))
      PROVE  DownloadInv'
  BY <1>2, StartSyncInv, SendMessagesInv, ReceiveInvInv, ReceiveGetBlocksInv,
     ReceiveGetDataInv, ReceiveBlockInv, RetryInv DEF Connected, Receive
<1>3. ASSUME NEW l \in Links, Reconnect(l) PROVE DownloadInv'
  BY <1>3, ReconnectInv
<1>4. ASSUME NEW n \in Nodes, NEW b \in Blocks, Connected(Mine(n, b)) PROVE DownloadInv'
  BY <1>4, MineInv DEF Connected
<1> QED BY <1>1, <1>2, <1>3, <1>4 DEF Next

\* What a node keeps of a peer, the streams between nodes and the maps stay
\* within their types: the request for what is below an orphan names a block.
THEOREM DownloadTypeCorrect == Spec => []TypeOK
<1>1. DownloadInv => TypeOK
  <2> SUFFICES ASSUME DownloadInv PROVE TypeOK
    OBVIOUS
  <2>1. ASSUME NEW l \in Links
        PROVE  /\ peer[l] \in PeerRecords(Blocks, Blocks)
               /\ net[l] \in Seq(MessagesFrom(Blocks, Blocks))
    <3>1. Ours(l) \subseteq Blocks /\ Theirs(l) \subseteq Blocks
      BY LinkEnds, NodeOK DEF Ours, Theirs
    <3>2. peer[l] \in PeerRecords(Ours(l), Theirs(l))
          /\ net[l] \in Seq(MessagesFrom(Ours(l), Theirs(l)))
      BY DEF DownloadInv, InFlight
    <3> QED BY <3>1, <3>2, GrowOK
  <2>2. MessagesFrom(Blocks, Blocks) \subseteq Messages
    BY DEF MessagesFrom, Messages
  <2>3. Seq(MessagesFrom(Blocks, Blocks)) \subseteq Seq(Messages)
    BY <2>2, SeqMono
  <2>4. peer = [l \in Links |-> peer[l]] /\ net = [l \in Links |-> net[l]]
    BY DEF DownloadInv, InFlight
  <2>5. peer \in [Links -> PeerRecords(Blocks, Blocks)] /\ net \in [Links -> Seq(Messages)]
    BY <2>1, <2>3, <2>4
  <2>6. Blocks \cup Blocks = Blocks
    OBVIOUS
  <2> QED BY <2>5, <2>6 DEF DownloadInv, Maps, TypeOK, PeerRecords
<1> QED BY <1>1, DownloadInit, DownloadNext, PTL DEF Spec

\* A node's index is closed under parents, its best block is the highest of it,
\* and an orphan does not stay when its parent is known, whatever the order in
\* which blocks arrive.
THEOREM IndexAlwaysSound == Spec => []IndexSound
<1>1. DownloadInv => IndexSound
  BY DEF DownloadInv
<1> QED BY <1>1, DownloadInit, DownloadNext, PTL DEF Spec

\* Nodes announce and send only blocks they have, and ask a peer only for
\* blocks the peer has, also when a request was held back for two minutes or a
\* connection broke in between: ProcessGetData never has to skip a block.
THEOREM RequestsAlwaysServed == Spec => []InFlight
<1>1. DownloadInv => InFlight
  BY DEF DownloadInv
<1> QED BY <1>1, DownloadInit, DownloadNext, PTL DEF Spec
=============================================================================
