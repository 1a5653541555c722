---------------------------- MODULE CfgBuildProofs ----------------------------
(***************************************************************************)
(* For every function, however its blocks overlap and whatever cycles they *)
(* form, and every verdict: the graph that BuildCFG leaves holds exactly   *)
(* the edges of the blocks the entry leads to, before OpaquePredicatePass  *)
(* has removed edges and after (GraphIsReachable); the pass removes no     *)
(* more than the verdicts say (OnlyDeadEdgesGo).  And if the blocks do not *)
(* overlap, the listing is of that graph (ExportIsOfOneGraph).             *)
(***************************************************************************)
EXTENDS CfgBuild, SequenceTheorems, WellFoundedInduction, TLAPS

-----------------------------------------------------------------------------
(* The elements of a queue.                                                *)

\* What a queue holds.
LEMMA Elements ==
    ASSUME NEW S, NEW q \in Seq(S)
    PROVE  \A x : x \in ToSet(q) <=> \E i \in 1..Len(q) : x = q[i]
BY DEF ToSet

\* What a queue holds after a push, and what it held before a pop.
LEMMA PushElements ==
    ASSUME NEW S, NEW q \in Seq(S), NEW e \in S
    PROVE  Append(q, e) \in Seq(S) /\ ToSet(Append(q, e)) = ToSet(q) \cup {e}
BY AppendProperties DEF ToSet

LEMMA PopElements ==
    ASSUME NEW S, NEW q \in Seq(S), q # <<>>
    PROVE  /\ Head(q) \in S /\ Tail(q) \in Seq(S)
           /\ ToSet(q) = {Head(q)} \cup ToSet(Tail(q))
<1> DEFINE t == Tail(q)
<1>1. Head(q) = q[1] /\ Head(q) \in S /\ t \in Seq(S) /\ Len(q) \in Nat \ {0}
    OBVIOUS
<1>2. Len(t) = Len(q) - 1 /\ \A i \in 1..Len(q) - 1 : t[i] = q[i + 1]
    BY <1>1
<1> HIDE DEF t
<1>3. ASSUME NEW x \in ToSet(q) PROVE x \in {Head(q)} \cup ToSet(t)
    <2>1. PICK i \in 1..Len(q) : x = q[i]
        BY Elements
    <2>2. i # 1 => i - 1 \in 1..Len(t) /\ x = t[i - 1]
        BY <2>1, <1>1, <1>2
    <2>3. i # 1 => x \in ToSet(t)
        BY <2>2, <1>1, Elements
    <2> QED BY <2>1, <2>3, <1>1
<1>4. ASSUME NEW x \in ToSet(t) PROVE x \in ToSet(q)
    <2>1. PICK i \in 1..Len(t) : x = t[i]
        BY <1>1, Elements
    <2>2. i + 1 \in 1..Len(q) /\ x = q[i + 1]
        BY <2>1, <1>1, <1>2
    <2> QED BY <2>2, Elements
<1>5. Head(q) \in ToSet(q)
    BY <1>1, Elements
<1> QED BY <1>1, <1>3, <1>4, <1>5 DEF t

-----------------------------------------------------------------------------
(* The least element of a set of natural numbers.                          *)

LEMMA NatMin ==
    ASSUME NEW S \in SUBSET Nat, S # {}
    PROVE  Min(S) \in S /\ \A y \in S : Min(S) <= y
<1>1. PICK x \in S : \A y \in S : ~ (<<y, x>> \in OpToRel(<, Nat))
    BY NatLessThanWellFounded, WFMin
<1>2. ASSUME NEW y \in S PROVE x <= y
    <2>1. <<y, x>> \in Nat \X Nat
        OBVIOUS
    <2>2. ~ (y < x)
        BY <1>1, <2>1 DEF OpToRel
    <2> QED BY <2>2
<1> QED BY <1>2 DEF Min

-----------------------------------------------------------------------------
(* Looking a block up. *)

\* The lookup of a block answers with an index of the vector, or with 0.
LEMMA BlockCoveringType ==
    ASSUME NEW bs, Len(bs) \in Nat, NEW a
    PROVE  BlockCovering(bs, a) \in 0 .. Len(bs)
<1> DEFINE I == {i \in 1..Len(bs) : Covers(bs[i], a)}
<1>1. I # {} => Min(I) \in I
    <2>1. I \in SUBSET Nat
        OBVIOUS
    <2> HIDE DEF I
    <2> QED BY <2>1, NatMin
<1>2. BlockCovering(bs, a) = IF I # {} THEN Min(I) ELSE 0
    BY DEF BlockCovering, SelectInSeq
<1> QED BY <1>1, <1>2

LEMMA FollowsType ==
    ASSUME TypeOK, NEW i \in Blocks
    PROVE  /\ Len(blocks[i].succs) \in 0 .. 2
           /\ \A k \in 1..Len(blocks[i].succs) : Successor(i, k) \in Blocks \cup {0}
           /\ Follows(i) \subseteq Blocks
<1>1. Len(blocks) \in Nat /\ blocks[i] \in Block(Nat)
    BY DEF TypeOK, Blocks
<1>2. Len(blocks[i].succs) \in 0 .. 2
    <2>1. blocks[i].succs \in Seq(Nat)
        BY <1>1 DEF Block
    <2>2. Len(blocks[i].succs) <= 2
        BY DEF TypeOK
    <2>3. Len(blocks[i].succs) \in Nat
        BY <2>1, LenProperties
    <2>4. \A n \in Nat : n <= 2 => n \in 0 .. 2
        OBVIOUS
    <2> QED BY <2>2, <2>3, <2>4, Zenon
<1>3. \A k \in 1..Len(blocks[i].succs) : Successor(i, k) \in Blocks \cup {0}
    BY <1>1, BlockCoveringType DEF Successor, Blocks
<1> QED BY <1>2, <1>3 DEF Follows

LEMMA EntryType == TypeOK => Entry \in Blocks \cup {0}
BY BlockCoveringType DEF TypeOK, Entry, Blocks

-----------------------------------------------------------------------------
(* Reachability. *)

\* The blocks the entry leads to are closed, and in every closed set.
LEMMA ReachableIsLeast ==
    ASSUME TypeOK
    PROVE  /\ IsClosed(Reachable)
           /\ Reachable \subseteq Blocks
           /\ \A S \in SUBSET Blocks : IsClosed(S) => Reachable \subseteq S
<1>1. \A i : i \in Reachable <=> i \in Blocks /\ \A S \in SUBSET Blocks : IsClosed(S) => i \in S
    BY DEF Reachable
<1>2. Entry # 0 => Entry \in Reachable
    BY <1>1, EntryType DEF IsClosed
<1>3. ASSUME NEW i \in Reachable, NEW j \in Follows(i) PROVE j \in Reachable
    BY <1>1, <1>3, FollowsType DEF IsClosed
<1> QED BY <1>1, <1>2, <1>3 DEF IsClosed

LEMMA InitCfg == Init => GraphInv
<1> SUFFICES ASSUME Init PROVE GraphInv
    OBVIOUS
<1>1. code \in Code /\ blocks = code.blocks
    BY FunctionsAssumption DEF Init
<1>2. blocks \in Seq(Block(Nat)) \ {<<>>} /\ \A i \in Blocks : Len(blocks[i].succs) <= 2
    BY <1>1 DEF Code, Blocks
<1>3. Entry \in Blocks \cup {0}
    BY <1>2, BlockCoveringType DEF Entry, Blocks
<1>4. TypeOK
    <2>1. toVisit \in Seq(Blocks) /\ edges \in Seq(Blocks \X Blocks)
        BY <1>3, EmptySeq DEF Init
    <2>2. bb \in Blocks \cup {0} /\ succ \in 1 .. 3 /\ passes \in 0 .. MaxPasses
        BY MaxPassesAssumption DEF Init
    <2> QED BY <1>1, <1>2, <2>1, <2>2 DEF Init, TypeOK
<1>5. ToSet(toVisit) = {Entry} \ {0} /\ ToSet(edges) = {}
    BY DEF Init, ToSet
<1>6. WalkInv
    BY <1>4, <1>5, ReachableIsLeast DEF Init, WalkInv, Seen, FollowedSoFar, EdgesFrom, IsClosed
<1> QED BY <1>4, <1>6 DEF Init, GraphInv, GraphIsReachable, PassInv

-----------------------------------------------------------------------------
(* The steps of a walk. *)

\* While the blocks stay, so does everything that is said of them.
LEMMA SameBlocks ==
    ASSUME blocks' = blocks
    PROVE  /\ Blocks' = Blocks /\ Entry' = Entry /\ Reachable' = Reachable
           /\ \A i, k : Successor(i, k)' = Successor(i, k)
           /\ \A i : Follows(i)' = Follows(i)
           /\ \A S : EdgesFrom(S)' = EdgesFrom(S)
BY DEF Blocks, Entry, Reachable, IsClosed, Follows, Successor, EdgesFrom

LEMMA TakeBlockKeeps == GraphInv /\ TakeBlock => GraphInv'
<1> SUFFICES ASSUME GraphInv, TakeBlock PROVE GraphInv'
    OBVIOUS
<1> USE SameBlocks DEF GraphInv, TakeBlock
<1>1. /\ Head(toVisit) \in Blocks /\ Tail(toVisit) \in Seq(Blocks)
      /\ ToSet(toVisit) = {Head(toVisit)} \cup ToSet(Tail(toVisit))
    BY PopElements DEF TypeOK
<1>2. Head(toVisit) # 0
    BY <1>1 DEF Blocks
<1>3. TypeOK'
    <2>1. /\ blocks' = blocks /\ Blocks' = Blocks /\ code' = code /\ edges' = edges /\ visited' = visited
          /\ at' = at /\ verdicts' = verdicts /\ modified' = modified /\ passes' = passes
        OBVIOUS
    <2>2. bb' \in Blocks /\ succ' = 1 /\ toVisit' \in Seq(Blocks)
        BY <1>1
    <2> QED BY <2>1, <2>2 DEF TypeOK
<1>4. Seen' = Seen /\ FollowedSoFar' = {} /\ FollowedSoFar = {}
    BY <1>1, <1>2 DEF Seen, FollowedSoFar
<1>5. Len(blocks[bb'].succs) \in Nat
    BY <1>1, FollowsType DEF TypeOK
<1>6. WalkInv'
    BY <1>4, <1>5 DEF WalkInv
<1> QED BY <1>3, <1>6 DEF GraphIsReachable, PassInv

LEMMA FollowSuccessorKeeps == GraphInv /\ FollowSuccessor => GraphInv'
<1> SUFFICES ASSUME GraphInv, FollowSuccessor PROVE GraphInv'
    OBVIOUS
<1> USE SameBlocks DEF GraphInv
<1> DEFINE next == Successor(bb, succ)
<1>1. /\ blocks' = blocks /\ visited' = visited /\ bb' = bb /\ at' = at /\ at = "build"
      /\ bb \in Blocks /\ bb # 0 /\ succ' = succ + 1 /\ code' = code
      /\ verdicts' = verdicts /\ modified' = modified /\ passes' = passes
    BY DEF FollowSuccessor, TypeOK
<1>2. /\ succ \in 1..Len(blocks[bb].succs) /\ Len(blocks[bb].succs) \in 0 .. 2
      /\ next \in Blocks \cup {0} /\ next \in Follows(bb) \cup {0}
    BY <1>1, FollowsType DEF FollowSuccessor, TypeOK, Follows
<1>3. FollowedSoFar' = FollowedSoFar \cup ({next} \ {0})
    <2>1. 1 .. succ' - 1 = (1 .. succ - 1) \cup {succ}
        BY <1>1, <1>2
    <2> QED BY <1>1, <2>1 DEF FollowedSoFar
<1>4. ToSet(edges') = ToSet(edges) \cup {<<bb, j>> : j \in {next} \ {0}} /\ edges' \in Seq(Blocks \X Blocks)
    <2>1. CASE next = 0 BY <2>1 DEF FollowSuccessor, TypeOK
    <2>2. CASE next # 0
        <3>1. edges' = Append(edges, <<bb, next>>) /\ <<bb, next>> \in Blocks \X Blocks
            BY <1>1, <1>2, <2>2 DEF FollowSuccessor
        <3>2. edges \in Seq(Blocks \X Blocks)
            BY DEF TypeOK
        <3>3. ToSet(edges') = ToSet(edges) \cup {<<bb, next>>} /\ edges' \in Seq(Blocks \X Blocks)
            BY <3>1, <3>2, PushElements
        <3>4. {<<bb, j>> : j \in {next} \ {0}} = {<<bb, next>>}
            BY <2>2
        <3> QED BY <3>3, <3>4
    <2> QED BY <2>1, <2>2
<1>5. ToSet(toVisit') = ToSet(toVisit) \cup ({next} \ (visited \cup {0})) /\ toVisit' \in Seq(Blocks)
    <2>1. CASE next = 0 \/ next \in visited
        BY <2>1 DEF FollowSuccessor, TypeOK
    <2>2. CASE next # 0 /\ next \notin visited
        BY <1>2, <2>2, PushElements DEF FollowSuccessor, TypeOK
    <2> QED BY <2>1, <2>2
<1>6. TypeOK'
    BY <1>1, <1>2, <1>4, <1>5 DEF TypeOK
<1>7. bb \in Reachable /\ next \in Reachable \cup {0}
    <2>1. bb \in Reachable
        BY <1>1 DEF WalkInv, Seen
    <2> QED BY <1>2, <2>1, ReachableIsLeast DEF IsClosed
<1>8. Seen' = Seen \cup ({next} \ {0})
    BY <1>1, <1>5 DEF Seen
<1>9. WalkInv'
    <2>1. ToSet(edges') = EdgesFrom(visited) \cup {<<bb, j>> : j \in FollowedSoFar'}
        BY <1>1, <1>3, <1>4 DEF WalkInv
    <2> QED BY <1>1, <1>2, <1>3, <1>7, <1>8, <2>1 DEF WalkInv
<1> QED BY <1>1, <1>6, <1>9 DEF GraphIsReachable, PassInv

LEMMA BlockVisitedKeeps == GraphInv /\ BlockVisited => GraphInv'
<1> SUFFICES ASSUME GraphInv, BlockVisited PROVE GraphInv'
    OBVIOUS
<1> USE SameBlocks DEF GraphInv
<1>1. /\ bb \in Blocks /\ bb # 0 /\ Len(blocks[bb].succs) \in 0 .. 2
      /\ succ = Len(blocks[bb].succs) + 1
    BY FollowsType DEF BlockVisited, WalkInv, TypeOK
<1>2. FollowedSoFar = Follows(bb)
    BY <1>1 DEF FollowedSoFar, Follows
<1>3. Seen' = Seen
    BY <1>1 DEF BlockVisited, Seen
<1>4. EdgesFrom(visited \cup {bb}) = EdgesFrom(visited) \cup {<<bb, j>> : j \in Follows(bb)}
    BY DEF EdgesFrom
<1>5. TypeOK'
    BY <1>1 DEF BlockVisited, TypeOK
<1>6. WalkInv'
    <2>1. /\ visited' = visited \cup {bb} /\ edges' = edges /\ blocks' = blocks /\ at = "build"
          /\ bb' = 0
        BY DEF BlockVisited
    <2>2. FollowedSoFar' = {}
        BY <2>1 DEF FollowedSoFar
    <2>3. ToSet(edges') = EdgesFrom(visited')
        BY <1>2, <1>4, <2>1, <1>1 DEF WalkInv
    <2>4. \A i \in visited' : Follows(i) \subseteq Seen
        BY <1>2, <2>1 DEF WalkInv
    <2> QED BY <1>3, <2>1, <2>2, <2>3, <2>4 DEF WalkInv
<1> QED BY <1>5, <1>6 DEF BlockVisited, GraphIsReachable, PassInv

\* The queue is empty: the blocks visited are closed, hence all that are reachable.
LEMMA EndBuildKeeps == GraphInv /\ EndBuild => GraphInv'
<1> SUFFICES ASSUME GraphInv, EndBuild PROVE GraphInv'
    OBVIOUS
<1> USE SameBlocks DEF GraphInv
<1>1. Seen = visited /\ FollowedSoFar = {}
    BY DEF EndBuild, Seen, FollowedSoFar, ToSet
<1>2. IsClosed(visited) /\ visited \subseteq Blocks /\ visited \subseteq Reachable
    BY <1>1 DEF EndBuild, WalkInv, TypeOK, IsClosed
<1>3. IsGraph
    BY <1>1, <1>2, ReachableIsLeast DEF EndBuild, WalkInv, IsGraph
<1>4. IsGraph'
    BY <1>3 DEF EndBuild, walk, IsGraph
<1>5. TypeOK'
    BY DEF EndBuild, walk, TypeOK
<1> QED BY <1>4, <1>5 DEF EndBuild, walk, GraphIsReachable, WalkInv, PassInv

-----------------------------------------------------------------------------
(* The steps of OpaquePredicatePass. *)

LEMMA StartPassKeeps == GraphInv /\ StartPass => GraphInv'
<1> SUFFICES ASSUME GraphInv, StartPass PROVE GraphInv'
    OBVIOUS
<1> USE SameBlocks DEF GraphInv
<1>1. TypeOK'
    <2>1. /\ UNCHANGED <<code, blocks, edges, visited, toVisit, bb, succ>> /\ at' = "pass"
          /\ verdicts' = code.verdicts /\ modified' = FALSE /\ Blocks' = Blocks
        BY DEF StartPass, walk
    <2>2. passes' \in 0 .. MaxPasses
        BY MaxPassesAssumption DEF StartPass, TypeOK
    <2> QED BY <2>1, <2>2 DEF TypeOK
<1>2. IsGraph'
    BY DEF StartPass, walk, GraphIsReachable, IsGraph
<1> QED BY <1>1, <1>2 DEF StartPass, walk, GraphIsReachable, WalkInv, PassInv

\* A removed successor leaves a block of the same kind.
LEMMA RemoveSuccessorType ==
    ASSUME NEW b \in Block(Nat), Len(b.succs) = 2, NEW a
    PROVE  /\ RemoveSuccessor(b, a) \in Block(Nat)
           /\ Len(RemoveSuccessor(b, a).succs) <= 2
<1>1. b.succs[1] \in Nat /\ b.succs[2] \in Nat
    BY ElementOfSeq DEF Block
<1>2. <<b.succs[1]>> \in Seq(Nat) /\ <<b.succs[2]>> \in Seq(Nat) /\ << >> \in Seq(Nat)
    BY <1>1, EmptySeq
<1> DEFINE s == IF b.succs[1] # a THEN <<b.succs[1]>> ELSE IF b.succs[2] # a THEN <<b.succs[2]>> ELSE <<>>
<1>3. s \in Seq(Nat) /\ Len(s) <= 2
    BY <1>2
<1>4. RemoveSuccessor(b, a) = [b EXCEPT !.succs = s]
    BY DEF RemoveSuccessor
<1> HIDE DEF s
<1>5. [b EXCEPT !.succs = s] \in Block(Nat) /\ [b EXCEPT !.succs = s].succs = s
    BY <1>3 DEF Block
<1> QED BY <1>3, <1>4, <1>5

LEMMA ApplyVerdictKeeps == GraphInv /\ ApplyVerdict => GraphInv'
<1> SUFFICES ASSUME GraphInv, ApplyVerdict PROVE GraphInv'
    OBVIOUS
<1> USE SameBlocks DEF GraphInv
<1>1. PICK v \in verdicts :
        /\ verdicts' = verdicts \ {v}
        /\ LET i == BlockCovering(blocks, v[1])
           IN  IF i # 0 /\ Len(blocks[i].succs) >= 2
               THEN /\ blocks' = [blocks EXCEPT ![i] = RemoveSuccessor(@, Dead(@, v[2]))]
                    /\ modified' = TRUE
               ELSE UNCHANGED <<blocks, modified>>
    BY DEF ApplyVerdict
<1>2. UNCHANGED <<code, edges, visited, toVisit, bb, succ, at, passes>> /\ at = "pass"
    BY DEF ApplyVerdict, walk
<1> DEFINE i == BlockCovering(blocks, v[1])
<1>3. CASE i # 0 /\ Len(blocks[i].succs) >= 2
    <2>1. i \in Blocks
        BY <1>3, BlockCoveringType DEF TypeOK, Blocks
    <2> DEFINE b == RemoveSuccessor(blocks[i], Dead(blocks[i], v[2]))
    <2>2. blocks' = [blocks EXCEPT ![i] = b] /\ modified' = TRUE
        BY <1>1, <1>3
    <2>3. b \in Block(Nat) /\ Len(b.succs) <= 2
        <3>1. blocks[i] \in Block(Nat) /\ Len(blocks[i].succs) \in 0 .. 2
            BY <2>1, FollowsType DEF TypeOK, Blocks
        <3>2. \A n \in 0 .. 2 : n >= 2 => n = 2
            OBVIOUS
        <3>3. Len(blocks[i].succs) = 2
            BY <1>3, <3>1, <3>2
        <3> QED BY <3>1, <3>3, RemoveSuccessorType
    <2> HIDE DEF b, i
    <2>4. blocks' \in Seq(Block(Nat)) \ {<<>>} /\ Len(blocks') = Len(blocks) /\ Blocks' = Blocks
        BY <2>1, <2>2, <2>3, ExceptSeq DEF TypeOK, Blocks
    <2>5. \A j \in Blocks : blocks'[j] = IF j = i THEN b ELSE blocks[j]
        BY <2>2, ExceptSeq DEF TypeOK, Blocks
    <2>6. TypeOK'
        BY <1>1, <1>2, <2>2, <2>3, <2>4, <2>5 DEF TypeOK
    <2> QED BY <1>2, <2>2, <2>6 DEF GraphIsReachable, WalkInv, PassInv
<1>4. CASE ~ (i # 0 /\ Len(blocks[i].succs) >= 2)
    <2>1. blocks' = blocks /\ modified' = modified
        BY <1>1, <1>4
    <2>2. TypeOK'
        BY <1>1, <1>2, <2>1 DEF TypeOK
    <2>3. ~modified' => IsGraph'
        BY <1>2, <2>1 DEF IsGraph, PassInv
    <2> QED BY <1>2, <2>2, <2>3 DEF GraphIsReachable, WalkInv, PassInv
<1> QED BY <1>3, <1>4

LEMMA EndPassKeeps == GraphInv /\ EndPass => GraphInv'
<1> SUFFICES ASSUME GraphInv, EndPass PROVE GraphInv'
    OBVIOUS
<1> USE SameBlocks DEF GraphInv
<1>1. UNCHANGED <<code, blocks, verdicts, modified, passes>> /\ at = "pass"
    BY DEF EndPass
<1>2. CASE modified
    <2>1. StartBuild
        BY <1>2 DEF EndPass
    <2>2. Entry \in Blocks \cup {0}
        BY EntryType
    <2>3. toVisit' \in Seq(Blocks) /\ edges' \in Seq(Blocks \X Blocks)
        BY <2>1, <2>2, EmptySeq DEF StartBuild
    <2>4. TypeOK'
        BY <1>1, <2>1, <2>3 DEF StartBuild, TypeOK
    <2>5. ToSet(toVisit') = {Entry} \ {0} /\ ToSet(edges') = {}
        BY <2>1 DEF StartBuild, ToSet
    <2>6. Seen' = {Entry} \ {0} /\ FollowedSoFar' = {}
        BY <2>1, <2>5 DEF StartBuild, Seen, FollowedSoFar
    <2>7. WalkInv'
        <3>1. Seen' \subseteq Reachable
            BY <2>6, ReachableIsLeast DEF IsClosed
        <3>2. visited' = {} /\ EdgesFrom({}) = {}
            BY <2>1 DEF StartBuild, EdgesFrom
        <3> QED BY <1>1, <2>1, <2>5, <2>6, <3>1, <3>2 DEF StartBuild, WalkInv
    <2> QED BY <2>1, <2>4, <2>7 DEF StartBuild, GraphIsReachable, PassInv
<1>3. CASE ~modified
    <2>1. at' = "idle" /\ UNCHANGED walk
        BY <1>3 DEF EndPass
    <2>2. TypeOK'
        BY <1>1, <2>1 DEF walk, TypeOK
    <2>3. IsGraph'
        BY <1>1, <1>3, <2>1 DEF walk, IsGraph, PassInv
    <2> QED BY <2>1, <2>2, <2>3, <1>1 DEF walk, GraphIsReachable, WalkInv, PassInv
<1> QED BY <1>2, <1>3 DEF TypeOK

-----------------------------------------------------------------------------
(* The steps of the listing. *)

LEMMA BlockAtType ==
    ASSUME NEW bs, Len(bs) \in Nat, NEW a
    PROVE  BlockAt(bs, a) \in 0 .. Len(bs)
<1> DEFINE I == {i \in 1..Len(bs) : bs[i].start = a \/ Inside(bs[i], a)}
<1>1. I # {} => Min(I) \in I
    <2>1. I \in SUBSET Nat
        OBVIOUS
    <2> HIDE DEF I
    <2> QED BY <2>1, NatMin
<1>2. BlockAt(bs, a) = IF I # {} THEN Min(I) ELSE 0
    BY DEF BlockAt, SelectInSeq
<1> QED BY <1>1, <1>2

\* A block that is split leaves two of the same kind.
LEMMA SplitBlockType ==
    ASSUME NEW bs \in Seq(Block(Nat)), NEW i \in 1..Len(bs), NEW a \in Nat,
           \A j \in 1..Len(bs) : Len(bs[j].succs) <= 2
    PROVE  /\ SplitBlock(bs, i, a) \in Seq(Block(Nat)) \ {<<>>}
           /\ Len(SplitBlock(bs, i, a)) = Len(bs) + 1
           /\ \A j \in 1 .. Len(bs) + 1 : Len(SplitBlock(bs, i, a)[j].succs) <= 2
<1> DEFINE head == [bs[i] EXCEPT !.end = a, !.succs = <<a>>]
           tail == [start |-> a, end |-> bs[i].end, succs |-> bs[i].succs, preds |-> {bs[i].start}]
           short == [bs EXCEPT ![i] = head]
<1>1. bs[i] \in Block(Nat) /\ <<a>> \in Seq(Nat) /\ Len(<<a>>) = 1
    BY ElementOfSeq
<1>2. head \in Block(Nat) /\ head.succs = <<a>> /\ tail \in Block(Nat) /\ tail.succs = bs[i].succs
    BY <1>1 DEF Block
<1>3. SplitBlock(bs, i, a) = Append(short, tail)
    <2>1. short = [bs EXCEPT ![i].end = a, ![i].succs = <<a>>]
        BY <1>1 DEF Block
    <2> QED BY <2>1 DEF SplitBlock
<1> HIDE DEF head, tail
<1>4. short \in Seq(Block(Nat)) /\ Len(short) = Len(bs)
      /\ \A j \in 1..Len(bs) : short[j] = IF j = i THEN head ELSE bs[j]
    BY <1>2, ExceptSeq
<1> HIDE DEF short
<1>5. /\ Append(short, tail) \in Seq(Block(Nat)) /\ Len(Append(short, tail)) = Len(bs) + 1
      /\ Append(short, tail)[Len(bs) + 1] = tail
      /\ \A j \in 1..Len(bs) : Append(short, tail)[j] = short[j]
    BY <1>2, <1>4, AppendProperties
<1>6. ASSUME NEW j \in 1 .. Len(bs) + 1 PROVE Len(Append(short, tail)[j].succs) <= 2
    <2> DEFINE b == Append(short, tail)[j]
    <2>1. b \in {head, tail} \/ \E k \in 1..Len(bs) : b = bs[k]
        BY <1>4, <1>5
    <2>2. Len(head.succs) <= 2 /\ Len(tail.succs) <= 2
        BY <1>1, <1>2
    <2> HIDE DEF b
    <2>3. Len(b.succs) <= 2
        BY <2>1, <2>2
    <2> QED BY <2>3 DEF b
<1> QED BY <1>3, <1>5, <1>6

\* The listing is no part of the invariant, which asks no more of the blocks by
\* then than their type.
LEMMA ExportKeeps == GraphInv /\ Export => GraphInv'
<1> SUFFICES ASSUME GraphInv, Export PROVE GraphInv'
    OBVIOUS
<1> USE SameBlocks DEF GraphInv
<1>1. TypeOK'
    BY DEF Export, walk, TypeOK
<1> QED BY <1>1 DEF Export, walk, GraphIsReachable, WalkInv, PassInv

LEMMA GetDisassemblyKeeps == CfgInductive /\ GetDisassembly => GraphInv'
<1> SUFFICES ASSUME CfgInductive, GetDisassembly PROVE GraphInv'
    OBVIOUS
<1> USE SameBlocks DEF GraphInv, CfgInductive
<1>1. CASE ListBlock \/ EndListing
    <2>1. /\ UNCHANGED <<code, blocks, edges, visited, toVisit, bb, succ, verdicts, modified, passes>>
          /\ at' \in {"list", "done"} /\ at = "list"
        BY <1>1 DEF ListBlock, EndListing, walk
    <2>2. TypeOK'
        BY <2>1 DEF TypeOK
    <2> QED BY <2>1, <2>2 DEF GraphIsReachable, WalkInv, PassInv
<1>2. CASE ListSuccessor
    <2>1. /\ UNCHANGED <<code, edges, visited, toVisit, bb, succ, verdicts, modified, passes>>
          /\ at' = "list" /\ at = "list"
        BY <1>2 DEF ListSuccessor, walk
    <2>2. CASE blocks' = blocks
        <3>1. TypeOK'
            BY <2>1, <2>2 DEF TypeOK
        <3> QED BY <2>1, <3>1 DEF GraphIsReachable, WalkInv, PassInv
    <2>3. CASE blocks' # blocks
        <3> DEFINE a == Head(left)
                   i == BlockAt(blocks, a)
        <3>1. NeedsSplit(blocks, a) /\ blocks' = SplitBlock(blocks, i, a)
            BY <1>2, <2>3 DEF ListSuccessor
        <3>2. i \in 1..Len(blocks) /\ blocks[i].start # a
            BY <3>1, BlockAtType DEF NeedsSplit, TypeOK
        <3>3. a \in Nat
            BY <1>2, HeadTailProperties DEF ListSuccessor, ListingTypeOK
        <3>4. /\ blocks' \in Seq(Block(Nat)) \ {<<>>} /\ Blocks \subseteq Blocks'
              /\ \A j \in Blocks' : Len(blocks'[j].succs) <= 2
            <4> HIDE DEF a, i
            <4>1. blocks \in Seq(Block(Nat)) /\ \A j \in 1..Len(blocks) : Len(blocks[j].succs) <= 2
                BY DEF TypeOK, Blocks
            <4>2. /\ blocks' \in Seq(Block(Nat)) \ {<<>>} /\ Len(blocks') = Len(blocks) + 1
                  /\ \A j \in 1 .. Len(blocks) + 1 : Len(blocks'[j].succs) <= 2
                BY <4>1, <3>1, <3>2, <3>3, SplitBlockType
            <4> QED BY <4>1, <4>2 DEF Blocks
        <3>5. TypeOK'
            BY <2>1, <3>4 DEF TypeOK
        <3> QED BY <2>1, <3>5 DEF GraphIsReachable, WalkInv, PassInv
    <2> QED BY <2>2, <2>3
<1> QED BY <1>1, <1>2 DEF GetDisassembly

LEMMA ListingTypeKeeps == CfgInductive /\ [Next]_vars => ListingTypeOK'
<1> SUFFICES ASSUME CfgInductive, [Next]_vars PROVE ListingTypeOK'
    OBVIOUS
<1> USE DEF CfgInductive, GraphInv
<1>1. ASSUME Blocks' = Blocks, UNCHANGED listing PROVE ListingTypeOK'
    BY <1>1 DEF listing, ListingTypeOK
<1>2. CASE (UNCHANGED vars) \/ BuildCFG \/ StartPass \/ EndPass \/ EndListing
    <2>1. blocks' = blocks /\ UNCHANGED listing
        BY <1>2 DEF vars, BuildCFG, TakeBlock, FollowSuccessor, BlockVisited, EndBuild, StartPass,
           EndPass, EndListing
    <2> QED BY <1>1, <2>1 DEF Blocks
<1>3. CASE ApplyVerdict
    <2>1. UNCHANGED listing /\ Len(blocks') = Len(blocks)
        BY <1>3, ExceptSeq DEF ApplyVerdict, TypeOK
    <2> QED BY <1>1, <2>1 DEF Blocks
<1>4. CASE Export
    <2>1. blocks \in Seq(Block(Nat)) /\ 1 \in Blocks
        BY DEF TypeOK, Blocks
    <2> QED BY <1>4, <2>1, EmptySeq DEF Export, ListingTypeOK, Blocks
<1>5. CASE ListBlock
    <2>1. blocks' = blocks /\ Blocks' = Blocks /\ exported' = exported
        BY <1>5 DEF ListBlock, Blocks
    <2>2. PICK i \in pending :
            /\ pending' = pending \ {i}
            /\ IF Listed(blocks[i].start) THEN UNCHANGED <<listed, left>>
               ELSE listed' = Append(listed, i) /\ left' = blocks[i].succs
        BY <1>5 DEF ListBlock
    <2>3. i \in Blocks /\ blocks[i].succs \in Seq(Nat)
        <3>1. i \in 1..Len(blocks) /\ blocks \in Seq(Block(Nat))
            BY DEF ListingTypeOK, TypeOK, Blocks
        <3>2. blocks[i] \in Block(Nat)
            BY <3>1, ElementOfSeq
        <3> QED BY <3>1, <3>2 DEF Blocks, Block
    <2>4. listed \in Seq(Blocks) /\ left \in Seq(Nat)
        BY DEF ListingTypeOK
    <2>5. Append(listed, i) \in Seq(Blocks)
        BY <2>3, <2>4, AppendProperties
    <2>6. listed' \in Seq(Blocks) /\ left' \in Seq(Nat)
        BY <2>2, <2>3, <2>4, <2>5
    <2> QED BY <2>1, <2>2, <2>6 DEF ListingTypeOK
<1>6. CASE ListSuccessor
    <2> DEFINE a == Head(left)
               i == BlockAt(blocks, a)
               found == IF NeedsSplit(blocks, a) THEN Len(blocks) + 1 ELSE i
    <2>1. left' \in Seq(Nat) /\ a \in Nat /\ exported' = exported /\ listed' = listed
        BY <1>6, HeadTailProperties DEF ListSuccessor, ListingTypeOK
    <2>2. i \in 0 .. Len(blocks) /\ Len(blocks) \in Nat
        BY BlockAtType DEF TypeOK
    <2>3. Blocks \subseteq Blocks' /\ found \in Blocks' \cup {0}
        <3>1. CASE NeedsSplit(blocks, a)
            <4>1. i \in 1..Len(blocks)
                BY <2>2, <3>1 DEF NeedsSplit
            <4>2. blocks' = SplitBlock(blocks, i, a)
                BY <1>6, <3>1 DEF ListSuccessor
            <4>3. Len(blocks') = Len(blocks) + 1
                BY <2>1, <4>1, <4>2, SplitBlockType DEF TypeOK, Blocks
            <4> QED BY <2>2, <3>1, <4>3 DEF Blocks
        <3>2. CASE ~NeedsSplit(blocks, a)
            <4>1. blocks' = blocks /\ found = i
                BY <1>6, <3>2 DEF ListSuccessor
            <4> QED BY <2>2, <4>1 DEF Blocks
        <3> QED BY <3>1, <3>2
    <2>4. pending' \subseteq pending \cup ({found} \ {0})
        BY <1>6 DEF ListSuccessor
    <2>5. listed \in Seq(Blocks')
        BY <2>3 DEF ListingTypeOK
    <2> QED BY <2>1, <2>3, <2>4, <2>5 DEF ListingTypeOK
<1> QED BY <1>2, <1>3, <1>4, <1>5, <1>6 DEF Next, GetDisassembly

LEMMA InitInductive == Init => CfgInductive
<1> SUFFICES ASSUME Init PROVE CfgInductive
    OBVIOUS
<1>1. ListingTypeOK
    BY EmptySeq DEF Init, ListingTypeOK
<1> QED BY <1>1, InitCfg DEF CfgInductive

LEMMA NextCfg == CfgInductive /\ [Next]_vars => CfgInductive'
<1> SUFFICES ASSUME CfgInductive, [Next]_vars PROVE CfgInductive'
    OBVIOUS
<1>1. ASSUME UNCHANGED vars PROVE GraphInv'
    BY <1>1, SameBlocks DEF CfgInductive, GraphInv, vars, walk, TypeOK, GraphIsReachable, IsGraph,
       WalkInv, PassInv, Seen, FollowedSoFar
<1>2. GraphInv'
    BY <1>1, TakeBlockKeeps, FollowSuccessorKeeps, BlockVisitedKeeps, EndBuildKeeps, StartPassKeeps,
       ApplyVerdictKeeps, EndPassKeeps, ExportKeeps, GetDisassemblyKeeps
       DEF CfgInductive, Next, BuildCFG
<1> QED BY <1>2, ListingTypeKeeps DEF CfgInductive

-----------------------------------------------------------------------------
(* Theorems. *)

\* The invariant of the walk and of the pass holds (Function::BuildCFG, Function.cpp:80,
\* and OpaquePredicatePass::Run).
THEOREM CfgInductiveHolds == Spec => []CfgInductive
BY InitInductive, NextCfg, PTL DEF Spec

\* Outside the two passes the graph is that of the blocks as they are: the edges of
\* every block the entry leads to, and no other, after an edge was removed too
\* (the BuildCFG that ends NormalizeBasicBlocks, and that of OpaquePredicatePass).
THEOREM GraphIsThatOfTheBlocks == Spec => []GraphIsReachable
<1>1. CfgInductive => GraphIsReachable
    BY DEF CfgInductive, GraphInv
<1> QED BY <1>1, CfgInductiveHolds, PTL

-----------------------------------------------------------------------------
(* What the pass and the listing do to the blocks. *)

\* Two vectors whose blocks lie at the same addresses answer alike.
LEMMA SameShape ==
    ASSUME NEW bs, NEW cs, Len(bs) = Len(cs), Len(cs) \in Nat,
           \A j \in 1..Len(cs) : bs[j].start = cs[j].start /\ bs[j].end = cs[j].end
    PROVE  \A a : /\ BlockAt(bs, a) = BlockAt(cs, a)
                  /\ BlockCovering(bs, a) = BlockCovering(cs, a)
                  /\ NeedsSplit(bs, a) = NeedsSplit(cs, a)
<1> TAKE a
<1>1. {j \in 1..Len(bs) : bs[j].start = a \/ Inside(bs[j], a)}
        = {j \in 1..Len(cs) : cs[j].start = a \/ Inside(cs[j], a)}
    BY DEF Inside
<1>2. BlockAt(bs, a) = BlockAt(cs, a)
    BY <1>1 DEF BlockAt, SelectInSeq
<1>3. {j \in 1..Len(bs) : Covers(bs[j], a)} = {j \in 1..Len(cs) : Covers(cs[j], a)}
    BY DEF Covers
<1>4. BlockCovering(bs, a) = BlockCovering(cs, a)
    BY <1>3 DEF BlockCovering, SelectInSeq
<1>5. BlockAt(cs, a) \in 0..Len(cs)
    BY BlockAtType
<1> QED BY <1>2, <1>4, <1>5 DEF NeedsSplit

\* The lookup of a successor splits nothing in a vector that is normalised.
LEMMA NoSplitLeft ==
    ASSUME NEW bs, Len(bs) \in Nat, SplitAtSuccessors(bs),
           NEW i \in 1..Len(bs), NEW s \in ToSet(bs[i].succs)
    PROVE  ~NeedsSplit(bs, s)
<1> DEFINE I == {j \in 1..Len(bs) : bs[j].start = s \/ Inside(bs[j], s)}
           m == BlockAt(bs, s)
<1>1. SUFFICES ASSUME m # 0, bs[m].start # s PROVE FALSE
    BY DEF NeedsSplit
<1>2. m = IF I # {} THEN Min(I) ELSE 0
    BY DEF BlockAt, SelectInSeq
<1>3. I \in SUBSET Nat
    OBVIOUS
<1>4. m \in I /\ \A j \in I : m <= j
    <2> HIDE DEF I, m
    <2> QED BY <1>1, <1>2, <1>3, NatMin
<1>5. PICK h \in 1..m - 1 : bs[h].start = s
    BY <1>1, <1>4 DEF Inside, SplitAtSuccessors
<1>6. h \in I /\ m \in Nat
    BY <1>4, <1>5
<1> HIDE DEF I, m
<1> QED BY <1>4, <1>5, <1>6

\* The pass takes no more from the blocks than a verdict says and leaves them
\* normalised, so that the listing, which asks for successors only, splits none.
BlocksInv ==
    /\ Len(blocks) = Len(code.blocks)
    /\ OnlyDeadEdgesGo
    /\ SplitAtSuccessors(blocks)
    /\ at = "list" => \A s \in ToSet(left) : \E i \in Blocks : s \in ToSet(blocks[i].succs)
    /\ at \in {"list", "done"} => blocks = exported

LEMMA InitBlocks == Init => BlocksInv
<1> SUFFICES ASSUME Init PROVE BlocksInv
    OBVIOUS
<1>1. code \in Code /\ blocks = code.blocks /\ at = "build"
    BY FunctionsAssumption DEF Init
<1> QED BY <1>1 DEF BlocksInv, OnlyDeadEdgesGo, Code

\* Every block still lies where it was recovered.
LEMMA ShapeStays ==
    ASSUME TypeOK, BlocksInv
    PROVE  /\ Len(code.blocks) \in Nat /\ Blocks = 1..Len(code.blocks)
           /\ \A j \in Blocks : /\ blocks[j] \in Block(Nat) /\ code.blocks[j] \in Block(Nat)
                                /\ blocks[j].start = code.blocks[j].start
                                /\ blocks[j].end = code.blocks[j].end
           /\ \A a : BlockCovering(blocks, a) = BlockCovering(code.blocks, a)
<1>1. Len(code.blocks) = Len(blocks) /\ Len(blocks) \in Nat /\ code.blocks \in Seq(Block(Nat))
    BY DEF TypeOK, Code, BlocksInv
<1>2. ASSUME NEW j \in Blocks
      PROVE  /\ blocks[j] \in Block(Nat) /\ code.blocks[j] \in Block(Nat)
             /\ blocks[j].start = code.blocks[j].start /\ blocks[j].end = code.blocks[j].end
    <2>1. blocks[j] \in Block(Nat) /\ code.blocks[j] \in Block(Nat)
        BY <1>1, ElementOfSeq DEF TypeOK, Blocks
    <2>2. blocks[j] = code.blocks[j] \/ [blocks[j] EXCEPT !.succs = code.blocks[j].succs] = code.blocks[j]
        BY <1>1 DEF BlocksInv, OnlyDeadEdgesGo, Blocks
    <2> QED BY <2>1, <2>2 DEF Block
<1> QED BY <1>1, <1>2, SameShape DEF Blocks

\* One verdict: the block it is about had a choice, so it was as recovered.
LEMMA ApplyVerdictBlocks == TypeOK /\ BlocksInv /\ ApplyVerdict => BlocksInv'
<1> SUFFICES ASSUME TypeOK, BlocksInv, ApplyVerdict PROVE BlocksInv'
    OBVIOUS
<1>1. PICK v \in verdicts :
        LET i == BlockCovering(blocks, v[1])
        IN  IF i # 0 /\ Len(blocks[i].succs) >= 2
            THEN blocks' = [blocks EXCEPT ![i] = RemoveSuccessor(@, Dead(@, v[2]))]
            ELSE blocks' = blocks
    BY DEF ApplyVerdict
<1>2. code' = code /\ at = "pass" /\ at' = at
    BY DEF ApplyVerdict
<1> DEFINE i == BlockCovering(blocks, v[1])
           d == Dead(blocks[i], v[2])
           b == RemoveSuccessor(blocks[i], d)
<1>3. CASE ~ (i # 0 /\ Len(blocks[i].succs) >= 2)
    <2>1. blocks' = blocks
        BY <1>1, <1>3
    <2> QED BY <1>2, <2>1 DEF BlocksInv, OnlyDeadEdgesGo, Verdicts
<1>4. CASE i # 0 /\ Len(blocks[i].succs) >= 2
    <2>1. i \in Blocks /\ blocks' = [blocks EXCEPT ![i] = b] /\ Len(blocks[i].succs) >= 2
        BY <1>1, <1>4, BlockCoveringType DEF TypeOK, Blocks
    <2>4. v \in Verdicts(i)
        BY <2>1, ShapeStays DEF Verdicts, TypeOK
    <2> HIDE DEF i
    <2>2. blocks[i] \in Block(Nat) /\ Len(blocks[i].succs) = 2
        <3>1. Len(blocks[i].succs) \in 0 .. 2
            BY <2>1, FollowsType
        <3>2. \A n \in 0 .. 2 : n >= 2 => n = 2
            OBVIOUS
        <3> QED BY <2>1, <3>1, <3>2, ShapeStays
    <2>3. blocks[i] = code.blocks[i]
        <3>1. i \in 1..Len(code.blocks) /\ ~(Len(blocks[i].succs) <= 1)
            BY <2>1, <2>2, ShapeStays
        <3>2. OnlyDeadEdgesGo
            BY DEF BlocksInv
        <3> QED BY <3>1, <3>2 DEF OnlyDeadEdgesGo
    <2>5. /\ b \in Block(Nat) /\ b.start = blocks[i].start /\ b.end = blocks[i].end
          /\ b.preds = blocks[i].preds
          /\ Len(b.succs) <= 1 /\ ToSet(b.succs) = ToSet(blocks[i].succs) \ {d}
        <3> DEFINE q == blocks[i].succs
                   r == IF q[1] # d THEN <<q[1]>> ELSE IF q[2] # d THEN <<q[2]>> ELSE <<>>
        <3>1. b = [blocks[i] EXCEPT !.succs = r]
            BY DEF RemoveSuccessor
        <3>2. d = q[1] \/ d = q[2]
            BY DEF Dead
        <3>3. ToSet(q) = {q[1], q[2]} /\ q \in Seq(Nat)
            BY <2>2 DEF ToSet, Block
        <3>4. Len(r) <= 1 /\ ToSet(r) = {q[1], q[2]} \ {d}
            BY <3>2 DEF ToSet
        <3>5. b \in Block(Nat)
            BY <2>2, RemoveSuccessorType
        <3> HIDE DEF b, d, q, r
        <3>6. b.succs = r /\ b.start = blocks[i].start /\ b.end = blocks[i].end /\ b.preds = blocks[i].preds
            BY <2>2, <3>1 DEF Block
        <3> QED BY <3>3, <3>4, <3>5, <3>6 DEF q
    <2> HIDE DEF b, d
    <2>6. /\ Len(blocks') = Len(blocks) /\ Blocks' = Blocks
          /\ \A j \in Blocks : blocks'[j] = IF j = i THEN b ELSE blocks[j]
        BY <2>1, <2>5, ExceptSeq DEF TypeOK, Blocks
    <2>7. OnlyDeadEdgesGo'
        <3> SUFFICES ASSUME NEW j \in Blocks, blocks'[j] # code.blocks[j]
                     PROVE  LET old == code.blocks[j] IN
                            /\ [blocks'[j] EXCEPT !.succs = old.succs] = old
                            /\ Len(blocks'[j].succs) <= 1
                            /\ \E w \in Verdicts(j) :
                                  ToSet(blocks'[j].succs) = ToSet(old.succs) \ {Dead(old, w[2])}
            BY <1>2, ShapeStays DEF OnlyDeadEdgesGo, Verdicts
        <3>1. CASE j # i
            <4>1. blocks'[j] = blocks[j]
                BY <2>6, <3>1
            <4> QED BY <4>1, ShapeStays DEF BlocksInv, OnlyDeadEdgesGo
        <3>2. CASE j = i
            <4>1. blocks'[j] = b /\ ToSet(b.succs) = ToSet(code.blocks[j].succs) \ {Dead(code.blocks[j], v[2])}
                BY <2>3, <2>5, <2>6, <3>2 DEF d
            <4>2. [b EXCEPT !.succs = code.blocks[j].succs] = code.blocks[j]
                BY <2>2, <2>3, <2>5, <3>2 DEF Block
            <4> QED BY <2>4, <2>5, <3>2, <4>1, <4>2
        <3> QED BY <3>1, <3>2
    <2>8. SplitAtSuccessors(blocks')
        <3>1. \A j \in Blocks : /\ blocks'[j].start = blocks[j].start /\ blocks'[j].end = blocks[j].end
                                /\ ToSet(blocks'[j].succs) \subseteq ToSet(blocks[j].succs)
            BY <2>5, <2>6
        <3>2. \A j \in Blocks : 1..j - 1 \subseteq Blocks
            BY ShapeStays
        <3>3. Blocks = 1..Len(blocks) /\ Len(blocks') = Len(blocks)
            BY <2>6 DEF Blocks
        <3>4. SplitAtSuccessors(blocks)
            BY DEF BlocksInv
        <3>5. ASSUME NEW j \in Blocks, NEW k \in Blocks, NEW s \in ToSet(blocks'[j].succs),
                     blocks'[k].start < s, s < blocks'[k].end
              PROVE  \E h \in 1..k - 1 : blocks'[h].start = s
            <4>1. s \in ToSet(blocks[j].succs) /\ blocks[k].start < s /\ s < blocks[k].end
                BY <3>1, <3>5
            <4>2. PICK h \in 1..k - 1 : blocks[h].start = s
                BY <3>3, <3>4, <4>1 DEF SplitAtSuccessors
            <4> QED BY <3>1, <3>2, <4>2
        <3> QED BY <3>3, <3>5 DEF SplitAtSuccessors
    <2> QED BY <1>2, <2>6, <2>7, <2>8 DEF BlocksInv
<1> QED BY <1>3, <1>4

LEMMA ListSuccessorBlocks == CfgInductive /\ BlocksInv /\ ListSuccessor => BlocksInv'
<1> SUFFICES ASSUME CfgInductive, BlocksInv, ListSuccessor PROVE BlocksInv'
    OBVIOUS
<1>1. /\ ToSet(left) = {Head(left)} \cup ToSet(left') /\ at = "list" /\ at' = at
      /\ code' = code /\ exported' = exported
    BY PopElements DEF CfgInductive, ListingTypeOK, ListSuccessor
<1>2. ~NeedsSplit(blocks, Head(left))
    <2>1. PICK i \in 1..Len(blocks) : Head(left) \in ToSet(blocks[i].succs)
        BY <1>1 DEF BlocksInv, Blocks
    <2> QED BY <2>1, NoSplitLeft DEF BlocksInv, CfgInductive, GraphInv, TypeOK
<1>3. blocks' = blocks
    BY <1>2 DEF ListSuccessor
<1> QED BY <1>1, <1>3 DEF BlocksInv, OnlyDeadEdgesGo, Verdicts, Blocks

LEMMA NextBlocks == CfgInductive /\ BlocksInv /\ [Next]_vars => BlocksInv'
<1> SUFFICES ASSUME CfgInductive, BlocksInv, [Next]_vars PROVE BlocksInv'
    OBVIOUS
<1>1. ASSUME UNCHANGED <<code, blocks>>,
             at' = "list" => left' = left /\ at = "list",
             at' \in {"list", "done"} => UNCHANGED exported /\ at \in {"list", "done"}
      PROVE  BlocksInv'
    BY <1>1 DEF BlocksInv, OnlyDeadEdgesGo, Verdicts, Blocks
<1>2. CASE BuildCFG \/ StartPass \/ EndPass
    BY <1>1, <1>2 DEF BuildCFG, TakeBlock, FollowSuccessor, BlockVisited, EndBuild, StartPass, EndPass, StartBuild
<1>3. CASE EndListing \/ UNCHANGED vars
    BY <1>1, <1>3 DEF EndListing, vars, listing
<1>4. CASE Export
    <2>1. UNCHANGED <<code, blocks>> /\ exported' = blocks /\ ToSet(left') = {}
        BY <1>4 DEF Export, ToSet
    <2> QED BY <2>1 DEF BlocksInv, OnlyDeadEdgesGo, Verdicts
<1>5. CASE ListBlock
    <2>1. UNCHANGED <<code, blocks, exported>> /\ at = "list" /\ at' = at
        BY <1>5 DEF ListBlock
    <2>2. left' = left \/ \E i \in Blocks : left' = blocks[i].succs
        BY <1>5 DEF ListBlock, CfgInductive, ListingTypeOK
    <2> QED BY <2>1, <2>2 DEF BlocksInv, OnlyDeadEdgesGo, Verdicts, Blocks
<1> QED
    BY <1>2, <1>3, <1>4, <1>5, ApplyVerdictBlocks, ListSuccessorBlocks
    DEF Next, GetDisassembly, CfgInductive, GraphInv

\* OpaquePredicatePass takes from a block at most the successor that one of its
\* verdicts says is never followed, and that once, however often the pass runs; and
\* the listing of the results splits none of the blocks (OpaquePredicatePass::Run,
\* Function::GetDisassembly).
THEOREM OnlyDeadEdgesGoHolds == Spec => []OnlyDeadEdgesGo
<1>1. BlocksInv => OnlyDeadEdgesGo
    BY DEF BlocksInv
<1> QED BY InitInductive, NextCfg, InitBlocks, NextBlocks, <1>1, PTL DEF Spec
-----------------------------------------------------------------------------
(* The listing of the results. *)

\* The blocks of a function lie apart, and one that is open has no successors.
\* Only the blocks of instructions that overlap break the first.
LieApart(bs) ==
    /\ \A i, j \in 1..Len(bs) : bs[i].start = bs[j].start => i = j
    /\ \A i, j \in 1..Len(bs) : ~Inside(bs[i], bs[j].start)
    /\ \A i \in 1..Len(bs) : bs[i].end <= bs[i].start => ToSet(bs[i].succs) = {}

\* What the graph shows, and what the listing has or will have of it.
SuccessorsOf(S) == UNION {ToSet(blocks[i].succs) : i \in S}
Shown == visited \cup OpenAt(blocks[1].start) \cup UNION {OpenAt(a) : a \in SuccessorsOf(visited)}
Found == ToSet(listed) \cup pending

\* In the middle of the listing: what is found is shown, each block is written once,
\* and every successor of one that is written is found, or is still to look up.
ListingInv ==
    at \in {"list", "done"} =>
        /\ visited = Reachable
        /\ IsInjective(listed)
        /\ 1 \in Found /\ Found \subseteq Shown
        /\ ToSet(left) \subseteq SuccessorsOf(ToSet(listed))
        /\ \A s \in SuccessorsOf(ToSet(listed)) : s \in ToSet(left) \/ BlockAt(blocks, s) \in Found \cup {0}
        /\ at = "done" => left = <<>> /\ pending = {}

\* A lookup that finds a block finds the first that starts at the address or
\* holds it inside.
LEMMA BlockAtIsFirst ==
    ASSUME NEW bs, Len(bs) \in Nat, NEW a, NEW j \in 1..Len(bs), bs[j].start = a \/ Inside(bs[j], a)
    PROVE  /\ BlockAt(bs, a) \in 1..j
           /\ bs[BlockAt(bs, a)].start = a \/ Inside(bs[BlockAt(bs, a)], a)
<1> DEFINE I == {i \in 1..Len(bs) : bs[i].start = a \/ Inside(bs[i], a)}
           m == BlockAt(bs, a)
<1>1. m = IF I # {} THEN Min(I) ELSE 0
    BY DEF BlockAt, SelectInSeq
<1>2. I \in SUBSET Nat /\ j \in I
    OBVIOUS
<1> HIDE DEF m
<1>3. m \in I /\ \A i \in I : m <= i
    <2> HIDE DEF I
    <2> QED BY <1>1, <1>2, NatMin
<1> QED BY <1>2, <1>3 DEF m

\* A lookup that answers has found a block that covers the address.
LEMMA BlockCoveringCovers ==
    ASSUME NEW bs, Len(bs) \in Nat, NEW a
    PROVE  /\ BlockCovering(bs, a) # 0 =>
                 BlockCovering(bs, a) \in 1..Len(bs) /\ Covers(bs[BlockCovering(bs, a)], a)
           /\ BlockCovering(bs, a) = 0 => \A j \in 1..Len(bs) : ~Covers(bs[j], a)
<1> DEFINE I == {i \in 1..Len(bs) : Covers(bs[i], a)}
           m == BlockCovering(bs, a)
<1>1. m = IF I # {} THEN Min(I) ELSE 0
    BY DEF BlockCovering, SelectInSeq
<1>2. I \in SUBSET Nat
    OBVIOUS
<1>3. I # {} => m \in I
    <2> HIDE DEF I, m
    <2> QED BY <1>1, <1>2, NatMin
<1>4. I = {} => m = 0
    BY <1>1
<1>5. m = 0 => I = {}
    BY <1>3
<1> HIDE DEF m
<1> QED BY <1>3, <1>4, <1>5 DEF m

\* Of blocks that lie apart the lookup of the graph and that of the listing find
\* the same one, if it is not open.
LEMMA LookupsAgree ==
    ASSUME NEW bs \in Seq(Block(Nat)), LieApart(bs), NEW a \in Nat, ~NeedsSplit(bs, a)
    PROVE  /\ BlockAt(bs, a) # 0 => bs[BlockAt(bs, a)].start = a
           /\ BlockCovering(bs, a) # 0 => BlockCovering(bs, a) = BlockAt(bs, a)
           /\ BlockAt(bs, a) # 0 /\ BlockCovering(bs, a) = 0 =>
                 bs[BlockAt(bs, a)].end <= bs[BlockAt(bs, a)].start
<1> DEFINE m == BlockAt(bs, a)
           c == BlockCovering(bs, a)
<1>1. /\ Len(bs) \in Nat /\ m \in 0..Len(bs)
      /\ \A i \in 1..Len(bs) : bs[i].start \in Nat /\ bs[i].end \in Nat
    <2>1. Len(bs) \in Nat /\ \A i \in 1..Len(bs) : bs[i] \in Block(Nat)
        BY ElementOfSeq
    <2> QED BY <2>1, BlockAtType DEF Block
<1>2. m # 0 => bs[m].start = a
    BY DEF NeedsSplit
<1>3. ASSUME c # 0 PROVE c = m
    <2>1. c \in 1..Len(bs) /\ Covers(bs[c], a)
        BY <1>1, <1>3, BlockCoveringCovers
    <2>2. bs[c].start = a \/ Inside(bs[c], a)
        <3> HIDE DEF c
        <3> QED BY <1>1, <2>1 DEF Covers, Inside
    <2> HIDE DEF c
    <2>3. m \in 1..c
        BY <1>1, <2>1, <2>2, BlockAtIsFirst
    <2>4. m \in 1..Len(bs) /\ bs[m].start = a
        <3> HIDE DEF m
        <3> QED BY <1>1, <1>2, <2>1, <2>3
    <2> HIDE DEF m
    <2> QED BY <2>1, <2>2, <2>4 DEF LieApart
<1>4. ASSUME m # 0, c = 0 PROVE bs[m].end <= bs[m].start
    <2>1. m \in 1..Len(bs) /\ ~Covers(bs[m], a)
        BY <1>1, <1>4, BlockCoveringCovers
    <2> HIDE DEF m
    <2>2. bs[m].start = a /\ bs[m].start \in Nat /\ bs[m].end \in Nat
        BY <1>1, <1>2, <1>4, <2>1
    <2> QED BY <2>1, <2>2 DEF Covers
<1> QED BY <1>2, <1>3, <1>4

\* The blocks as the pass leaves them still lie apart.
LEMMA StillApart ==
    ASSUME TypeOK, BlocksInv, LieApart(code.blocks)
    PROVE  LieApart(blocks)
<1>1. /\ Blocks = 1..Len(blocks) /\ Blocks = 1..Len(code.blocks)
      /\ \A j \in Blocks : blocks[j].start = code.blocks[j].start /\ blocks[j].end = code.blocks[j].end
    BY ShapeStays DEF Blocks
<1>2. \A j \in Blocks : ToSet(blocks[j].succs) \subseteq ToSet(code.blocks[j].succs)
    BY <1>1 DEF BlocksInv, OnlyDeadEdgesGo
<1> QED BY <1>1, <1>2 DEF LieApart, Inside

\* The successors of the blocks, and the start of the first, split none of them.
LEMMA LookupsOfTheListing ==
    ASSUME TypeOK, BlocksInv
    PROVE  /\ \A i \in Blocks : \A s \in ToSet(blocks[i].succs) : s \in Nat /\ ~NeedsSplit(blocks, s)
           /\ 1 \in Blocks /\ blocks[1].start \in Nat
           /\ BlockAt(blocks, blocks[1].start) = 1 /\ ~NeedsSplit(blocks, blocks[1].start)
<1>1. Len(blocks) \in Nat /\ 1 \in Blocks /\ Blocks = 1..Len(blocks) /\ \A i \in Blocks : blocks[i] \in Block(Nat)
    BY ElementOfSeq DEF TypeOK, Blocks
<1>2. ASSUME NEW i \in Blocks, NEW s \in ToSet(blocks[i].succs) PROVE s \in Nat /\ ~NeedsSplit(blocks, s)
    <2>1. blocks[i].succs \in Seq(Nat)
        BY <1>1 DEF Block
    <2>2. s \in Nat
        BY <2>1, Elements, ElementOfSeq
    <2> QED BY <1>1, <2>2, NoSplitLeft DEF BlocksInv
<1>3. BlockAt(blocks, blocks[1].start) = 1
    <2>1. BlockAt(blocks, blocks[1].start) \in 1..1
        BY <1>1, BlockAtIsFirst
    <2> QED BY <2>1
<1> QED BY <1>1, <1>2, <1>3 DEF NeedsSplit, Block

\* What the listing leads to from a block that is shown is shown.
LEMMA ShownIsClosed ==
    ASSUME TypeOK, BlocksInv, LieApart(code.blocks), visited = Reachable
    PROVE  \A i \in Shown : i \in Blocks /\ \A s \in ToSet(blocks[i].succs) :
                                               BlockAt(blocks, s) \in Shown \cup {0}
<1>1. LieApart(blocks) /\ blocks \in Seq(Block(Nat)) /\ Len(blocks) \in Nat /\ Blocks = 1..Len(blocks)
    BY StillApart DEF TypeOK, Blocks
<1>2. visited \subseteq Blocks /\ IsClosed(visited)
    BY ReachableIsLeast
<1>3. ASSUME NEW i \in visited, NEW s \in ToSet(blocks[i].succs)
      PROVE  s \in SuccessorsOf(visited) /\ (BlockCovering(blocks, s) # 0 => BlockCovering(blocks, s) \in visited)
    <2>1. i \in Blocks /\ blocks[i].succs \in Seq(Nat)
        <3>1. i \in Blocks /\ blocks[i] \in Block(Nat)
            BY <1>2, ShapeStays
        <3> QED BY <3>1 DEF Block
    <2>2. PICK k \in 1..Len(blocks[i].succs) : s = blocks[i].succs[k]
        BY <2>1, Elements
    <2>3. BlockCovering(blocks, s) # 0 => BlockCovering(blocks, s) \in Follows(i)
        BY <2>2 DEF Follows, Successor
    <2> QED BY <1>2, <2>3 DEF IsClosed, SuccessorsOf
\* An open block is shown: it has no successors.
<1>4. ASSUME NEW i \in Shown, i \notin visited PROVE i \in Blocks /\ ToSet(blocks[i].succs) = {}
    <2>1. PICK a \in {blocks[1].start} \cup SuccessorsOf(visited) : i \in OpenAt(a)
        BY <1>4 DEF Shown
    <2>2. a \in Nat /\ ~NeedsSplit(blocks, a)
        BY <1>2, <2>1, LookupsOfTheListing DEF SuccessorsOf
    <2>3. i = BlockAt(blocks, a) /\ i # 0
        BY <2>1 DEF OpenAt
    <2>4. BlockCovering(blocks, a) # 0 => BlockCovering(blocks, a) \in visited
        <3>1. CASE a = blocks[1].start
            BY <1>2, <3>1 DEF IsClosed, Entry
        <3>2. CASE a \in SuccessorsOf(visited)
            BY <1>3, <3>2 DEF SuccessorsOf
        <3> QED BY <2>1, <3>1, <3>2
    <2>5. BlockCovering(blocks, a) = 0
        BY <1>1, <1>4, <2>2, <2>3, <2>4, LookupsAgree
    <2>6. i \in Blocks /\ blocks[i].end <= blocks[i].start
        BY <1>1, <2>2, <2>3, <2>5, LookupsAgree, BlockAtType
    <2> QED BY <1>1, <2>6 DEF LieApart
<1>5. ASSUME NEW i \in visited, NEW s \in ToSet(blocks[i].succs)
      PROVE  BlockAt(blocks, s) \in Shown \cup {0}
    BY <1>3 DEF Shown, OpenAt
<1> QED BY <1>2, <1>4, <1>5
\* While the blocks, the graph and what is found stay, so does what is said of them.
LEMMA SameListing ==
    ASSUME UNCHANGED <<blocks, visited>>
    PROVE  /\ Shown' = Shown /\ Reachable' = Reachable
           /\ \A S : SuccessorsOf(S)' = SuccessorsOf(S)
           /\ \A a : BlockAt(blocks, a)' = BlockAt(blocks, a)
BY SameBlocks DEF Shown, OpenAt, SuccessorsOf

LEMMA ExportListing == CfgInductive /\ BlocksInv /\ Export => ListingInv'
<1> SUFFICES ASSUME CfgInductive, BlocksInv, Export PROVE ListingInv'
    OBVIOUS
<1>1. /\ at' = "list" /\ UNCHANGED <<blocks, visited>> /\ visited = Reachable
      /\ pending' = {1} /\ listed' = <<>> /\ left' = <<>>
    BY DEF Export, walk, CfgInductive, GraphInv, GraphIsReachable, IsGraph
<1>2. ToSet(listed') = {} /\ ToSet(left') = {} /\ IsInjective(listed')
    BY <1>1 DEF ToSet, IsInjective
<1>3. 1 \in Shown
    BY <1>1, LookupsOfTheListing DEF Shown, OpenAt, CfgInductive, GraphInv
<1>4. Found' = {1}
    BY <1>1, <1>2 DEF Found
<1>5. SuccessorsOf({}) = {}
    BY DEF SuccessorsOf
<1> QED BY <1>1, <1>2, <1>3, <1>4, <1>5, SameListing DEF ListingInv

\* A block with the start of one that is written is that one, so none is written twice.
LEMMA ListBlockListing ==
    CfgInductive /\ BlocksInv /\ LieApart(code.blocks) /\ ListingInv /\ ListBlock => ListingInv'
<1> SUFFICES ASSUME CfgInductive, BlocksInv, LieApart(code.blocks), ListingInv, ListBlock
             PROVE  ListingInv'
    OBVIOUS
<1>1. /\ at = "list" /\ at' = at /\ left = <<>> /\ UNCHANGED <<blocks, visited>>
    BY DEF ListBlock, walk
<1>2. PICK i \in pending :
        /\ pending' = pending \ {i}
        /\ IF Listed(blocks[i].start) THEN UNCHANGED <<listed, left>>
           ELSE listed' = Append(listed, i) /\ left' = blocks[i].succs
    BY DEF ListBlock
<1>3. LieApart(blocks) /\ i \in Blocks /\ Blocks = 1..Len(blocks) /\ listed \in Seq(Blocks) /\ ToSet(left) = {}
    BY <1>1, StillApart DEF CfgInductive, GraphInv, ListingTypeOK, Blocks, ToSet
<1>4. CASE Listed(blocks[i].start)
    <2>1. PICK k \in ToSet(listed) : blocks[k].start = blocks[i].start
        BY <1>4 DEF Listed
    <2>2. k \in Blocks
        BY <1>3, Elements, ElementOfSeq
    <2>3. k = i
        BY <1>3, <2>1, <2>2 DEF LieApart
    <2>4. Found' = Found /\ UNCHANGED <<listed, left>>
        BY <1>2, <1>4, <2>1, <2>3 DEF Found
    <2> QED BY <1>1, <2>4, SameListing DEF ListingInv
<1>5. CASE ~Listed(blocks[i].start)
    <2>1. listed' = Append(listed, i) /\ left' = blocks[i].succs /\ i \notin ToSet(listed)
        BY <1>2, <1>5 DEF Listed
    <2>2. ToSet(listed') = ToSet(listed) \cup {i}
        BY <1>3, <2>1, PushElements
    <2>3. Found' = Found
        BY <1>2, <2>2 DEF Found
    <2>4. IsInjective(listed')
        <3>1. /\ Len(listed) \in Nat /\ DOMAIN listed = 1..Len(listed)
              /\ DOMAIN listed' = 1..Len(listed) + 1 /\ listed'[Len(listed) + 1] = i
              /\ \A n \in 1..Len(listed) : listed'[n] = listed[n] /\ listed[n] # i
            BY <1>3, <2>1, AppendProperties, Elements
        <3>2. \A m, n \in 1..Len(listed) : listed[m] = listed[n] => m = n
            BY <1>1, <3>1 DEF ListingInv, IsInjective
        <3>3. \A n \in 1..Len(listed) + 1 : n \in 1..Len(listed) \/ n = Len(listed) + 1
            BY <3>1
        <3> QED BY <3>1, <3>2, <3>3 DEF IsInjective
    <2>5. SuccessorsOf(ToSet(listed')) = SuccessorsOf(ToSet(listed)) \cup ToSet(left')
        BY <2>1, <2>2 DEF SuccessorsOf
    <2> QED BY <1>1, <1>3, <2>3, <2>4, <2>5, SameListing DEF ListingInv
<1> QED BY <1>4, <1>5

\* The block at a successor is found; the set has it if it has one of its start.
LEMMA ListSuccessorListing ==
    CfgInductive /\ BlocksInv /\ LieApart(code.blocks) /\ ListingInv /\ ListSuccessor => ListingInv'
<1> SUFFICES ASSUME CfgInductive, BlocksInv, LieApart(code.blocks), ListingInv, ListSuccessor
             PROVE  ListingInv'
    OBVIOUS
<1> DEFINE a == Head(left)
           i == BlockAt(blocks, a)
<1>1. /\ at = "list" /\ at' = at /\ left # <<>> /\ left' = Tail(left)
      /\ UNCHANGED <<visited, listed>>
    BY DEF ListSuccessor, walk
<1>2. ToSet(left) = {a} \cup ToSet(left')
    BY <1>1, PopElements DEF CfgInductive, ListingTypeOK
<1>3. TypeOK /\ LieApart(blocks) /\ Blocks = 1..Len(blocks) /\ pending \subseteq Blocks
    BY StillApart DEF CfgInductive, GraphInv, ListingTypeOK, Blocks
<1>4. PICK k \in ToSet(listed) : a \in ToSet(blocks[k].succs)
    BY <1>1, <1>2 DEF ListingInv, SuccessorsOf
<1>5. k \in Shown
    BY <1>1, <1>4 DEF ListingInv, Found
<1>6. k \in Blocks /\ i \in Shown \cup {0}
    BY <1>1, <1>3, <1>4, <1>5, ShownIsClosed DEF ListingInv
<1>7. a \in Nat /\ ~NeedsSplit(blocks, a)
    BY <1>3, <1>4, <1>6, LookupsOfTheListing
<1>8. /\ blocks' = blocks
      /\ pending' = IF i = 0 \/ \E j \in pending : blocks[j].start = a THEN pending ELSE pending \cup {i}
    BY <1>7 DEF ListSuccessor
<1>9. i # 0 => i \in Blocks /\ blocks[i].start = a
    BY <1>3, <1>7, LookupsAgree, BlockAtType DEF TypeOK
<1>10. pending' = pending \cup ({i} \ {0})
    <2> HIDE DEF a, i
    <2>1. ASSUME i # 0, NEW j \in pending, blocks[j].start = a PROVE i \in pending
        BY <1>3, <1>9, <2>1 DEF LieApart
    <2> QED BY <1>8, <2>1
<1>11. Found' = Found \cup ({i} \ {0})
    BY <1>1, <1>10 DEF Found
<1>12. \A s \in SuccessorsOf(ToSet(listed)) : s \in ToSet(left') \/ BlockAt(blocks, s) \in Found' \cup {0}
    BY <1>1, <1>2, <1>11 DEF ListingInv
<1> HIDE DEF a, i
<1> QED BY <1>1, <1>2, <1>6, <1>8, <1>11, <1>12, SameListing DEF ListingInv

LEMMA NextListing ==
    CfgInductive /\ BlocksInv /\ (LieApart(code.blocks) => ListingInv) /\ [Next]_vars
        => (LieApart(code.blocks) => ListingInv)'
<1> SUFFICES ASSUME CfgInductive, BlocksInv, LieApart(code.blocks) => ListingInv, [Next]_vars,
                    LieApart(code.blocks)'
             PROVE  ListingInv'
    OBVIOUS
<1>1. code' = code
    BY DEF Next, BuildCFG, TakeBlock, FollowSuccessor, BlockVisited, EndBuild, StartPass, ApplyVerdict,
       EndPass, Export, GetDisassembly, ListBlock, ListSuccessor, EndListing, vars
<1>2. LieApart(code.blocks) /\ ListingInv
    BY <1>1
<1>3. CASE BuildCFG \/ StartPass \/ ApplyVerdict \/ EndPass
    <2>1. at' \notin {"list", "done"}
        BY <1>3 DEF BuildCFG, TakeBlock, FollowSuccessor, BlockVisited, EndBuild, StartPass, ApplyVerdict,
           EndPass, StartBuild
    <2> QED BY <2>1 DEF ListingInv
<1>4. CASE EndListing \/ UNCHANGED vars
    <2>1. /\ UNCHANGED <<blocks, visited, listed, left, pending>>
          /\ at' = at \/ (at = "list" /\ at' = "done" /\ left = <<>> /\ pending = {})
        BY <1>4 DEF EndListing, vars, walk, listing
    <2>2. Found' = Found
        BY <2>1 DEF Found
    <2> QED BY <1>2, <2>1, <2>2, SameListing DEF ListingInv
<1> QED
    BY <1>2, <1>3, <1>4, ExportListing, ListBlockListing, ListSuccessorListing DEF Next, GetDisassembly

\* When nothing is left to look up, the blocks that are written are closed under the
\* edges of the graph, so that all it reaches is among them.
LEMMA ListingShowsTheGraph ==
    ASSUME TypeOK, BlocksInv, LieApart(code.blocks), ListingInv, at = "done"
    PROVE  IsInjective(listed) /\ ToSet(listed) = Shown
<1> DEFINE L == ToSet(listed)
<1>1. /\ visited = Reachable /\ IsInjective(listed) /\ 1 \in L /\ L \subseteq Shown
      /\ \A i \in L : \A s \in ToSet(blocks[i].succs) : BlockAt(blocks, s) \in L \cup {0}
    BY DEF ListingInv, Found, SuccessorsOf, ToSet
<1>2. LieApart(blocks) /\ blocks \in Seq(Block(Nat)) /\ Len(blocks) \in Nat /\ Blocks = 1..Len(blocks)
    BY StillApart DEF TypeOK, Blocks
<1> HIDE DEF L
<1>3. L \subseteq Blocks
    BY <1>1, ShownIsClosed
<1>4. Entry # 0 => Entry \in L
    BY <1>1, <1>2, LookupsOfTheListing, LookupsAgree DEF Entry
<1>5. ASSUME NEW i \in L PROVE Follows(i) \subseteq L
    <2> SUFFICES ASSUME NEW k \in 1..Len(blocks[i].succs), Successor(i, k) # 0
                 PROVE  Successor(i, k) \in L
        BY DEF Follows
    <2>1. i \in Blocks /\ blocks[i].succs \in Seq(Nat)
        <3>1. i \in Blocks /\ blocks[i] \in Block(Nat)
            BY <1>3, ShapeStays
        <3> QED BY <3>1 DEF Block
    <2> DEFINE s == blocks[i].succs[k]
    <2>2. s \in ToSet(blocks[i].succs)
        BY <2>1, Elements
    <2>3. s \in Nat /\ ~NeedsSplit(blocks, s)
        BY <2>1, <2>2, LookupsOfTheListing
    <2> HIDE DEF s
    <2>4. BlockCovering(blocks, s) # 0 => BlockCovering(blocks, s) = BlockAt(blocks, s)
        BY <1>2, <2>3, LookupsAgree
    <2> QED BY <1>1, <2>2, <2>4 DEF Successor, s
<1>6. visited \subseteq L
    BY <1>1, <1>3, <1>4, <1>5, ReachableIsLeast DEF IsClosed
<1>7. Shown \subseteq L
    <2>1. OpenAt(blocks[1].start) \subseteq L
        BY <1>1, LookupsOfTheListing DEF OpenAt
    <2>2. \A a \in SuccessorsOf(visited) : OpenAt(a) \subseteq L
        BY <1>1, <1>6 DEF OpenAt, SuccessorsOf
    <2> QED BY <1>6, <2>1, <2>2 DEF Shown
<1> QED BY <1>1, <1>7 DEF L

\* Of a function whose blocks lie apart the results are of one graph: the listing
\* splits none of the blocks that were exported before it, and shows, once each, the
\* blocks BuildCFG visited and the open ones they lead to (AnalysisResult's
\* SerializeFunction, Function::GetDisassembly).
THEOREM ExportIsOfOneGraphHolds == Spec => [](LieApart(code.blocks) => ExportIsOfOneGraph)
<1> DEFINE L == LieApart(code.blocks) => ListingInv
<1>1. Init => L
    BY DEF Init, ListingInv
<1>2. CfgInductive /\ BlocksInv /\ L => (LieApart(code.blocks) => ExportIsOfOneGraph)
    <2> SUFFICES ASSUME CfgInductive, BlocksInv, L, LieApart(code.blocks) PROVE ExportIsOfOneGraph
        OBVIOUS
    <2>1. at \in {"list", "done"} => blocks = exported
        BY DEF BlocksInv
    <2>2. at = "done" => IsInjective(listed) /\ ToSet(listed) = Shown
        BY ListingShowsTheGraph DEF CfgInductive, GraphInv
    <2> QED BY <2>1, <2>2 DEF ExportIsOfOneGraph, Shown, SuccessorsOf
<1>3. CfgInductive /\ BlocksInv /\ L /\ [Next]_vars => L'
    BY NextListing
<1> QED BY InitInductive, NextCfg, InitBlocks, NextBlocks, <1>1, <1>2, <1>3, PTL DEF Spec
=============================================================================
