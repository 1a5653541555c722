------------------------------- MODULE CfgBuild -------------------------------
(***************************************************************************)
(* The control-flow graph of a function: Function::BuildCFG, which walks   *)
(* the blocks from the entry and adds an edge for every successor, and     *)
(* OpaquePredicatePass, which takes the edge out of a block that a branch  *)
(* with a known outcome never follows, and builds the graph again.  At the *)
(* end AnalysisResult exports the blocks and Function::GetDisassembly, a   *)
(* third walk, whose lookup splits a block that holds the address inside.  *)
(*                                                                         *)
(* A function is its block vector, as NormalizeBasicBlocks leaves it, and  *)
(* the verdicts of AbstractInterpretationPass: pairs of the address of a   *)
(* conditional branch and whether it is always taken.  Both are chosen     *)
(* once, in Init; the entry is the start of the first block.               *)
(***************************************************************************)
EXTENDS BasicBlocks, Integers

CONSTANTS
    Functions,      \* the functions, as records of blocks and verdicts
    MaxPasses       \* bound: how many times OpaquePredicatePass runs

\* What NormalizeBasicBlocks ends with: of a block that holds a successor inside,
\* an earlier block that starts there is found first.
SplitAtSuccessors(bs) ==
    \A i, j \in 1..Len(bs) : \A s \in ToSet(bs[i].succs) :
        bs[j].start < s /\ s < bs[j].end => \E h \in 1..j - 1 : bs[h].start = s

\* A block ends by a conditional branch, with two successors, or has at most one.
Code ==
    {c \in [blocks : Seq(Block(Nat)) \ {<<>>}, verdicts : SUBSET (Nat \X BOOLEAN)] :
        /\ \A i \in 1..Len(c.blocks) : Len(c.blocks[i].succs) <= 2
        /\ SplitAtSuccessors(c.blocks)
        /\ \A v, w \in c.verdicts : v[1] = w[1] => v = w}

ASSUME FunctionsAssumption == Functions \subseteq Code
ASSUME MaxPassesAssumption == MaxPasses \in Nat

VARIABLES
    code,       \* the function as it was recovered
    blocks,     \* basicBlocks_
    edges,      \* cfgGraph_, as the sequence of its add_edge calls
    visited,    \* BuildCFG: the blocks whose successors are in the graph
    toVisit,    \* BuildCFG: queue of blocks
    bb, succ,   \* BuildCFG: the block in hand, or 0; its next successor
    at,         \* "build", "pass", "idle", "list" or "done"
    verdicts,   \* OpaquePredicatePass: the verdicts it has still to apply
    modified,   \* OpaquePredicatePass: an edge was removed
    passes,     \* runs of OpaquePredicatePass so far
    exported,   \* AnalysisResult: its copy of the blocks
    pending,    \* GetDisassembly: its set toVisit of blocks
    listed,     \* GetDisassembly: the blocks it has written, in order
    left        \* GetDisassembly: the successors of the last one to look up

walk == <<edges, visited, toVisit, bb, succ>>
listing == <<exported, pending, listed, left>>
vars == <<code, blocks, walk, at, verdicts, modified, passes, listing>>

\* A block is known by its place in the vector.
Blocks == 1 .. Len(blocks)
Entry == BlockCovering(blocks, blocks[1].start)

\* The block at the k-th successor of a block, or 0.
Successor(i, k) == BlockCovering(blocks, blocks[i].succs[k])

Init ==
    /\ code \in Functions
    /\ blocks = code.blocks
    /\ edges = <<>> /\ visited = {} /\ bb = 0 /\ succ = 1
    /\ toVisit = IF Entry # 0 THEN <<Entry>> ELSE <<>>
    /\ at = "build"
    /\ verdicts = {} /\ modified = FALSE /\ passes = 0
    /\ exported = <<>> /\ pending = {} /\ listed = <<>> /\ left = <<>>

-----------------------------------------------------------------------------
(* BuildCFG. *)

\* Mutant: the graph is not cleared.
StartBuildOver ==
    /\ visited' = {} /\ bb' = 0 /\ succ' = 1
    /\ toVisit' = IF Entry # 0 THEN <<Entry>> ELSE <<>>
    /\ at' = "build"
    /\ UNCHANGED edges

\* BuildCFG up to its loop, as in Init.
StartBuild ==
    /\ edges' = <<>> /\ visited' = {} /\ bb' = 0 /\ succ' = 1
    /\ toVisit' = IF Entry # 0 THEN <<Entry>> ELSE <<>>
    /\ at' = "build"

TakeBlock ==
    /\ at = "build" /\ bb = 0 /\ toVisit # <<>>
    /\ bb' = Head(toVisit) /\ succ' = 1
    /\ toVisit' = Tail(toVisit)
    /\ UNCHANGED <<code, blocks, edges, visited, at, verdicts, modified, passes, listing>>

\* One successor: an edge if there is a block at it, and into the queue if that
\* was not visited.
FollowSuccessor ==
    /\ at = "build" /\ bb # 0 /\ succ <= Len(blocks[bb].succs)
    /\ LET next == Successor(bb, succ)
       IN  /\ edges' = IF next # 0 THEN Append(edges, <<bb, next>>) ELSE edges
           /\ toVisit' = IF next # 0 /\ next \notin visited THEN Append(toVisit, next) ELSE toVisit
    /\ succ' = succ + 1
    /\ UNCHANGED <<code, blocks, visited, bb, at, verdicts, modified, passes, listing>>

BlockVisited ==
    /\ at = "build" /\ bb # 0 /\ succ > Len(blocks[bb].succs)
    /\ visited' = visited \cup {bb} /\ bb' = 0
    /\ UNCHANGED <<code, blocks, edges, toVisit, succ, at, verdicts, modified, passes, listing>>

EndBuild ==
    /\ at = "build" /\ bb = 0 /\ toVisit = <<>>
    /\ at' = "idle"
    /\ UNCHANGED <<code, blocks, walk, verdicts, modified, passes, listing>>

-----------------------------------------------------------------------------
(* OpaquePredicatePass. *)

\* The pass reaches the function; without verdicts it has no opaque predicates.
StartPass ==
    /\ at = "idle" /\ passes < MaxPasses
    /\ code.verdicts # {}
    /\ at' = "pass" /\ verdicts' = code.verdicts /\ modified' = FALSE
    /\ passes' = passes + 1
    /\ UNCHANGED <<code, blocks, walk, listing>>

\* The first verdict of a std::map.
IsNext(v) == v \in verdicts /\ \A w \in verdicts : v[1] <= w[1]

\* Mutant: a verdict that does not apply is not stepped over.
ApplyWithoutStep ==
    /\ at = "pass"
    /\ \E v \in verdicts :
          /\ IsNext(v)
          /\ LET i == BlockCovering(blocks, v[1])
             IN  IF i # 0 /\ Len(blocks[i].succs) >= 2
                 THEN /\ blocks' = [blocks EXCEPT ![i] = RemoveSuccessor(@, Dead(@, v[2]))]
                      /\ verdicts' = verdicts \ {v}
                      /\ modified' = TRUE
                 ELSE UNCHANGED <<blocks, verdicts, modified>>
    /\ UNCHANGED <<code, walk, at, passes, listing>>

\* One verdict; a block that is missing, or has no choice, is left alone.
ApplyVerdict ==
    /\ at = "pass"
    /\ \E v \in verdicts :
          /\ IsNext(v)
          /\ verdicts' = verdicts \ {v}
          /\ LET i == BlockCovering(blocks, v[1])
             IN  IF i # 0 /\ Len(blocks[i].succs) >= 2
                 THEN /\ blocks' = [blocks EXCEPT ![i] = RemoveSuccessor(@, Dead(@, v[2]))]
                      /\ modified' = TRUE
                 ELSE UNCHANGED <<blocks, modified>>
    /\ UNCHANGED <<code, walk, at, passes, listing>>

\* Mutant: the graph is not built again.
EndPassOnly ==
    /\ at = "pass" /\ verdicts = {}
    /\ at' = "idle"
    /\ UNCHANGED <<code, blocks, walk, verdicts, modified, passes, listing>>

EndPass ==
    /\ at = "pass" /\ verdicts = {}
    /\ IF modified
       THEN StartBuild
       ELSE at' = "idle" /\ UNCHANGED walk
    /\ UNCHANGED <<code, blocks, verdicts, modified, passes, listing>>

-----------------------------------------------------------------------------
(* The results. *)

\* SerializeFunction: the blocks, then GetDisassembly, for the only time, up
\* to its loop.
Export ==
    /\ at = "idle"
    /\ at' = "list"
    /\ exported' = blocks
    /\ pending' = {1} /\ listed' = <<>> /\ left' = <<>>
    /\ UNCHANGED <<code, blocks, walk, verdicts, modified, passes>>

Listed(a) == \E i \in ToSet(listed) : blocks[i].start = a

\* The lowest block of the set, if none with its start has been written.
ListBlock ==
    /\ at = "list" /\ left = <<>>
    /\ \E i \in pending :
          /\ \A j \in pending : blocks[i].start <= blocks[j].start
          /\ pending' = pending \ {i}
          /\ IF Listed(blocks[i].start) THEN UNCHANGED <<listed, left>>
             ELSE listed' = Append(listed, i) /\ left' = blocks[i].succs
    /\ UNCHANGED <<code, blocks, walk, at, verdicts, modified, passes, exported>>

\* The block at a successor, split off if it is inside of one; the set has one
\* block of a start.
ListSuccessor ==
    /\ at = "list" /\ left # <<>>
    /\ left' = Tail(left)
    /\ LET a == Head(left)
           i == BlockAt(blocks, a)
           found == IF NeedsSplit(blocks, a) THEN Len(blocks) + 1 ELSE i
       IN  /\ blocks' = IF NeedsSplit(blocks, a) THEN SplitBlock(blocks, i, a) ELSE blocks
           /\ pending' = IF found = 0 \/ \E j \in pending : blocks[j].start = a
                         THEN pending ELSE pending \cup {found}
    /\ UNCHANGED <<code, walk, at, verdicts, modified, passes, exported, listed>>

EndListing ==
    /\ at = "list" /\ left = <<>> /\ pending = {}
    /\ at' = "done"
    /\ UNCHANGED <<code, blocks, walk, verdicts, modified, passes, listing>>

BuildCFG == TakeBlock \/ FollowSuccessor \/ BlockVisited \/ EndBuild

GetDisassembly == ListBlock \/ ListSuccessor \/ EndListing

Next == BuildCFG \/ StartPass \/ ApplyVerdict \/ EndPass \/ Export \/ GetDisassembly

Spec == Init /\ [][Next]_vars

\* All loops run to their end once started; the pass itself may never run.
FairSpec == Spec /\ WF_vars(BuildCFG \/ ApplyVerdict \/ EndPass \/ GetDisassembly)

-----------------------------------------------------------------------------
(* Properties. *)

TypeOK ==
    /\ code \in Code
    /\ blocks \in Seq(Block(Nat)) \ {<<>>}
    /\ \A i \in Blocks : Len(blocks[i].succs) <= 2
    /\ edges \in Seq(Blocks \X Blocks)
    /\ visited \subseteq Blocks
    /\ toVisit \in Seq(Blocks)
    /\ bb \in Blocks \cup {0} /\ succ \in 1 .. 3
    /\ at \in {"build", "pass", "idle", "list", "done"}
    /\ verdicts \subseteq code.verdicts /\ modified \in BOOLEAN
    /\ passes \in 0 .. MaxPasses

\* The blocks the entry leads to: the smallest set that holds the entry and the
\* successors of its members.
Follows(i) == {Successor(i, k) : k \in 1..Len(blocks[i].succs)} \ {0}
IsClosed(S) == (Entry # 0 => Entry \in S) /\ \A i \in S : Follows(i) \subseteq S
Reachable ==
    LET closed == {S \in SUBSET Blocks : IsClosed(S)}
    IN  {i \in Blocks : \A S \in closed : i \in S}

EdgesFrom(S) == UNION {{<<i, j>> : j \in Follows(i)} : i \in S}
IsGraph == visited = Reachable /\ ToSet(edges) = EdgesFrom(visited)

\* Outside the two passes the graph is that of the blocks as they are: the edges
\* of every block the entry leads to, and no other, after an edge was removed too.
GraphIsReachable == at = "idle" => IsGraph

\* In the middle of a walk the blocks visited have all their edges and the block
\* in hand those up to its next successor; all lead to nothing but blocks visited,
\* in hand or in the queue.
Seen == visited \cup ToSet(toVisit) \cup ({bb} \ {0})
FollowedSoFar == IF bb = 0 THEN {} ELSE {Successor(bb, k) : k \in 1 .. succ - 1} \ {0}

WalkInv ==
    at = "build" =>
        /\ Entry # 0 => Entry \in Seen
        /\ \A i \in visited : Follows(i) \subseteq Seen
        /\ FollowedSoFar \subseteq Seen
        /\ Seen \subseteq Reachable
        /\ ToSet(edges) = EdgesFrom(visited) \cup {<<bb, j>> : j \in FollowedSoFar}
        /\ bb # 0 => succ <= Len(blocks[bb].succs) + 1

\* Outside a walk no block is in hand; and while the pass has removed nothing the
\* graph still is that of the blocks.
PassInv ==
    /\ at # "build" => bb = 0
    /\ at = "pass" /\ ~modified => IsGraph

\* What the listing has in hand are blocks and addresses.
ListingTypeOK ==
    /\ exported \in Seq(Block(Nat))
    /\ pending \subseteq Blocks /\ listed \in Seq(Blocks) /\ left \in Seq(Nat)

GraphInv == TypeOK /\ GraphIsReachable /\ WalkInv /\ PassInv
CfgInductive == GraphInv /\ ListingTypeOK

\* What a verdict may do to a block: the successor that is never followed goes,
\* once, however often the pass runs; nothing else changes.
Verdicts(i) == {v \in code.verdicts : BlockCovering(code.blocks, v[1]) = i}

OnlyDeadEdgesGo ==
    \A i \in 1..Len(code.blocks) :
        LET old == code.blocks[i] IN
        blocks[i] # old =>
            /\ [blocks[i] EXCEPT !.succs = old.succs] = old
            /\ Len(blocks[i].succs) <= 1
            /\ \E v \in Verdicts(i) : ToSet(blocks[i].succs) = ToSet(old.succs) \ {Dead(old, v[2])}

\* The results are of one graph: the listing splits none of the blocks that
\* were exported before it, and it shows, once each, the blocks BuildCFG
\* visited and the open ones that they lead to, which only its lookup finds.
OpenAt(a) == LET i == BlockAt(blocks, a) IN {i} \ (visited \cup {0})
ExportIsOfOneGraph ==
    /\ at \in {"list", "done"} => blocks = exported
    /\ at = "done" =>
          /\ IsInjective(listed)
          /\ ToSet(listed) = visited \cup OpenAt(blocks[1].start)
                \cup UNION {OpenAt(a) : a \in UNION {ToSet(blocks[i].succs) : i \in visited}}

\* The walks and the pass come to an end, whatever cycles the graph has.
Termination == (at \notin {"idle", "done"}) ~> (at \in {"idle", "done"})
=============================================================================
