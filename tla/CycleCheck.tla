----------------------------- MODULE CycleCheck -----------------------------
(***************************************************************************)
(* The depth-first search with which the webhooks reject a TestGraph or a  *)
(* nudge graph that has a cycle (pkg/dag/verify.go).  Nodes are numbered   *)
(* in the order of their names, the order in which the search takes them.  *)
(*                                                                         *)
(* A step is one iteration of a loop; the recursion of dfsVisit is the     *)
(* stack.                                                                  *)
(***************************************************************************)
EXTENDS Integers, Sequences

CONSTANT N  \* how many nodes may occur in a graph

ASSUME NAssumption == N \in Nat

Nodes == 1..N
NoNode == 0

VARIABLES
  keys,    \* the keys of the adjacency map
  adj,     \* the adjacency map, with no neighbours for other nodes
  roots,   \* the keys that the outer loop has not looked at
  color,
  parent,
  stack,   \* the calls of dfsVisit: the node, and the neighbours left
  from,    \* traceCycle: the node the walk has come to,
  to,      \*   the node at which it ends,
  path,    \*   and the path so far
  pc

checkVars == <<keys, adj, roots, color, parent, stack, from, to, path, pc>>

Frames == [node: Nodes, left: SUBSET Nodes]

(* ValidateTestGraph and ValidateNudgeGraph build the map.  A TestGraph    *)
(* may name parents that are not keys; they have no neighbours.            *)
CheckInit ==
  /\ keys \in SUBSET Nodes
  /\ adj \in [Nodes -> SUBSET Nodes]
  /\ \A n \in Nodes \ keys : adj[n] = {}
  /\ roots = keys
  /\ color = [n \in Nodes |-> "white"]
  /\ parent = [n \in Nodes |-> NoNode]
  /\ stack = <<>>
  /\ from = NoNode /\ to = NoNode /\ path = <<>>
  /\ pc = "search"

Top == stack[Len(stack)]
Pop == SubSeq(stack, 1, Len(stack) - 1)
Without(m) == [stack EXCEPT ![Len(stack)] = [Top EXCEPT !.left = @ \ {m}]]

IsFirst(n, S) == n \in S /\ \A m \in S : n <= m

Graph == UNCHANGED <<keys, adj>>
NoTrace == UNCHANGED <<from, to, path>>

-----------------------------------------------------------------------------
(* dfsVisit colours the node and takes a copy of its neighbours.           *)
Call(n) == [node |-> n, left |-> adj[n]]

(* findCycleInAdjacencyList: the next key, which is visited if it is white. *)
NextRoot(n) ==
  /\ pc = "search" /\ stack = <<>>
  /\ IsFirst(n, roots)
  /\ roots' = roots \ {n}
  /\ IF color[n] = "white"
     THEN stack' = <<Call(n)>> /\ color' = [color EXCEPT ![n] = "gray"]
     ELSE UNCHANGED <<stack, color>>
  /\ UNCHANGED <<parent, pc>> /\ NoTrace /\ Graph

NoMoreRoots ==
  /\ pc = "search" /\ stack = <<>> /\ roots = {}
  /\ pc' = "done"
  /\ UNCHANGED <<roots, color, parent, stack>> /\ NoTrace /\ Graph

MutantSkipsGray(m) ==
  /\ pc = "search" /\ stack # <<>>
  /\ IsFirst(m, Top.left)
  /\ IF color[m] # "white"
     THEN stack' = Without(m) /\ UNCHANGED <<color, parent>>
     ELSE /\ stack' = Append(Without(m), Call(m))
          /\ color' = [color EXCEPT ![m] = "gray"]
          /\ parent' = [parent EXCEPT ![m] = Top.node]
  /\ UNCHANGED <<roots, pc>> /\ NoTrace /\ Graph

MutantParentNotSet(m) ==
  /\ pc = "search" /\ stack # <<>>
  /\ IsFirst(m, Top.left)
  /\ \/ /\ color[m] = "gray"
        /\ pc' = "trace" /\ from' = Top.node /\ to' = m
        /\ UNCHANGED <<stack, color, parent, path>>
     \/ /\ color[m] = "white"
        /\ stack' = Append(Without(m), Call(m))
        /\ color' = [color EXCEPT ![m] = "gray"]
        /\ UNCHANGED <<parent, pc>> /\ NoTrace
     \/ /\ color[m] = "black"
        /\ stack' = Without(m)
        /\ UNCHANGED <<color, parent, pc>> /\ NoTrace
  /\ UNCHANGED roots /\ Graph

(* dfsVisit, one neighbour: a gray one closes a cycle, a white one is      *)
(* visited, a black one is skipped.                                        *)
NextNeighbor(m) ==
  /\ pc = "search" /\ stack # <<>>
  /\ IsFirst(m, Top.left)
  /\ \/ /\ color[m] = "gray"
        /\ pc' = "trace" /\ from' = Top.node /\ to' = m
        /\ UNCHANGED <<stack, color, parent, path>>
     \/ /\ color[m] = "white"
        /\ stack' = Append(Without(m), Call(m))
        /\ color' = [color EXCEPT ![m] = "gray"]
        /\ parent' = [parent EXCEPT ![m] = Top.node]
        /\ UNCHANGED pc /\ NoTrace
     \/ /\ color[m] = "black"
        /\ stack' = Without(m)
        /\ UNCHANGED <<color, parent, pc>> /\ NoTrace
  /\ UNCHANGED roots /\ Graph

(* dfsVisit returns.                                                       *)
Return ==
  /\ pc = "search" /\ stack # <<>> /\ Top.left = {}
  /\ color' = [color EXCEPT ![Top.node] = "black"]
  /\ stack' = Pop
  /\ UNCHANGED <<roots, parent, pc>> /\ NoTrace /\ Graph

(* traceCycle: back along the parents, and the path is closed at the end.  *)
(* A walk past a root would go on for ever; its path is not followed.      *)
TraceBack ==
  /\ pc = "trace" /\ from # to
  /\ IF from = NoNode THEN UNCHANGED <<from, path>>
     ELSE path' = <<from>> \o path /\ from' = parent[from]
  /\ UNCHANGED <<roots, color, parent, stack, to, pc>> /\ Graph

TraceEnd ==
  /\ pc = "trace" /\ from = to
  /\ path' = <<to>> \o path \o <<to>>
  /\ pc' = "done"
  /\ UNCHANGED <<roots, color, parent, stack, from, to>> /\ Graph

CheckNext ==
  \/ \E n \in Nodes : NextRoot(n) \/ NextNeighbor(n)
  \/ NoMoreRoots \/ Return \/ TraceBack \/ TraceEnd

CheckSpec == CheckInit /\ [][CheckNext]_checkVars

-----------------------------------------------------------------------------
(* The state of the search keeps its type; traceCycle never walks past the *)
(* root of the search.                                                     *)
CheckTypeOK ==
  /\ keys \subseteq Nodes /\ roots \subseteq keys
  /\ adj \in [Nodes -> SUBSET Nodes]
  /\ color \in [Nodes -> {"white", "gray", "black"}]
  /\ parent \in [Nodes -> Nodes \cup {NoNode}]
  /\ stack \in Seq(Frames)
  /\ from \in Nodes \cup {NoNode} /\ to \in Nodes \cup {NoNode}
  /\ path \in Seq(Nodes)
  /\ pc \in {"search", "trace", "done"}
  /\ pc = "trace" => from \in Nodes /\ to \in Nodes

(* The reference: in a graph without cycles every non-empty set of nodes   *)
(* has one without a neighbour in the set.                                 *)
Acyclic == \A X \in SUBSET Nodes : X # {} => \E n \in X : adj[n] \cap X = {}

(* checkGraphForCycles accepts no graph with a cycle: the webhooks then    *)
(* let no TestGraph pass in which scenarios wait for each other.           *)
AcceptsOnlyAcyclic == (pc = "done" /\ path = <<>>) => Acyclic

(* checkGraphForCycles rejects no graph without a cycle.                   *)
RejectsOnlyCyclic == pc = "trace" => ~Acyclic

(* The path in the error message is a cycle of the graph that visits each  *)
(* of its nodes once: the parents that traceCycle follows were not         *)
(* overwritten by a later part of the search.                              *)
PathIsCycle ==
  (pc = "done" /\ path # <<>>) =>
    /\ path[1] = path[Len(path)]
    /\ \A i \in 1..(Len(path) - 1) : path[i + 1] \in adj[path[i]]
    /\ \A i, j \in 1..(Len(path) - 1) : path[i] = path[j] => i = j

(* checkGraphForCycles decides exactly: it accepts no graph with a cycle,  *)
(* rejects no graph without one, and the path it reports is a cycle.       *)
CheckIsExact == AcceptsOnlyAcyclic /\ RejectsOnlyCyclic /\ PathIsCycle
=============================================================================
