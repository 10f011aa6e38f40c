--------------------------- MODULE AlgorithmProofs ---------------------------
(***************************************************************************)
(* The two graph algorithms, for every graph: checkGraphForCycles accepts  *)
(* exactly the graphs without cycles, and the loops of                     *)
(* cascadeFailFastFromFailedScenarios compute the operator CascadeFailFast *)
(* whatever the order of iteration.                                        *)
(***************************************************************************)
EXTENDS CycleCheck, FailFastCascade, TestStatusProofs, SequenceTheorems

-----------------------------------------------------------------------------
(* checkGraphForCycles *)

Calls == 1..Len(stack)

(* The gray nodes are the ones on the stack, each there once.              *)
GrayOnStack ==
  /\ \A i \in Calls : color[stack[i].node] = "gray"
  /\ \A i, j \in Calls : stack[i].node = stack[j].node => i = j
  /\ \A n \in Nodes : color[n] = "gray" => \E i \in Calls : stack[i].node = n

(* The stack is a path of the graph, and parent remembers it.              *)
StackIsPath ==
  \A i \in Calls : i < Len(stack) =>
    /\ stack[i + 1].node \in adj[stack[i].node]
    /\ parent[stack[i + 1].node] = stack[i].node

(* A neighbour that a call has done with is black, or is being visited.    *)
DoneIsBlack ==
  \A i \in Calls :
    /\ stack[i].left \subseteq adj[stack[i].node]
    /\ \A m \in adj[stack[i].node] \ stack[i].left :
         color[m] = "black" \/ (i < Len(stack) /\ m = stack[i + 1].node)

IsBlack(X) == \A n \in X : color[n] = "black"

(* The black nodes are closed under adjacency and have no cycle.           *)
BlackAcyclic ==
  /\ \A n \in Nodes : color[n] = "black" => IsBlack(adj[n])
  /\ \A X \in SUBSET Nodes : (X # {} /\ IsBlack(X)) => \E n \in X : adj[n] \cap X = {}

RootsDone ==
  /\ \A n \in keys \ roots : color[n] # "white"
  /\ \A n \in Nodes \ keys : adj[n] = {}

(* traceCycle walks down the stack, from a node of it to a lower one.      *)
TraceOnStack ==
  pc = "trace" =>
    /\ \E i, j \in Calls : i <= j /\ stack[i].node = to /\ stack[j].node = from
    /\ ~Acyclic

(* A cycle was found, or the search is complete.                           *)
Outcome ==
  /\ pc = "search" => path = <<>>
  /\ (pc = "done" /\ path = <<>>) => stack = <<>> /\ roots = {}

SearchInv ==
  /\ CheckTypeOK /\ GrayOnStack /\ StackIsPath /\ DoneIsBlack /\ BlackAcyclic /\ RootsDone
  /\ TraceOnStack /\ Outcome

-----------------------------------------------------------------------------
(* What the steps do to the stack.                                         *)

(* The stack's entries have their types.                                   *)
LEMMA StackType ==
  ASSUME CheckTypeOK
  PROVE  /\ Len(stack) \in Nat
         /\ \A i \in Calls : stack[i] \in Frames
         /\ stack # <<>> => Len(stack) > 0 /\ Len(stack) \in Calls
         /\ stack = <<>> => Len(stack) = 0 /\ Calls = {}
<1>1. stack \in Seq(Frames)
  BY DEF CheckTypeOK
<1>2. Len(stack) \in Nat /\ \A i \in Calls : stack[i] \in Frames
  BY <1>1, LenProperties, ElementOfSeq DEF Calls
<1>3. (stack # <<>> => Len(stack) \in Nat \ {0}) /\ (stack = <<>> => Len(stack) = 0)
  BY <1>1, EmptySeq
<1>4. QED
  BY <1>2, <1>3 DEF Calls

(* The calls stay, but m is taken from the last one's list of neighbours.  *)
Takes(m, new) ==
  \A i \in Calls :
    /\ new[i].node = stack[i].node
    /\ i = Len(stack) => new[i].left = stack[i].left \ {m}
    /\ i # Len(stack) => new[i].left = stack[i].left

(* A neighbour is taken from the last call's list.                         *)
LEMMA TakeNeighbor ==
  ASSUME CheckTypeOK, stack # <<>>, NEW m
  PROVE  Without(m) \in Seq(Frames) /\ Len(Without(m)) = Len(stack) /\ Takes(m, Without(m))
<1> DEFINE frame == [Top EXCEPT !.left = @ \ {m}]
<1>1. Len(stack) \in Calls /\ stack \in Seq(Frames) /\ Top \in Frames
  BY StackType DEF CheckTypeOK, Top
<1>2. frame \in Frames /\ frame.node = Top.node /\ frame.left = Top.left \ {m}
  BY <1>1 DEF Frames
<1> HIDE DEF frame
<1>3. /\ Without(m) \in Seq(Frames) /\ Len(Without(m)) = Len(stack)
      /\ \A i \in Calls : Without(m)[i] = IF i = Len(stack) THEN frame ELSE stack[i]
  BY <1>1, <1>2, ExceptSeq DEF Without, Calls, frame
<1>4. QED
  BY <1>2, <1>3 DEF Top, Takes

(* dfsVisit is called for the neighbour.                                   *)
LEMMA PushNeighbor ==
  ASSUME CheckTypeOK, stack # <<>>, NEW m \in Nodes, stack' = Append(Without(m), Call(m))
  PROVE  /\ stack' \in Seq(Frames) /\ Len(stack') = Len(stack) + 1
         /\ Takes(m, stack')
         /\ stack'[Len(stack) + 1].node = m
         /\ stack'[Len(stack) + 1].left = adj[m]
<1>1. Call(m) \in Frames /\ Call(m).node = m /\ Call(m).left = adj[m]
  BY DEF Call, Frames, CheckTypeOK
<1>2. Without(m) \in Seq(Frames) /\ Len(Without(m)) = Len(stack) /\ Takes(m, Without(m))
  BY TakeNeighbor
<1>3. PICK s \in Seq(Frames), e \in Frames : s = Without(m) /\ e = Call(m)
  BY <1>1, <1>2
<1>4. /\ Append(s, e) \in Seq(Frames) /\ Len(Append(s, e)) = Len(s) + 1
      /\ \A i \in 1..Len(s) : Append(s, e)[i] = s[i]
      /\ Append(s, e)[Len(s) + 1] = e
  BY AppendProperties
<1>5. /\ stack' \in Seq(Frames) /\ Len(stack') = Len(stack) + 1
      /\ \A i \in Calls : stack'[i] = Without(m)[i]
      /\ stack'[Len(stack) + 1] = Call(m)
  BY <1>2, <1>3, <1>4 DEF Calls
<1>6. Takes(m, stack')
  BY <1>2, <1>5, Zenon DEF Takes
<1>7. stack'[Len(stack) + 1].node = m /\ stack'[Len(stack) + 1].left = adj[m]
  BY <1>1, <1>5
<1>8. QED
  BY <1>5, <1>6, <1>7

(* dfsVisit returns.                                                       *)
LEMMA PopCall ==
  ASSUME CheckTypeOK, stack # <<>>
  PROVE  /\ Pop \in Seq(Frames) /\ Len(Pop) = Len(stack) - 1
         /\ \A i \in 1..(Len(stack) - 1) : Pop[i] = stack[i]
<1>1. Len(stack) \in Nat /\ Len(stack) > 0
  BY StackType
<1>2. PICK n \in Int : n = Len(stack) - 1
  BY <1>1
<1>a. \A i \in 1..n : stack[i] \in Frames
  BY <1>1, <1>2, StackType DEF Calls
<1>b. Pop = SubSeq(stack, 1, n)
  BY <1>2 DEF Pop
<1>3. /\ SubSeq(stack, 1, n) \in Seq(Frames)
      /\ Len(SubSeq(stack, 1, n)) = IF 1 <= n THEN n - 1 + 1 ELSE 0
      /\ \A i \in 1..(n - 1 + 1) : SubSeq(stack, 1, n)[i] = stack[1 + i - 1]
  BY <1>a, SubSeqProperties, SMT
<1>4. QED
  BY <1>1, <1>2, <1>b, <1>3

-----------------------------------------------------------------------------
(* The invariant holds on the graph as it was read.                        *)
LEMMA SearchInit == CheckInit => SearchInv
<1> SUFFICES ASSUME CheckInit PROVE SearchInv
  OBVIOUS
<1>1. CheckTypeOK
  BY EmptySeq DEF CheckInit, CheckTypeOK, NoNode
<1>2. Calls = {}
  BY <1>1, StackType DEF CheckInit
<1>3. QED
  BY <1>1, <1>2 DEF CheckInit, SearchInv, GrayOnStack, StackIsPath, DoneIsBlack, BlackAcyclic, IsBlack,
                    RootsDone, TraceOnStack, Outcome

(* A white key becomes the only gray node.                                 *)
LEMMA NextRootStep ==
  ASSUME SearchInv, NEW n \in Nodes, NextRoot(n)
  PROVE  SearchInv'
<1> USE DEF NextRoot, IsFirst, NoTrace, Graph
<1>a. CheckTypeOK /\ stack = <<>> /\ Calls = {} /\ n \in roots
  BY StackType DEF SearchInv
<1>1. CASE color[n] # "white"
  <2>1. CheckTypeOK' /\ Calls' = {}
    BY <1>a, <1>1 DEF CheckTypeOK, Calls
  <2>2. QED
    BY <1>a, <1>1, <2>1 DEF SearchInv, GrayOnStack, StackIsPath, DoneIsBlack, BlackAcyclic, IsBlack,
             RootsDone, TraceOnStack, Outcome, Acyclic
<1>2. CASE color[n] = "white"
  <2>1. Call(n) \in Frames /\ Call(n).node = n /\ Call(n).left = adj[n]
    BY <1>a DEF Call, Frames, CheckTypeOK
  <2>2. stack' = <<Call(n)>> /\ color' = [color EXCEPT ![n] = "gray"]
    BY <1>2
  <2>3. /\ stack' \in Seq(Frames) /\ Len(stack') = 1 /\ Calls' = {1} /\ stack'[1] = Call(n)
    BY <2>1, <2>2 DEF Calls
  <2>4. CheckTypeOK'
    BY <1>a, <2>2, <2>3 DEF CheckTypeOK
  <2>5. /\ \A m \in Nodes : color[m] # "gray"
        /\ \A m \in Nodes : color'[m] = IF m = n THEN "gray" ELSE color[m]
    BY <1>a, <2>2 DEF SearchInv, GrayOnStack, CheckTypeOK
  <2>6. GrayOnStack' /\ StackIsPath'
    BY <2>1, <2>3, <2>5, <1>a DEF GrayOnStack, StackIsPath, CheckTypeOK
  <2>7. DoneIsBlack' /\ RootsDone'
    BY <2>1, <2>3, <2>5, <1>a DEF DoneIsBlack, RootsDone, SearchInv, CheckTypeOK
  <2>8. BlackAcyclic'
    <3>1. \A X \in SUBSET Nodes : IsBlack(X)' => IsBlack(X)
      BY <2>5 DEF IsBlack
    <3>2. \A m \in Nodes : color[m] = "black" => IsBlack(adj[m])'
      BY <1>2, <1>a, <2>5 DEF SearchInv, BlackAcyclic, IsBlack, CheckTypeOK
    <3>3. QED
      BY <1>a, <2>5, <3>1, <3>2 DEF SearchInv, BlackAcyclic
  <2>9. TraceOnStack' /\ Outcome'
    BY <1>a DEF SearchInv, TraceOnStack, Outcome
  <2>10. QED
    BY <2>4, <2>6, <2>7, <2>8, <2>9 DEF SearchInv
<1>3. QED
  BY <1>1, <1>2

(* A gray neighbour closes a cycle: the part of the stack above it.        *)
LEMMA GrayNeighborStep ==
  ASSUME SearchInv, NEW m \in Nodes, NextNeighbor(m), color[m] = "gray"
  PROVE  SearchInv'
<1>a. CheckTypeOK /\ stack # <<>> /\ Len(stack) \in Calls /\ Len(stack) \in Nat
  BY StackType DEF SearchInv, NextNeighbor
<1>b. m \in Top.left /\ pc = "search" /\ pc' = "trace" /\ from' = Top.node /\ to' = m
      /\ UNCHANGED <<stack, color, parent, path, roots, keys, adj>>
  BY DEF NextNeighbor, IsFirst, Graph
<1>c. \A i \in Calls : stack[i] \in Frames /\ stack[i].node \in Nodes
  BY <1>a, StackType DEF Frames
<1>1. PICK i \in Calls : stack[i].node = m
  BY DEF SearchInv, GrayOnStack
<1>2. i <= Len(stack) /\ i \in Nat
  BY <1>a, <1>1 DEF Calls
<1>3. ~Acyclic
  <2> DEFINE X == {stack[k].node : k \in i..Len(stack)}
  <2>1. X \in SUBSET Nodes /\ m \in X
    BY <1>a, <1>1, <1>2, <1>c DEF Calls
  <2>2. ASSUME NEW k \in i..Len(stack) PROVE adj[stack[k].node] \cap X # {}
    <3>1. CASE k < Len(stack)
      <4>1. k \in Calls /\ k + 1 \in i..Len(stack)
        BY <1>2, <1>a, <2>2, <3>1 DEF Calls
      <4>2. stack[k + 1].node \in adj[stack[k].node] \cap X
        BY <3>1, <4>1 DEF SearchInv, StackIsPath
      <4>3. QED
        BY <4>2
    <3>2. CASE k = Len(stack)
      <4>1. m \in adj[stack[k].node]
        BY <1>a, <1>b, <3>2 DEF SearchInv, DoneIsBlack, Top
      <4>2. QED
        BY <2>1, <4>1
    <3>3. QED
      BY <1>2, <1>a, <2>2, <3>1, <3>2
  <2>3. \A n \in X : adj[n] \cap X # {}
    BY <2>2
  <2> HIDE DEF X
  <2>4. QED
    BY <2>1, <2>3 DEF Acyclic
<1>4. CheckTypeOK'
  BY <1>a, <1>b, <1>c DEF CheckTypeOK, Top
<1>5. Calls' = Calls
  BY <1>b DEF Calls
<1>6. TraceOnStack'
  <2>1. stack'[i].node = to' /\ stack'[Len(stack)].node = from'
    BY <1>1, <1>b DEF Top
  <2>2. (~Acyclic)'
    BY <1>3, <1>b DEF Acyclic
  <2>3. QED
    BY <1>1, <1>2, <1>a, <1>5, <2>1, <2>2 DEF TraceOnStack
<1>7. QED
  BY <1>4, <1>5, <1>6, <1>b DEF SearchInv, GrayOnStack, StackIsPath, DoneIsBlack, BlackAcyclic,
                                IsBlack, RootsDone, Outcome

(* A white neighbour is put on the stack.                                  *)
LEMMA WhiteNeighborStep ==
  ASSUME SearchInv, NEW m \in Nodes, NextNeighbor(m), color[m] = "white"
  PROVE  SearchInv'
<1> DEFINE l == Len(stack)
<1>a. CheckTypeOK /\ stack # <<>> /\ l \in Calls /\ l \in Nat /\ Calls = 1..l
  BY StackType DEF SearchInv, NextNeighbor, Calls
<1>b. /\ m \in stack[l].left /\ pc = "search" /\ UNCHANGED <<pc, roots, keys, adj, from, to, path>>
      /\ stack' = Append(Without(m), Call(m)) /\ color' = [color EXCEPT ![m] = "gray"]
      /\ parent' = [parent EXCEPT ![m] = stack[l].node]
  BY DEF NextNeighbor, IsFirst, Graph, NoTrace, Top
<1>c. \A i \in Calls : stack[i].node \in Nodes /\ stack[i].left \in SUBSET Nodes
  BY <1>a, StackType DEF Frames
<1>d. /\ stack' \in Seq(Frames) /\ Len(stack') = l + 1 /\ Takes(m, stack')
      /\ stack'[l + 1].node = m
      /\ stack'[l + 1].left = adj[m]
  BY <1>a, <1>b, PushNeighbor
<1>h. /\ stack' \in Seq(Frames) /\ Len(stack') = l + 1
      /\ \A i \in Calls : /\ stack'[i].node = stack[i].node
                          /\ i = l => stack'[i].left = stack[i].left \ {m}
                          /\ i # l => stack'[i].left = stack[i].left
  BY <1>d DEF Takes
<1>e. Calls' = Calls \cup {l + 1} /\ l + 1 \notin Calls
  BY <1>a, <1>d DEF Calls
<1>f. /\ color'[m] = "gray" /\ \A n \in Nodes : n # m => color'[n] = color[n]
      /\ parent'[m] = stack[l].node /\ \A n \in Nodes : n # m => parent'[n] = parent[n]
      /\ \A n \in Nodes : color[n] = "black" <=> color'[n] = "black"
  BY <1>a, <1>b DEF CheckTypeOK
<1>g. \A i \in Calls : stack[i].node # m
  BY DEF SearchInv, GrayOnStack
<1>1. CheckTypeOK'
  BY <1>a, <1>b, <1>c, <1>d, <1>h DEF CheckTypeOK
<1>2. GrayOnStack'
  <2>1. \A i \in Calls' : IF i = l + 1 THEN stack'[i].node = m
                          ELSE i \in Calls /\ stack'[i].node = stack[i].node
    BY <1>d, <1>h, <1>e
  <2>2. \A i \in Calls' : color'[stack'[i].node] = "gray"
    BY <1>c, <1>f, <2>1 DEF SearchInv, GrayOnStack
  <2>3. \A i, j \in Calls' : stack'[i].node = stack'[j].node => i = j
    BY <1>g, <2>1 DEF SearchInv, GrayOnStack
  <2>4. ASSUME NEW n \in Nodes, color'[n] = "gray" PROVE \E i \in Calls' : stack'[i].node = n
    <3>1. CASE n = m
      BY <1>d, <1>h, <1>e, <3>1
    <3>2. CASE n # m
      <4>1. PICK i \in Calls : stack[i].node = n
        BY <1>f, <2>4, <3>2, ZenonT(30) DEF SearchInv, GrayOnStack
      <4>2. QED
        BY <1>d, <1>h, <1>e, <4>1
    <3>3. QED
      BY <3>1, <3>2
  <2>5. QED
    BY <2>2, <2>3, <2>4 DEF GrayOnStack
<1>3. StackIsPath'
  <2>1. ASSUME NEW i \in Calls', i < l + 1
        PROVE  stack'[i + 1].node \in adj[stack'[i].node] /\ parent'[stack'[i + 1].node] = stack'[i].node
    <3>1. CASE i = l
      <4>1. m \in adj[stack[l].node]
        BY <1>a, <1>b DEF SearchInv, DoneIsBlack
      <4>2. QED
        BY <1>a, <1>d, <1>h, <1>f, <3>1, <4>1
    <3>2. CASE i # l
      <4>1. i \in Calls /\ i < l /\ i + 1 \in Calls
        BY <1>a, <1>e, <2>1, <3>2
      <4>2. stack[i + 1].node \in adj[stack[i].node] /\ parent[stack[i + 1].node] = stack[i].node
        BY <4>1 DEF SearchInv, StackIsPath
      <4>3. stack'[i].node = stack[i].node /\ stack'[i + 1].node = stack[i + 1].node
        BY <1>d, <1>h, <4>1
      <4>4. stack[i + 1].node \in Nodes /\ stack[i + 1].node # m
        BY <1>c, <1>g, <4>1
      <4>5. parent'[stack[i + 1].node] = parent[stack[i + 1].node]
        BY <1>f, <4>4
      <4>6. QED
        BY <4>2, <4>3, <4>5
    <3>3. QED
      BY <3>1, <3>2
  <2>2. QED
    BY <1>b, <1>d, <1>h, <2>1, Zenon DEF StackIsPath
<1>4. DoneIsBlack'
  <2>1. ASSUME NEW i \in Calls'
        PROVE  /\ stack'[i].left \subseteq adj[stack'[i].node]
               /\ \A k \in adj[stack'[i].node] \ stack'[i].left :
                    color'[k] = "black" \/ (i < l + 1 /\ k = stack'[i + 1].node)
    <3>1. CASE i = l + 1
      BY <1>d, <1>h, <3>1
    <3>2. CASE i = l
      <4>1. /\ stack[l].left \subseteq adj[stack[l].node]
            /\ \A k \in adj[stack[l].node] \ stack[l].left : color[k] = "black"
        BY <1>a DEF SearchInv, DoneIsBlack
      <4>2. adj[stack[l].node] \subseteq Nodes
        BY <1>a, <1>c DEF CheckTypeOK
      <4>3. /\ stack'[l].node = stack[l].node /\ stack'[l].left = stack[l].left \ {m}
            /\ stack'[l + 1].node = m /\ l < l + 1
        BY <1>a, <1>d, <1>h
      <4>4. \A k \in adj[stack[l].node] \ stack[l].left : color'[k] = "black"
        BY <1>f, <4>1, <4>2
      <4>5. QED
        BY <3>2, <4>1, <4>3, <4>4
    <3>3. CASE i # l + 1 /\ i # l
      <4>1. i \in Calls /\ i < l /\ i + 1 \in Calls
        BY <1>a, <1>e, <2>1, <3>3
      <4>2. /\ stack[i].left \subseteq adj[stack[i].node]
            /\ \A k \in adj[stack[i].node] \ stack[i].left :
                 color[k] = "black" \/ k = stack[i + 1].node
        BY <4>1 DEF SearchInv, DoneIsBlack
      <4>3. adj[stack[i].node] \subseteq Nodes
        BY <1>a, <1>c, <4>1 DEF CheckTypeOK
      <4>4. /\ stack'[i].node = stack[i].node /\ stack'[i].left = stack[i].left
            /\ stack'[i + 1].node = stack[i + 1].node /\ i < l + 1
        BY <1>a, <1>d, <1>h, <3>3, <4>1
      <4>5. \A k \in adj[stack[i].node] : color[k] = "black" => color'[k] = "black"
        BY <1>f, <4>3
      <4>6. QED
        BY <4>2, <4>4, <4>5
    <3>4. QED
      BY <3>1, <3>2, <3>3
  <2>2. Len(stack') = l + 1 /\ adj' = adj
    BY <1>b, <1>d
  <2>3. QED
    BY <2>1, <2>2 DEF DoneIsBlack
<1>5. BlackAcyclic'
  <2>1. \A X \in SUBSET Nodes : IsBlack(X)' => IsBlack(X)
    BY <1>f, ZenonT(30) DEF IsBlack
  <2>2. \A n \in Nodes : color[n] = "black" => IsBlack(adj[n])'
    BY <1>a, <1>b, <1>f, ZenonT(30) DEF SearchInv, BlackAcyclic, IsBlack, CheckTypeOK
  <2>3. QED
    BY <1>b, <1>f, <2>1, <2>2 DEF SearchInv, BlackAcyclic
<1>6. RootsDone' /\ TraceOnStack' /\ Outcome'
  BY <1>a, <1>b, <1>f DEF SearchInv, RootsDone, TraceOnStack, Outcome, CheckTypeOK
<1>7. QED
  BY <1>1, <1>2, <1>3, <1>4, <1>5, <1>6 DEF SearchInv

(* A black neighbour is skipped.                                           *)
LEMMA BlackNeighborStep ==
  ASSUME SearchInv, NEW m \in Nodes, NextNeighbor(m), color[m] = "black"
  PROVE  SearchInv'
<1> DEFINE l == Len(stack)
<1>a. CheckTypeOK /\ stack # <<>> /\ l \in Calls /\ l \in Nat /\ Calls = 1..l
  BY StackType DEF SearchInv, NextNeighbor, Calls
<1>b. /\ m \in stack[l].left /\ pc = "search" /\ stack' = Without(m)
      /\ UNCHANGED <<pc, roots, keys, adj, from, to, path, color, parent>>
  BY DEF NextNeighbor, IsFirst, Graph, NoTrace, Top
<1>c. stack' \in Seq(Frames) /\ Len(stack') = l /\ Takes(m, stack')
  BY <1>a, <1>b, TakeNeighbor
<1>d. \A i \in Calls : /\ stack'[i].node = stack[i].node
                       /\ i = l => stack'[i].left = stack[i].left \ {m}
                       /\ i # l => stack'[i].left = stack[i].left
  BY <1>c DEF Takes
<1>e. Calls' = Calls
  BY <1>c DEF Calls
<1>1. CheckTypeOK'
  BY <1>a, <1>b, <1>c DEF CheckTypeOK
<1>2. GrayOnStack'
  BY <1>b, <1>d, <1>e DEF SearchInv, GrayOnStack
<1>3. StackIsPath'
  <2>1. ASSUME NEW i \in Calls, i < l
        PROVE  stack'[i + 1].node \in adj[stack'[i].node] /\ parent[stack'[i + 1].node] = stack'[i].node
    <3>1. i + 1 \in Calls
      BY <1>a, <2>1
    <3>2. stack[i + 1].node \in adj[stack[i].node] /\ parent[stack[i + 1].node] = stack[i].node
      BY <2>1 DEF SearchInv, StackIsPath
    <3>3. QED
      BY <1>d, <3>1, <3>2
  <2>2. QED
    BY <1>b, <1>c, <1>e, <2>1 DEF StackIsPath
<1>4. DoneIsBlack'
  <2>1. ASSUME NEW i \in Calls
        PROVE  /\ stack'[i].left \subseteq adj[stack'[i].node]
               /\ \A k \in adj[stack'[i].node] \ stack'[i].left :
                    color[k] = "black" \/ (i < l /\ k = stack'[i + 1].node)
    <3>1. /\ stack[i].left \subseteq adj[stack[i].node]
          /\ \A k \in adj[stack[i].node] \ stack[i].left :
               color[k] = "black" \/ (i < l /\ k = stack[i + 1].node)
      BY DEF SearchInv, DoneIsBlack
    <3>2. i < l => stack'[i + 1].node = stack[i + 1].node
      <4>1. i < l => i + 1 \in Calls
        BY <1>a
      <4>2. QED
        BY <1>d, <4>1
    <3>3. CASE i = l
      BY <1>d, <3>1, <3>2, <3>3
    <3>4. CASE i # l
      BY <1>d, <3>1, <3>2, <3>4
    <3>5. QED
      BY <3>3, <3>4
  <2>2. QED
    BY <1>b, <1>c, <1>e, <2>1 DEF DoneIsBlack
<1>5. BlackAcyclic' /\ RootsDone' /\ TraceOnStack' /\ Outcome'
  BY <1>a, <1>b DEF SearchInv, BlackAcyclic, IsBlack, RootsDone, TraceOnStack, Outcome
<1>6. QED
  BY <1>1, <1>2, <1>3, <1>4, <1>5 DEF SearchInv

(* A call that returns leaves a black node, whose neighbours are black and *)
(* which therefore is on no cycle.                                         *)
LEMMA ReturnStep ==
  ASSUME SearchInv, Return
  PROVE  SearchInv'
<1> DEFINE l == Len(stack)
           t == stack[l].node
<1>a. CheckTypeOK /\ stack # <<>> /\ l \in Calls /\ l \in Nat /\ l > 0 /\ Calls = 1..l
  BY StackType DEF SearchInv, Return, Calls
<1>b. /\ stack[l].left = {} /\ pc = "search" /\ stack' = Pop /\ color' = [color EXCEPT ![t] = "black"]
      /\ UNCHANGED <<pc, roots, keys, adj, from, to, path, parent>>
  BY DEF Return, Graph, NoTrace, Top
<1>c. /\ stack' \in Seq(Frames) /\ Len(stack') = l - 1
      /\ \A i \in 1..(l - 1) : stack'[i] = stack[i]
  BY <1>a, <1>b, PopCall
<1>d. Calls' = 1..(l - 1) /\ Calls' \subseteq Calls /\ \A i \in Calls : i \in Calls' \/ i = l
  BY <1>a, <1>c DEF Calls
<1>e. \A i \in Calls : stack[i].node \in Nodes /\ stack[i].left \in SUBSET Nodes
  BY <1>a, StackType DEF Frames
<1>f. /\ t \in Nodes /\ color[t] = "gray" /\ color'[t] = "black"
      /\ \A n \in Nodes : n # t => color'[n] = color[n]
      /\ \A n \in Nodes : color[n] = "black" => color'[n] = "black"
  BY <1>a, <1>b, <1>e DEF CheckTypeOK, SearchInv, GrayOnStack
<1>g. adj[t] \subseteq Nodes /\ IsBlack(adj[t])
  BY <1>a, <1>b, <1>f DEF SearchInv, DoneIsBlack, IsBlack, CheckTypeOK
<1>h. \A i \in Calls' : stack[i].node # t /\ stack'[i] = stack[i]
  <2>1. \A i \in Calls' : i \in Calls /\ i # l
    BY <1>a, <1>d
  <2>2. \A i, j \in Calls : stack[i].node = stack[j].node => i = j
    BY DEF SearchInv, GrayOnStack
  <2>3. QED
    BY <1>a, <1>c, <1>d, <2>1, <2>2
<1> HIDE DEF t
<1>1. CheckTypeOK'
  BY <1>a, <1>b, <1>c, <1>f DEF CheckTypeOK
<1>2. GrayOnStack'
  <2>1. \A i \in Calls' : color'[stack'[i].node] = "gray"
    BY <1>d, <1>e, <1>f, <1>h DEF SearchInv, GrayOnStack
  <2>2. \A i, j \in Calls' : stack'[i].node = stack'[j].node => i = j
    <3>1. \A i, j \in Calls : stack[i].node = stack[j].node => i = j
      BY DEF SearchInv, GrayOnStack
    <3>2. ASSUME NEW i \in Calls', NEW j \in Calls', stack'[i].node = stack'[j].node PROVE i = j
      <4>1. i \in Calls /\ j \in Calls /\ stack'[i] = stack[i] /\ stack'[j] = stack[j]
        BY <1>d, <1>h, Zenon
      <4>2. QED
        BY <3>1, <3>2, <4>1
    <3>3. QED
      BY <3>2
  <2>3. ASSUME NEW n \in Nodes, color'[n] = "gray" PROVE \E i \in Calls' : stack'[i].node = n
    <3>1. n # t /\ color[n] = "gray"
      BY <1>f, <2>3
    <3>2. PICK i \in Calls : stack[i].node = n
      BY <3>1 DEF SearchInv, GrayOnStack
    <3>3. i \in Calls'
      BY <1>d, <3>1, <3>2 DEF t
    <3>4. QED
      BY <1>h, <3>2, <3>3
  <2>4. QED
    BY <2>1, <2>2, <2>3 DEF GrayOnStack
<1>3. StackIsPath'
  <2>1. ASSUME NEW i \in Calls', i < l - 1
        PROVE  stack'[i + 1].node \in adj[stack'[i].node] /\ parent[stack'[i + 1].node] = stack'[i].node
    <3>1. i \in Calls /\ i < l /\ i + 1 \in Calls'
      BY <1>a, <1>d, <2>1
    <3>2. QED
      BY <1>h, <3>1 DEF SearchInv, StackIsPath
  <2>2. QED
    BY <1>b, <1>c, <2>1 DEF StackIsPath
<1>4. DoneIsBlack'
  <2>1. ASSUME NEW i \in Calls'
        PROVE  /\ stack'[i].left \subseteq adj[stack'[i].node]
               /\ \A k \in adj[stack'[i].node] \ stack'[i].left :
                    color'[k] = "black" \/ (i < l - 1 /\ k = stack'[i + 1].node)
    <3>1. i \in Calls /\ stack'[i] = stack[i]
      BY <1>d, <1>h
    <3>2. /\ stack[i].left \subseteq adj[stack[i].node]
          /\ \A k \in adj[stack[i].node] \ stack[i].left :
               color[k] = "black" \/ (i < l /\ k = stack[i + 1].node)
      BY <3>1 DEF SearchInv, DoneIsBlack
    <3>3. adj[stack[i].node] \subseteq Nodes
      BY <1>a, <1>e, <3>1 DEF CheckTypeOK
    <3>4. CASE i = l - 1
      <4>1. stack[i + 1].node = t
        BY <1>a, <3>4 DEF t
      <4>2. QED
        BY <1>f, <3>1, <3>2, <3>3, <4>1
    <3>5. CASE i # l - 1
      <4>1. i < l - 1 /\ i + 1 \in Calls'
        BY <1>a, <1>d, <2>1, <3>5
      <4>2. stack'[i + 1] = stack[i + 1]
        BY <1>h, <4>1
      <4>3. QED
        BY <1>f, <3>1, <3>2, <3>3, <4>1, <4>2
    <3>6. QED
      BY <3>4, <3>5
  <2>2. QED
    BY <1>b, <1>c, <2>1 DEF DoneIsBlack
<1>5. BlackAcyclic'
  <2>1. \A n \in Nodes : color'[n] = "black" => IsBlack(adj[n])'
    BY <1>a, <1>b, <1>f, <1>g DEF SearchInv, BlackAcyclic, IsBlack, CheckTypeOK
  <2>2. ASSUME NEW X \in SUBSET Nodes, X # {}, IsBlack(X)' PROVE \E n \in X : adj[n] \cap X = {}
    <3> DEFINE Y == X \ {t}
    <3>1. Y \in SUBSET Nodes /\ IsBlack(Y)
      BY <1>f, <2>2 DEF IsBlack
    <3>2. CASE Y = {}
      <4>1. X = {t} /\ t \notin adj[t]
        BY <1>f, <1>g, <2>2, <3>2 DEF IsBlack
      <4>2. QED
        BY <4>1
    <3>3. CASE Y # {}
      <4>1. PICK n \in Y : adj[n] \cap Y = {}
        BY <3>1, <3>3, Zenon DEF SearchInv, BlackAcyclic
      <4>2. t \notin adj[n]
        BY <1>f, <3>1, <4>1 DEF SearchInv, BlackAcyclic, IsBlack
      <4>3. QED
        BY <4>1, <4>2
    <3>4. QED
      BY <3>2, <3>3
  <2>3. QED
    BY <1>b, <2>1, <2>2 DEF BlackAcyclic
<1>6. RootsDone' /\ TraceOnStack' /\ Outcome'
  BY <1>a, <1>b, <1>f DEF SearchInv, RootsDone, TraceOnStack, Outcome, CheckTypeOK
<1>7. QED
  BY <1>1, <1>2, <1>3, <1>4, <1>5, <1>6 DEF SearchInv

(* A step that leaves the search alone.                                    *)
LEMMA SearchUnchanged ==
  ASSUME SearchInv, UNCHANGED <<keys, adj, roots, color, parent, stack>>
  PROVE  /\ Calls' = Calls
         /\ GrayOnStack' /\ StackIsPath' /\ DoneIsBlack' /\ BlackAcyclic' /\ RootsDone'
<1>1. Calls' = Calls
  BY DEF Calls
<1>2. GrayOnStack'
  BY <1>1 DEF SearchInv, GrayOnStack
<1>3. StackIsPath'
  BY <1>1 DEF SearchInv, StackIsPath
<1>4. DoneIsBlack'
  BY <1>1 DEF SearchInv, DoneIsBlack
<1>5. BlackAcyclic' /\ RootsDone'
  BY DEF SearchInv, BlackAcyclic, IsBlack, RootsDone
<1>6. QED
  BY <1>1, <1>2, <1>3, <1>4, <1>5

(* The search ends when no key is left.                                    *)
LEMMA NoMoreRootsStep ==
  ASSUME SearchInv, NoMoreRoots
  PROVE  SearchInv'
<1>1. CheckTypeOK'
  BY DEF SearchInv, CheckTypeOK, NoMoreRoots, NoTrace, Graph
<1>2. TraceOnStack' /\ Outcome'
  BY DEF SearchInv, NoMoreRoots, NoTrace, TraceOnStack, Outcome
<1>3. QED
  BY <1>1, <1>2, SearchUnchanged DEF SearchInv, NoMoreRoots, Graph

(* traceCycle goes one call down the stack.                                *)
LEMMA TraceBackStep ==
  ASSUME SearchInv, TraceBack
  PROVE  SearchInv'
<1>a. /\ CheckTypeOK /\ pc = "trace" /\ from # to /\ from \in Nodes /\ to \in Nodes
      /\ path' = <<from>> \o path /\ from' = parent[from]
      /\ UNCHANGED <<roots, color, parent, stack, to, pc, keys, adj>>
  <2>1. CheckTypeOK /\ pc = "trace" /\ from # to /\ from \in Nodes /\ to \in Nodes
    BY DEF SearchInv, TraceBack, CheckTypeOK
  <2>2. from # NoNode
    BY <2>1 DEF NoNode, Nodes
  <2>3. QED
    BY <2>1, <2>2 DEF TraceBack, Graph
<1>b. Calls' = Calls /\ Len(stack) \in Nat /\ Calls = 1..Len(stack)
  BY <1>a, StackType DEF Calls
<1>c. \A i \in Calls : stack[i].node \in Nodes
  BY <1>a, StackType DEF Frames
<1>1. PICK i, j \in Calls : i <= j /\ stack[i].node = to /\ stack[j].node = from
  BY <1>a DEF SearchInv, TraceOnStack
<1>2. j - 1 \in Calls /\ i <= j - 1 /\ j - 1 < Len(stack) /\ (j - 1) + 1 = j
  BY <1>a, <1>b, <1>1
<1>3. from' = stack[j - 1].node
  <2>1. parent[stack[(j - 1) + 1].node] = stack[j - 1].node
    BY <1>2 DEF SearchInv, StackIsPath
  <2>2. QED
    BY <1>a, <1>1, <1>2, <2>1
<1>4. CheckTypeOK'
  <2>1. path' \in Seq(Nodes)
    <3>1. <<from>> \in Seq(Nodes) /\ path \in Seq(Nodes)
      BY <1>a DEF CheckTypeOK
    <3>2. QED
      BY <1>a, <3>1, ConcatProperties
  <2>2. from' \in Nodes
    BY <1>2, <1>3, <1>c
  <2>3. QED
    BY <1>a, <2>1, <2>2 DEF CheckTypeOK
<1>5. TraceOnStack'
  <2>1. (~Acyclic)'
    BY <1>a DEF SearchInv, TraceOnStack, Acyclic
  <2>2. QED
    BY <1>1, <1>2, <1>3, <1>a, <1>b, <2>1, Zenon DEF TraceOnStack
<1>6. Outcome'
  BY <1>a DEF Outcome
<1>7. QED
  BY <1>4, <1>5, <1>6, <1>a, SearchUnchanged DEF SearchInv

(* traceCycle returns a path that is not empty.                            *)
LEMMA TraceEndStep ==
  ASSUME SearchInv, TraceEnd
  PROVE  SearchInv'
<1>a. /\ CheckTypeOK /\ pc = "trace" /\ to \in Nodes /\ pc' = "done" /\ path' = <<to>> \o path \o <<to>>
      /\ UNCHANGED <<roots, color, parent, stack, from, to, keys, adj>>
  BY DEF SearchInv, TraceEnd, CheckTypeOK, Graph
<1>1. path' \in Seq(Nodes) /\ path' # <<>>
  <2>1. <<to>> \in Seq(Nodes) /\ path \in Seq(Nodes) /\ <<to>> # <<>>
    BY <1>a DEF CheckTypeOK
  <2>2. <<to>> \o path \in Seq(Nodes)
    BY <2>1, ConcatProperties
  <2>3. QED
    BY <1>a, <2>1, <2>2, ConcatProperties, ConcatEqualIffEmpty
<1>2. CheckTypeOK'
  BY <1>a, <1>1 DEF CheckTypeOK
<1>3. TraceOnStack' /\ Outcome'
  BY <1>1, <1>a DEF TraceOnStack, Outcome
<1>4. QED
  BY <1>2, <1>3, <1>a, SearchUnchanged DEF SearchInv

-----------------------------------------------------------------------------
(* SearchInv is an invariant.                                              *)
THEOREM SearchCorrect == CheckSpec => []SearchInv
<1>1. SearchInv /\ [CheckNext]_checkVars => SearchInv'
  <2> SUFFICES ASSUME SearchInv, [CheckNext]_checkVars PROVE SearchInv'
    OBVIOUS
  <2>1. CASE UNCHANGED checkVars
    <3>1. CheckTypeOK' /\ Outcome'
      BY <2>1 DEF checkVars, SearchInv, CheckTypeOK, Outcome
    <3>2. Acyclic' <=> Acyclic
      BY <2>1 DEF checkVars, Acyclic
    <3>3. GrayOnStack' /\ StackIsPath' /\ DoneIsBlack' /\ BlackAcyclic' /\ RootsDone' /\ Calls' = Calls
      BY <2>1, SearchUnchanged DEF checkVars
    <3>4. TraceOnStack'
      BY <2>1, <3>2, <3>3 DEF checkVars, SearchInv, TraceOnStack
    <3>5. QED
      BY <3>1, <3>3, <3>4 DEF SearchInv
  <2>2. ASSUME NEW n \in Nodes, NextNeighbor(n) PROVE SearchInv'
    <3>1. color[n] \in {"white", "gray", "black"}
      BY DEF SearchInv, CheckTypeOK
    <3>2. QED
      BY <2>2, <3>1, GrayNeighborStep, WhiteNeighborStep, BlackNeighborStep
  <2>3. QED
    BY <2>1, <2>2, NextRootStep, NoMoreRootsStep, ReturnStep, TraceBackStep, TraceEndStep DEF CheckNext
<1>2. QED
  BY <1>1, SearchInit, PTL DEF CheckSpec

(* The types, and that traceCycle never follows a parent that is not set.  *)
THEOREM SearchTypeCorrect == CheckSpec => []CheckTypeOK
<1>1. SearchInv => CheckTypeOK
  BY DEF SearchInv
<1>2. QED
  BY <1>1, SearchCorrect, PTL

(* checkGraphForCycles accepts only graphs without cycles, whatever their  *)
(* size: no TestGraph in which scenarios wait for each other gets past the *)
(* ComponentGroup webhook.                                                 *)
THEOREM AcceptedIsAcyclic == CheckSpec => []AcceptsOnlyAcyclic
<1>1. SearchInv => AcceptsOnlyAcyclic
  <2> SUFFICES ASSUME SearchInv, pc = "done", path = <<>>, NEW X \in SUBSET Nodes, X # {}
               PROVE  \E n \in X : adj[n] \cap X = {}
    BY DEF AcceptsOnlyAcyclic, Acyclic
  <2>1. Calls = {} /\ roots = {}
    BY StackType DEF SearchInv, Outcome
  <2>2. \A n \in keys : color[n] = "black"
    BY <2>1 DEF SearchInv, RootsDone, GrayOnStack, CheckTypeOK
  <2>3. CASE X \subseteq keys
    BY <2>2, <2>3 DEF SearchInv, BlackAcyclic, IsBlack
  <2>4. CASE ~(X \subseteq keys)
    BY <2>4 DEF SearchInv, RootsDone
  <2>5. QED
    BY <2>3, <2>4
<1>2. QED
  BY <1>1, SearchCorrect, PTL

(* checkGraphForCycles rejects only graphs with a cycle.                   *)
THEOREM RejectedIsCyclic == CheckSpec => []RejectsOnlyCyclic
<1>1. SearchInv => RejectsOnlyCyclic
  BY DEF SearchInv, TraceOnStack, RejectsOnlyCyclic
<1>2. QED
  BY <1>1, SearchCorrect, PTL

-----------------------------------------------------------------------------
(* The path that is reported.                                              *)

(* traceCycle has walked down the stack from its top: the path is the part *)
(* of the stack above the node it has come to, and the top of the stack    *)
(* has an edge to the node at which the walk ends.                         *)
WalkIsStack ==
  pc = "trace" =>
    \E j \in Calls :
      /\ stack[j].node = from
      /\ to \in adj[stack[Len(stack)].node]
      /\ Len(path) = Len(stack) - j
      /\ \A k \in 1..Len(path) : path[k] = stack[j + k].node

(* A node put before a path moves the path by one.                         *)
LEMMA PutBefore ==
  ASSUME NEW n \in Nodes, NEW s \in Seq(Nodes)
  PROVE  /\ Len(<<n>> \o s) = Len(s) + 1
         /\ (<<n>> \o s)[1] = n
         /\ \A k \in 1..Len(s) : (<<n>> \o s)[k + 1] = s[k]
         /\ <<n>> \o s \in Seq(Nodes)
<1>1. <<n>> \in Seq(Nodes) /\ Len(<<n>>) = 1 /\ <<n>>[1] = n
  OBVIOUS
<1>2. /\ <<n>> \o s \in Seq(Nodes) /\ Len(<<n>> \o s) = Len(<<n>>) + Len(s)
      /\ \A i \in 1..(Len(<<n>>) + Len(s)) :
           (<<n>> \o s)[i] = IF i <= Len(<<n>>) THEN <<n>>[i] ELSE s[i - Len(<<n>>)]
  BY <1>1, ConcatProperties
<1>3. Len(s) \in Nat
  OBVIOUS
<1>4. /\ Len(<<n>> \o s) = 1 + Len(s)
      /\ \A i \in 1..(1 + Len(s)) : (<<n>> \o s)[i] = IF i <= 1 THEN n ELSE s[i - 1]
  BY <1>1, <1>2
<1> HIDE DEF Nodes
<1>5. QED
  BY <1>2, <1>3, <1>4

(* Closing a path: a node before it and the same node behind it.           *)
LEMMA Close ==
  ASSUME NEW n \in Nodes, NEW s \in Seq(Nodes)
  PROVE  /\ Len(<<n>> \o s \o <<n>>) = Len(s) + 2
         /\ (<<n>> \o s \o <<n>>)[1] = n
         /\ (<<n>> \o s \o <<n>>)[Len(s) + 2] = n
         /\ \A k \in 1..Len(s) : (<<n>> \o s \o <<n>>)[k + 1] = s[k]
<1>1. PICK t \in Seq(Nodes) : /\ t = <<n>> \o s /\ Len(t) = Len(s) + 1 /\ t[1] = n
                              /\ \A k \in 1..Len(s) : t[k + 1] = s[k]
  BY PutBefore, ZenonT(30)
<1>2. <<n>> \in Seq(Nodes) /\ Len(<<n>>) = 1 /\ <<n>>[1] = n
  OBVIOUS
<1>3. /\ Len(t \o <<n>>) = Len(t) + Len(<<n>>)
      /\ \A i \in 1..(Len(t) + Len(<<n>>)) :
           (t \o <<n>>)[i] = IF i <= Len(t) THEN t[i] ELSE <<n>>[i - Len(t)]
  BY <1>2, ConcatProperties
<1>4. Len(s) \in Nat /\ Len(t) \in Nat
  OBVIOUS
<1>5. PICK r : r = <<n>> \o s \o <<n>> /\ r = t \o <<n>>
  BY <1>1, Zenon
<1>6. /\ Len(r) = Len(s) + 2
      /\ \A i \in 1..(Len(s) + 2) : r[i] = IF i <= Len(s) + 1 THEN t[i] ELSE <<n>>[i - (Len(s) + 1)]
  BY <1>1, <1>2, <1>3, <1>4, <1>5
<1>7. r[Len(s) + 2] = n
  <2>1. r[Len(s) + 2] = <<n>>[(Len(s) + 2) - (Len(s) + 1)]
    BY <1>4, <1>6
  <2>2. (Len(s) + 2) - (Len(s) + 1) = 1
    BY <1>4
  <2>3. QED
    BY <1>2, <2>1, <2>2
<1>8. r[1] = n /\ \A k \in 1..Len(s) : r[k + 1] = s[k]
  BY <1>1, <1>4, <1>6
<1>9. QED
  BY <1>5, <1>6, <1>7, <1>8

(* The walk starts at the top of the stack, with a neighbour of it that is *)
(* gray, and goes down one call at a time.                                 *)
LEMMA WalkStep ==
  ASSUME SearchInv, WalkIsStack, [CheckNext]_checkVars
  PROVE  WalkIsStack'
<1>a. CheckTypeOK /\ Len(stack) \in Nat /\ Calls = 1..Len(stack) /\ path \in Seq(Nodes) /\ Len(path) \in Nat
  BY StackType DEF SearchInv, CheckTypeOK, Calls
<1>1. CASE UNCHANGED checkVars
  BY <1>1 DEF checkVars, WalkIsStack, Calls
<1>2. ASSUME NEW m \in Nodes, NextNeighbor(m) PROVE WalkIsStack'
  <2>1. CASE color[m] # "gray"
    BY <1>2, <2>1 DEF NextNeighbor, WalkIsStack
  <2>2. CASE color[m] = "gray"
    <3>1. /\ pc = "search" /\ stack # <<>> /\ m \in Top.left
          /\ from' = Top.node /\ to' = m /\ UNCHANGED <<stack, adj, path>>
      BY <1>2, <2>2 DEF NextNeighbor, IsFirst, Graph
    <3>2. Len(stack) \in Calls /\ path = <<>>
      BY <1>a, <3>1, StackType DEF SearchInv, Outcome
    <3>3. m \in adj[stack[Len(stack)].node]
      BY <3>1, <3>2 DEF SearchInv, DoneIsBlack, Top
    <3>4. Len(path') = Len(stack') - Len(stack) /\ 1..Len(path') = {}
      BY <1>a, <3>1, <3>2
    <3>5. Len(stack) \in Calls' /\ stack'[Len(stack)].node = from'
      BY <3>1, <3>2 DEF Top, Calls
    <3>6. QED
      BY <3>1, <3>3, <3>4, <3>5 DEF WalkIsStack
  <2>3. QED
    BY <2>1, <2>2
<1>3. CASE TraceBack
  <2>a. /\ pc = "trace" /\ from # to /\ from \in Nodes
        /\ path' = <<from>> \o path /\ from' = parent[from]
        /\ UNCHANGED <<stack, to, adj>>
    <3>1. pc = "trace" /\ from # to /\ from \in Nodes
      BY <1>3, <1>a DEF TraceBack, CheckTypeOK
    <3>2. from # NoNode
      BY <3>1 DEF NoNode, Nodes
    <3>3. QED
      BY <1>3, <3>1, <3>2 DEF TraceBack, Graph
  <2>1. PICK j \in Calls : /\ stack[j].node = from /\ to \in adj[stack[Len(stack)].node]
                           /\ Len(path) = Len(stack) - j
                           /\ \A k \in 1..Len(path) : path[k] = stack[j + k].node
    BY <2>a DEF WalkIsStack
  <2>2. PICK i \in Calls : i < j
    <3>1. PICK i, h \in Calls : i <= h /\ stack[i].node = to /\ stack[h].node = from
      BY <2>a DEF SearchInv, TraceOnStack
    <3>2. h = j
      BY <2>1, <3>1 DEF SearchInv, GrayOnStack
    <3>3. i # j
      BY <2>1, <2>a, <3>1
    <3>4. QED
      BY <1>a, <3>1, <3>2, <3>3
  <2>3. j - 1 \in Calls /\ j - 1 < Len(stack) /\ (j - 1) + 1 = j
    BY <1>a, <2>2
  <2>4. from' = stack[j - 1].node
    <3>1. parent[stack[(j - 1) + 1].node] = stack[j - 1].node
      BY <2>3 DEF SearchInv, StackIsPath
    <3>2. QED
      BY <2>1, <2>3, <2>a, <3>1
  <2>5. /\ Len(path') = Len(path) + 1 /\ path'[1] = from
        /\ \A k \in 1..Len(path) : path'[k + 1] = path[k]
    BY <1>a, <2>a, PutBefore
  <2>6. Len(path') = Len(stack) - (j - 1)
    BY <1>a, <2>1, <2>5
  <2>7. \A k \in 1..Len(path') : path'[k] = stack[(j - 1) + k].node
    <3>1. SUFFICES ASSUME NEW k \in 1..Len(path') PROVE path'[k] = stack[(j - 1) + k].node
      OBVIOUS
    <3>2. CASE k = 1
      BY <2>1, <2>3, <2>5, <3>2
    <3>3. CASE k # 1
      <4>1. k - 1 \in 1..Len(path) /\ (k - 1) + 1 = k /\ j + (k - 1) = (j - 1) + k
        BY <1>a, <2>5, <3>3
      <4>2. path'[k] = path[k - 1]
        BY <2>5, <4>1
      <4>3. QED
        BY <2>1, <4>1, <4>2, ZenonT(30)
    <3>4. QED
      BY <3>2, <3>3
  <2>8. QED
    BY <2>1, <2>3, <2>4, <2>6, <2>7, <2>a, ZenonT(30) DEF WalkIsStack, Calls
<1>4. CASE TraceEnd \/ NoMoreRoots
  BY <1>4 DEF TraceEnd, NoMoreRoots, WalkIsStack
<1>5. CASE Return \/ \E n \in Nodes : NextRoot(n)
  BY <1>5 DEF Return, NextRoot, WalkIsStack
<1>6. QED
  BY <1>1, <1>2, <1>3, <1>4, <1>5 DEF CheckNext

(* At the end of the walk the path is closed.                              *)
LEMMA ClosedPath ==
  ASSUME SearchInv, WalkIsStack, TraceEnd
  PROVE  PathIsCycle'
<1>a. /\ CheckTypeOK /\ Len(stack) \in Nat /\ Calls = 1..Len(stack) /\ path \in Seq(Nodes) /\ Len(path) \in Nat
      /\ pc = "trace" /\ from = to /\ to \in Nodes /\ path' = <<to>> \o path \o <<to>> /\ adj' = adj
  BY StackType DEF SearchInv, CheckTypeOK, Calls, TraceEnd, Graph
<1>1. PICK j \in Calls : /\ stack[j].node = to /\ to \in adj[stack[Len(stack)].node]
                         /\ Len(path) = Len(stack) - j
                         /\ \A k \in 1..Len(path) : path[k] = stack[j + k].node
  BY <1>a, Zenon DEF WalkIsStack
<1>2. /\ Len(path') = Len(path) + 2 /\ path'[1] = to /\ path'[Len(path) + 2] = to
      /\ \A k \in 1..Len(path) : path'[k + 1] = path[k]
  BY <1>a, Close
<1>3. \A k \in 1..(Len(path) + 1) : (j - 1) + k \in Calls /\ path'[k] = stack[(j - 1) + k].node
  <2>1. SUFFICES ASSUME NEW k \in 1..(Len(path) + 1)
                 PROVE  (j - 1) + k \in Calls /\ path'[k] = stack[(j - 1) + k].node
    OBVIOUS
  <2>2. (j - 1) + k \in Calls
    BY <1>1, <1>a
  <2>3. CASE k = 1
    <3>1. (j - 1) + k = j
      BY <1>a, <2>3
    <3>2. QED
      BY <1>1, <1>2, <2>2, <2>3, <3>1
  <2>4. CASE k # 1
    <3>1. k - 1 \in 1..Len(path) /\ (k - 1) + 1 = k /\ j + (k - 1) = (j - 1) + k
      BY <1>a, <2>4
    <3>2. QED
      BY <1>1, <1>2, <2>2, <3>1, ZenonT(30)
  <2>5. QED
    BY <2>3, <2>4
<1>4. path'[1] = path'[Len(path')] /\ Len(path') - 1 = Len(path) + 1
  BY <1>2, <1>a
<1>5. \A k \in 1..(Len(path) + 1) : path'[k + 1] \in adj[path'[k]]
  <2>1. SUFFICES ASSUME NEW k \in 1..(Len(path) + 1) PROVE path'[k + 1] \in adj[path'[k]]
    OBVIOUS
  <2>2. CASE k = Len(path) + 1
    <3>1. (j - 1) + k = Len(stack) /\ k + 1 = Len(path) + 2
      BY <1>1, <1>a, <2>2
    <3>2. QED
      BY <1>1, <1>2, <1>3, <3>1, ZenonT(30)
  <2>3. CASE k # Len(path) + 1
    <3>1. /\ k + 1 \in 1..(Len(path) + 1) /\ (j - 1) + (k + 1) = ((j - 1) + k) + 1
          /\ (j - 1) + k < Len(stack)
      <4>1. k \in Nat /\ k >= 1 /\ k <= Len(path) + 1 /\ k # Len(path) + 1 /\ j \in Nat
        BY <1>a, <2>3
      <4>2. Len(path) = Len(stack) - j /\ Len(path) \in Nat /\ Len(stack) \in Nat
        BY <1>1, <1>a
      <4>3. QED
        BY <4>1, <4>2
    <3>2. path'[k + 1] = stack[((j - 1) + k) + 1].node /\ path'[k] = stack[(j - 1) + k].node
      BY <1>3, <3>1
    <3>3. stack[((j - 1) + k) + 1].node \in adj[stack[(j - 1) + k].node]
      BY <1>3, <3>1 DEF SearchInv, StackIsPath
    <3>4. QED
      BY <3>2, <3>3
  <2>4. QED
    BY <2>2, <2>3
<1>6. \A k, h \in 1..(Len(path) + 1) : path'[k] = path'[h] => k = h
  <2>1. SUFFICES ASSUME NEW k \in 1..(Len(path) + 1), NEW h \in 1..(Len(path) + 1), path'[k] = path'[h]
                 PROVE  k = h
    OBVIOUS
  <2>2. (j - 1) + k = (j - 1) + h
    BY <1>3, <2>1 DEF SearchInv, GrayOnStack
  <2>3. QED
    BY <1>a, <2>2
<1>7. QED
  BY <1>4, <1>5, <1>6, <1>a, ZenonT(30) DEF PathIsCycle

(* The path in the error message of the webhook is a cycle of the graph,   *)
(* and checkGraphForCycles decides exactly, for every graph.               *)
THEOREM CheckDecidesExactly == CheckSpec => []CheckIsExact
<1>1. SearchInv /\ WalkIsStack /\ PathIsCycle /\ [CheckNext]_checkVars => PathIsCycle'
  <2> SUFFICES ASSUME SearchInv, WalkIsStack, PathIsCycle, [CheckNext]_checkVars PROVE PathIsCycle'
    OBVIOUS
  <2>1. CASE UNCHANGED checkVars
    BY <2>1 DEF checkVars, PathIsCycle
  <2>2. CASE NoMoreRoots
    BY <2>2 DEF NoMoreRoots, NoTrace, SearchInv, Outcome, PathIsCycle
  <2>3. CASE Return \/ TraceBack \/ \E n \in Nodes : NextRoot(n) \/ NextNeighbor(n)
    BY <2>3 DEF Return, TraceBack, NextRoot, NextNeighbor, PathIsCycle
  <2>4. QED
    BY <2>1, <2>2, <2>3, ClosedPath DEF CheckNext
<1>2. CheckInit => WalkIsStack /\ PathIsCycle
  BY DEF CheckInit, WalkIsStack, PathIsCycle
<1>3. CheckSpec => [](WalkIsStack /\ PathIsCycle)
  BY <1>1, <1>2, WalkStep, SearchCorrect, PTL DEF CheckSpec
<1>4. AcceptsOnlyAcyclic /\ RejectsOnlyCyclic /\ PathIsCycle => CheckIsExact
  BY DEF CheckIsExact
<1>5. QED
  BY <1>3, <1>4, AcceptedIsAcyclic, RejectedIsCyclic, PTL
-----------------------------------------------------------------------------
(* cascadeFailFastFromFailedScenarios *)

InQueue(s) == \E i \in 1..Len(queue) : queue[i] = s

Fail(detail) == [detail EXCEPT !.status = "TestFail", !.by = "snapshot"]

(* What has changed has failed, and had to.                                *)
ChangedHadTo ==
  \A s \in Scenarios : statuses[s] # before[s] =>
    /\ s \in FailFastClosure(before) /\ s \in Present(before) /\ ~IsFinal(before[s].status)
    /\ statuses[s] = Fail(before[s])

(* Only failed scenarios were queued, and only their dependents are left.  *)
QueuedHaveFailed ==
  /\ seen \subseteq Failed(statuses)
  /\ \A c \in left : \E p \in Failed(statuses) : <<c, p>> \in FailFast

(* A dependent that a failed scenario blocks is still to be looked at.     *)
BlockedIsLeft ==
  \A c \in Scenarios, p \in Failed(statuses) :
    (<<c, p>> \in FailFast /\ Blocks(c)) => p \in todo \/ InQueue(p) \/ c \in left

CascadeInv == LoopsTypeOK /\ ChangedHadTo /\ QueuedHaveFailed /\ BlockedIsLeft

-----------------------------------------------------------------------------
(* The details have their types.                                           *)
LEMMA DetailTypes ==
  ASSUME NEW S \in AllStatuses, NEW s \in Scenarios
  PROVE  /\ S[s] \in Details
         /\ Fail(S[s]) \in Details /\ Fail(S[s]).status = "TestFail"
BY Zenon DEF AllStatuses, Details, Fail, Statuses, FinalStatuses, Writers

(* The loops start with every entry to be looked at.                       *)
LEMMA CascadeInit == LoopsInit => CascadeInv
<1> SUFFICES ASSUME LoopsInit PROVE CascadeInv
  OBVIOUS
<1>1. LoopsTypeOK
  <2>1. before \in AllStatuses /\ statuses \in AllStatuses
    BY InitialDetailsAssumption DEF LoopsInit, AllStatuses
  <2>2. queue \in Seq(seen)
    BY EmptySeq DEF LoopsInit
  <2>3. QED
    BY <2>1, <2>2 DEF LoopsInit, LoopsTypeOK
<1>2. \A p \in Failed(statuses) : p \in todo
  BY <1>1 DEF LoopsInit, LoopsTypeOK, Failed, Present, IsFinal, FinalStatuses, PassedStatuses
<1>3. QED
  BY <1>1, <1>2 DEF LoopsInit, CascadeInv, ChangedHadTo, QueuedHaveFailed, BlockedIsLeft

(* The outer loop takes an entry: a failed one goes to the queue.          *)
LEMMA NextStatusStep ==
  ASSUME CascadeInv, NEW s \in Scenarios, NextStatus(s)
  PROVE  CascadeInv'
<1>a. /\ queue = <<>> /\ left = {} /\ s \in todo /\ todo' = todo \ {s}
      /\ UNCHANGED <<before, statuses, left>>
      /\ s \in Failed(statuses) => queue' = <<s>> /\ seen' = {s}
      /\ s \notin Failed(statuses) => UNCHANGED <<queue, seen>>
  BY DEF NextStatus
<1>b. Len(<<s>>) = 1 /\ <<s>>[1] = s /\ <<s>> \in Seq({s})
  OBVIOUS
<1>c. s \in Failed(statuses) => InQueue(s)'
  BY <1>a, <1>b DEF InQueue
<1>d. \A p : ~InQueue(p)
  BY <1>a, EmptySeq DEF InQueue
<1>1. LoopsTypeOK'
  <2>1. s \in Present(before)
    BY <1>a DEF CascadeInv, LoopsTypeOK
  <2>2. CASE s \in Failed(statuses)
    BY <1>a, <1>b, <2>1, <2>2, Zenon DEF CascadeInv, LoopsTypeOK
  <2>3. CASE s \notin Failed(statuses)
    BY <1>a, <2>3 DEF CascadeInv, LoopsTypeOK
  <2>4. QED
    BY <2>2, <2>3
<1>2. ChangedHadTo'
  BY <1>a DEF CascadeInv, ChangedHadTo
<1>3. QueuedHaveFailed'
  BY <1>a DEF CascadeInv, QueuedHaveFailed
<1>4. BlockedIsLeft'
  BY <1>a, <1>c, <1>d DEF CascadeInv, BlockedIsLeft, Blocks
<1>5. QED
  BY <1>1, <1>2, <1>3, <1>4 DEF CascadeInv

(* A parent leaves the queue: all its dependents are to be looked at.      *)
LEMMA NextParentStep ==
  ASSUME CascadeInv, NextParent
  PROVE  CascadeInv'
<1>a. /\ queue # <<>> /\ left = {} /\ queue' = Tail(queue)
      /\ left' = {e[1] : e \in {e \in FailFast : e[2] = Head(queue)}}
      /\ UNCHANGED <<before, statuses, todo, seen>> /\ LoopsTypeOK /\ queue \in Seq(seen)
  BY DEF NextParent, CascadeInv, LoopsTypeOK
<1>b. PICK q, S : q = queue /\ S = seen /\ q \in Seq(S) /\ q # <<>>
  BY <1>a
<1>c. /\ Head(q) \in S /\ Tail(q) \in Seq(S) /\ Len(Tail(q)) = Len(q) - 1
      /\ \A i \in 1..Len(Tail(q)) : Tail(q)[i] = q[i + 1]
      /\ Len(q) \in Nat /\ Head(q) = q[1]
  BY <1>b, HeadTailProperties, LenProperties
<1>d. \A p : InQueue(p) => InQueue(p)' \/ p = Head(queue)
  <2>1. ASSUME NEW i \in 1..Len(q), i # 1 PROVE i - 1 \in 1..Len(Tail(q)) /\ Tail(q)[i - 1] = q[i]
    BY <1>c, <2>1
  <2>2. ASSUME NEW p, InQueue(p), p # Head(queue) PROVE InQueue(p)'
    <3>1. PICK i \in 1..Len(q) : q[i] = p
      BY <1>b, <2>2 DEF InQueue
    <3>2. i - 1 \in 1..Len(queue') /\ queue'[i - 1] = p
      BY <1>a, <1>b, <1>c, <2>1, <2>2, <3>1
    <3>3. QED
      BY <3>2 DEF InQueue
  <2>3. QED
    BY <2>2
<1>e. \A c : c \in left' <=> <<c, Head(queue)>> \in FailFast
  BY <1>a, ScenariosAssumption
<1>1. LoopsTypeOK'
  <2>1. \A e \in FailFast : e[1] \in Scenarios
    BY ScenariosAssumption
  <2>2. left' \subseteq Scenarios
    BY <1>a, <2>1
  <2>3. QED
    BY <1>a, <1>b, <1>c, <2>2 DEF LoopsTypeOK
<1>2. ChangedHadTo'
  BY <1>a DEF CascadeInv, ChangedHadTo
<1>3. QueuedHaveFailed'
  BY <1>a, <1>b, <1>c, <1>e DEF CascadeInv, QueuedHaveFailed
<1>4. BlockedIsLeft'
  BY <1>a, <1>d, <1>e DEF CascadeInv, BlockedIsLeft, Blocks
<1>5. QED
  BY <1>1, <1>2, <1>3, <1>4 DEF CascadeInv

(* A dependent that is blocked fails and goes to the queue.                *)
LEMMA NextChildStep ==
  ASSUME CascadeInv, NEW c \in Scenarios, NextChild(c), Blocks(c)
  PROVE  CascadeInv'
<1>a. /\ c \in left /\ left' = left \ {c} /\ UNCHANGED <<before, todo>>
      /\ statuses' = UpdateTestStatusIfChanged(statuses, c, "TestFail", "snapshot")
      /\ seen' = seen \cup {c}
      /\ c \notin seen => queue' = Append(queue, c)
  BY DEF NextChild
<1>b. LoopsTypeOK /\ before \in AllStatuses /\ statuses \in AllStatuses /\ queue \in Seq(seen)
  BY DEF CascadeInv, LoopsTypeOK
<1>c. c \notin seen
  BY DEF CascadeInv, QueuedHaveFailed, Failed, Blocks
<1>d. /\ statuses' \in [Scenarios -> Details] /\ statuses'[c] = Fail(statuses[c])
      /\ \A s \in Scenarios : s # c => statuses'[s] = statuses[s]
  <2>1. statuses[c] \in Details /\ Fail(statuses[c]) \in Details
    BY <1>b, DetailTypes
  <2>2. PICK detail \in Details : detail = statuses[c]
    BY <2>1
  <2>3. Fail(detail) = [status |-> "TestFail", plr |-> detail.plr, by |-> "snapshot"]
    <3> DEFINE failed == [detail EXCEPT !.status = "TestFail"]
    <3>1. failed \in Details /\ failed.status = "TestFail" /\ failed.plr = detail.plr
      BY DEF Details, Statuses, FinalStatuses
    <3>2. PICK r \in Details : r = failed
      BY <3>1
    <3>3. [r EXCEPT !.by = "snapshot"] = [status |-> r.status, plr |-> r.plr, by |-> "snapshot"]
      BY DEF Details
    <3>4. QED
      BY <3>1, <3>2, <3>3 DEF Fail
  <2>4. statuses' = [statuses EXCEPT ![c] = Fail(statuses[c])]
    BY <1>a, <2>2, <2>3 DEF UpdateTestStatusIfChanged, UpdateTestStatus
  <2>5. QED
    BY <1>b, <2>1, <2>4 DEF AllStatuses
<1>e. statuses[c] = before[c]
  BY <1>b, DetailTypes DEF CascadeInv, ChangedHadTo, Blocks, IsFinal, FinalStatuses
<1>f. c \in Present(before) /\ ~IsFinal(before[c].status)
  BY <1>e DEF Blocks, Present
<1>g. c \in Failed(statuses)' /\ \A s \in Scenarios : s # c => (s \in Failed(statuses)' <=> s \in Failed(statuses))
  BY <1>b, <1>d, DetailTypes DEF Failed, IsFinal, IsPassed, FinalStatuses, PassedStatuses
<1>h. PICK q, S : q = queue /\ S = seen /\ q \in Seq(S \cup {c})
  BY <1>b
<1>i. /\ Append(q, c) \in Seq(S \cup {c}) /\ Len(Append(q, c)) = Len(q) + 1 /\ Len(q) \in Nat
      /\ \A i \in 1..Len(q) : Append(q, c)[i] = q[i]
      /\ Append(q, c)[Len(q) + 1] = c
  BY <1>h, AppendProperties, LenProperties
<1>j. InQueue(c)' /\ \A p : InQueue(p) => InQueue(p)'
  <2>1. Len(q) + 1 \in 1..Len(queue') /\ queue'[Len(q) + 1] = c
    BY <1>a, <1>c, <1>h, <1>i
  <2>2. ASSUME NEW p, InQueue(p) PROVE InQueue(p)'
    <3>1. PICK i \in 1..Len(q) : q[i] = p
      BY <1>h, <2>2 DEF InQueue
    <3>2. i \in 1..Len(queue') /\ queue'[i] = p
      BY <1>a, <1>c, <1>h, <1>i, <3>1
    <3>3. QED
      BY <3>2 DEF InQueue
  <2>3. QED
    BY <2>1, <2>2 DEF InQueue
<1>1. LoopsTypeOK'
  BY <1>a, <1>b, <1>c, <1>d, <1>f, <1>h, <1>i DEF LoopsTypeOK, AllStatuses
<1>2. ChangedHadTo'
  <2>1. c \in FailFastClosure(before)
    <3>1. PICK p \in Failed(statuses) : <<c, p>> \in FailFast
      BY <1>a, Zenon DEF CascadeInv, QueuedHaveFailed
    <3>2. p \in FailFastClosure(before)
      <4>1. CASE statuses[p] = before[p]
        <5>1. p \in Failed(before)
          BY <3>1, <4>1 DEF Failed
        <5>2. QED
          BY <1>b, <5>1, FailFastClosureIsClosed
      <4>2. CASE statuses[p] # before[p]
        BY <3>1, <4>2 DEF CascadeInv, ChangedHadTo, Failed
      <4>3. QED
        BY <4>1, <4>2
    <3>3. PICK e \in FailFast : e = <<c, p>>
      BY <3>1
    <3>4. e[1] = c /\ e[2] = p
      BY <3>3
    <3>5. QED
      BY <1>b, <1>f, <3>2, <3>3, <3>4, FailFastClosureIsClosed DEF ClosedUnderFailFast
  <2>2. ASSUME NEW s \in Scenarios, statuses'[s] # before[s]
        PROVE  /\ s \in FailFastClosure(before) /\ s \in Present(before) /\ ~IsFinal(before[s].status)
               /\ statuses'[s] = Fail(before[s])
    BY <1>d, <1>e, <1>f, <2>1, <2>2 DEF CascadeInv, ChangedHadTo
  <2>3. QED
    BY <1>a, <2>2 DEF ChangedHadTo
<1>3. QueuedHaveFailed'
  <2>1. Failed(statuses) \subseteq Failed(statuses)'
    BY <1>g DEF Failed
  <2>2. QED
    BY <1>a, <1>g, <2>1, Zenon DEF CascadeInv, QueuedHaveFailed
<1>4. BlockedIsLeft'
  <2>1. ASSUME NEW d \in Scenarios, NEW p \in Failed(statuses)', <<d, p>> \in FailFast, Blocks(d)'
        PROVE  p \in todo' \/ InQueue(p)' \/ d \in left'
    <3>1. CASE p = c
      BY <1>j, <3>1
    <3>2. CASE p # c
      <4>1. p \in Failed(statuses)
        BY <1>g, <3>2 DEF Failed
      <4>2. d # c
        BY <1>g, <2>1 DEF Blocks, Failed
      <4>3. Blocks(d)
        BY <1>d, <2>1, <4>2 DEF Blocks, Present
      <4>4. p \in todo \/ InQueue(p) \/ d \in left
        BY <2>1, <4>1, <4>3 DEF CascadeInv, BlockedIsLeft
      <4>5. QED
        BY <1>a, <1>j, <4>2, <4>4
    <3>3. QED
      BY <3>1, <3>2
  <2>2. QED
    BY <2>1 DEF BlockedIsLeft
<1>5. QED
  BY <1>1, <1>2, <1>3, <1>4 DEF CascadeInv

(* A dependent that has finished or has no status stays as it is.          *)
LEMMA SkipChildStep ==
  ASSUME CascadeInv, NEW c \in Scenarios, NextChild(c), ~Blocks(c)
  PROVE  CascadeInv'
<1>a. left' = left \ {c} /\ UNCHANGED <<before, statuses, todo, queue, seen>>
  BY DEF NextChild
<1>1. LoopsTypeOK' /\ ChangedHadTo' /\ QueuedHaveFailed'
  BY <1>a, Zenon DEF CascadeInv, LoopsTypeOK, ChangedHadTo, QueuedHaveFailed
<1>2. \A p : InQueue(p)' <=> InQueue(p)
  BY <1>a DEF InQueue
<1>3. \A d : Blocks(d)' <=> Blocks(d)
  BY <1>a DEF Blocks
<1>4. BlockedIsLeft'
  BY <1>a, <1>2, <1>3 DEF CascadeInv, BlockedIsLeft
<1>5. QED
  BY <1>1, <1>4 DEF CascadeInv

-----------------------------------------------------------------------------
(* When nothing is left, exactly the closure has failed.                   *)
LEMMA CascadeInvSuffices == CascadeInv => CascadeIsClosure
<1> SUFFICES ASSUME CascadeInv, LoopsDone PROVE statuses = CascadeFailFast(before)
  BY DEF CascadeIsClosure
<1>a. before \in AllStatuses /\ statuses \in AllStatuses
  BY DEF CascadeInv, LoopsTypeOK
<1>b. PICK B \in AllStatuses : B = before
  BY <1>a
<1>1. Failed(before) \subseteq Failed(statuses)
  BY DEF CascadeInv, ChangedHadTo, Failed
<1>2. ASSUME NEW c \in Scenarios, statuses[c] # before[c] PROVE c \in Failed(statuses)
  <2>1. statuses[c].status = "TestFail"
    BY <1>2, <1>a, DetailTypes DEF CascadeInv, ChangedHadTo
  <2>2. QED
    BY <2>1 DEF Failed, IsFinal, IsPassed, FinalStatuses, PassedStatuses
<1>3. ClosedUnderFailFast(before, Failed(statuses))
  <2>1. ASSUME NEW e \in FailFast, e[2] \in Failed(statuses), e[1] \in Present(before),
               ~IsFinal(before[e[1]].status), e[1] \notin Failed(statuses)
        PROVE  FALSE
    <3>1. e[1] \in Scenarios /\ e = <<e[1], e[2]>>
      BY <2>1, ScenariosAssumption
    <3>2. statuses[e[1]] = before[e[1]]
      BY <1>2, <2>1, <3>1
    <3>3. Blocks(e[1])
      BY <2>1, <3>1, <3>2 DEF Blocks, Present
    <3>4. e[2] \in todo \/ InQueue(e[2]) \/ e[1] \in left
      BY <2>1, <3>1, <3>3 DEF CascadeInv, BlockedIsLeft
    <3>5. QED
      BY <3>4, EmptySeq DEF LoopsDone, InQueue
  <2>2. QED
    BY <2>1 DEF ClosedUnderFailFast
<1>4. FailFastClosure(before) \subseteq Failed(statuses)
  <2>1. Failed(statuses) \in SUBSET Scenarios
    BY DEF Failed
  <2>2. QED
    BY <1>1, <1>3, <2>1 DEF FailFastClosure
<1>5. ASSUME NEW s \in Scenarios
      PROVE  statuses[s] = CascadeFailFast(before)[s]
  <2>1. CASE s \in FailFastClosure(before) \ Failed(before)
    <3>1. statuses[s] # before[s]
      BY <1>4, <2>1 DEF Failed
    <3>2. QED
      BY <2>1, <3>1, Zenon DEF CascadeInv, ChangedHadTo, CascadeFailFast, Fail
  <2>2. CASE s \notin FailFastClosure(before) \ Failed(before)
    BY <2>2 DEF CascadeInv, ChangedHadTo, CascadeFailFast, Failed
  <2>3. QED
    BY <2>1, <2>2, ZenonT(30)
<1>6. QED
  <2>1. CascadeFailFast(before) \in [Scenarios -> Details]
    BY <1>b, CascadeFailFastType DEF AllStatuses
  <2>2. QED
    BY <1>a, <1>5, <2>1 DEF AllStatuses

(* The code's loops compute the fail-fast closure of the failed scenarios: *)
(* SnapshotTesting may use CascadeFailFast for                             *)
(* cascadeFailFastFromFailedScenarios, and CascadeIsComplete is about it.  *)
THEOREM LoopsComputeCascade == LoopsSpec => []CascadeIsClosure
<1>1. CascadeInv /\ [LoopsNext]_loopsVars => CascadeInv'
  <2> SUFFICES ASSUME CascadeInv, [LoopsNext]_loopsVars PROVE CascadeInv'
    OBVIOUS
  <2>1. CASE UNCHANGED loopsVars
    <3>1. LoopsTypeOK' /\ ChangedHadTo' /\ QueuedHaveFailed'
      BY <2>1 DEF loopsVars, CascadeInv, LoopsTypeOK, ChangedHadTo, QueuedHaveFailed
    <3>2. BlockedIsLeft'
      BY <2>1 DEF loopsVars, CascadeInv, BlockedIsLeft, InQueue, Blocks
    <3>3. QED
      BY <3>1, <3>2 DEF CascadeInv
  <2>2. QED
    BY <2>1, NextStatusStep, NextParentStep, NextChildStep, SkipChildStep DEF LoopsNext
<1>2. QED
  BY <1>1, CascadeInit, CascadeInvSuffices, PTL DEF LoopsSpec
=============================================================================
