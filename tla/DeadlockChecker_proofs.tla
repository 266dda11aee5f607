------------------------ MODULE DeadlockChecker_proofs ------------------------
(***************************************************************************)
(* The search of DeadlockChecker reports a circular wait exactly when the  *)
(* wait-for graph has a cycle, and an accepted pipeline in which every     *)
(* receive has a send of its own does not deadlock, for any number of      *)
(* stages and any programs.                                                *)
(***************************************************************************)
EXTENDS PipelineRun, TLAPS, FiniteSetTheorems, SequenceTheorems

\* dfs(node) keeps the types of the search.
LEMMA EnterTypes ==
  ASSUME CheckerTypeOK, NEW node \in Stages, Enter(node)
  PROVE  stack' \in Seq(Stages) /\ color' \in [Stages -> {"white", "gray", "black"}]
<1>1. stack \in Seq(Stages) /\ color \in [Stages -> {"white", "gray", "black"}]
  BY DEF CheckerTypeOK
<1>2. stack' = Append(stack, node) /\ color' = [color EXCEPT ![node] = "gray"]
  BY DEF Enter
<1>3. stack' \in Seq(Stages)
  BY <1>1, <1>2
<1>4. color' \in [Stages -> {"white", "gray", "black"}]
  BY <1>1, <1>2
<1> QED
  BY <1>3, <1>4

\* dfs(node) is entered for a white node that is a root or a neighbor of the top.
LEMMA EnterStack ==
  ASSUME CheckerTypeOK, StackInv, NEW node \in Stages, color[node] = "white", Enter(node),
         UNCHANGED graph, stack # << >> => node \in graph[Top]
  PROVE  StackInv'
<1>1. /\ stack \in Seq(Stages) /\ stack' = Append(stack, node) /\ Len(stack) \in Nat
      /\ color' = [color EXCEPT ![node] = "gray"]
  BY DEF Enter, CheckerTypeOK
<1>2. /\ Len(stack') = Len(stack) + 1
      /\ \A i \in 1 .. Len(stack) : stack'[i] = stack[i]
      /\ stack'[Len(stack) + 1] = node
  BY <1>1
<1>3. \A i \in 1 .. Len(stack) : stack[i] # node
  BY DEF StackInv
<1>4. \A s \in Stages : color'[s] = "gray" <=> \E i \in 1 .. Len(stack') : stack'[i] = s
  <2>1. ASSUME NEW s \in Stages
        PROVE  color'[s] = "gray" <=> (color[s] = "gray" \/ s = node)
    BY <1>1 DEF CheckerTypeOK
  <2>2. \A s : (\E i \in 1 .. Len(stack') : stack'[i] = s)
                <=> (s = node \/ \E i \in 1 .. Len(stack) : stack[i] = s)
    BY <1>1, <1>2
  <2> QED
    BY <2>1, <2>2 DEF StackInv
<1>5. \A i, j \in 1 .. Len(stack') : stack'[i] = stack'[j] => i = j
  BY <1>1, <1>2, <1>3 DEF StackInv
<1>6. ASSUME NEW i \in 1 .. (Len(stack') - 1)
      PROVE  stack'[i + 1] \in graph'[stack'[i]]
  <2>1. CASE i = Len(stack)
    <3>1. stack # << >> /\ stack'[i] = Top /\ stack'[i + 1] = node
      BY <1>1, <1>2, <2>1 DEF Top
    <3> QED
      BY <3>1
  <2>2. CASE i # Len(stack)
    BY <1>1, <1>2, <2>2 DEF StackInv
  <2> QED
    BY <2>1, <2>2
<1> QED
  BY <1>4, <1>5, <1>6 DEF StackInv

\* A send or a receive is added before the search starts.
LEMMA CallKeepsSearchInv ==
  ASSUME SearchInv, NEW s \in Stages, NEW entry \in Entries, Call(s, entry)
  PROVE  SearchInv'
<1>1. CheckerTypeOK'
  BY LinksAssumption DEF SearchInv, CheckerTypeOK, Call, checkVars
<1> QED
  BY <1>1 DEF SearchInv, Call, checkVars

\* The matching of sends with receives reports, or builds the graph to be searched.
LEMMA MatchSearchInv ==
  ASSUME SearchInv, Match
  PROVE  SearchInv'
<1>1. CheckerTypeOK'
  BY DEF SearchInv, CheckerTypeOK, Match
<1>2. stack' = << >> /\ Black' = {} /\ phase' = "search"
  BY DEF SearchInv, Match, Black, CheckerTypeOK
<1>3. StackInv'
  BY <1>2 DEF SearchInv, StackInv, Match
<1>4. NeighborInv'
  <2>1. \A S \in SUBSET Black' : S = {}
    BY <1>2
  <2> QED
    BY <1>2, <2>1 DEF NeighborInv, WaitsWithin
<1>5. ~HasCircularWait'
  BY DEF HasCircularWait, Match, Unmatched
<1>6. \A s \in Stages : graph'[s] # {} => s \in roots'
  BY DEF Match
<1> QED
  BY <1>1, <1>2, <1>3, <1>4, <1>5, <1>6 DEF SearchInv

\* Entering a white node leaves the black nodes alone.
LEMMA EnterBlack ==
  ASSUME CheckerTypeOK, NEW node \in Stages, color[node] = "white", Enter(node)
  PROVE  Black' = Black
BY DEF Enter, Black, CheckerTypeOK

\* The search starts from a device that it has not visited.
LEMMA RootSearchInv ==
  ASSUME SearchInv, NEW node \in Stages, Root(node)
  PROVE  SearchInv'
<1>1. CheckerTypeOK'
  <2>1. CASE color[node] = "white"
    <3>1. stack' \in Seq(Stages) /\ color' \in [Stages -> {"white", "gray", "black"}]
      BY <2>1, EnterTypes DEF SearchInv, Root
    <3>2. todo' \in [Stages -> SUBSET Stages]
      BY <2>1 DEF SearchInv, CheckerTypeOK, Root
    <3> QED
      BY <3>1, <3>2 DEF SearchInv, CheckerTypeOK, Root
  <2>2. CASE color[node] # "white"
    BY <2>2 DEF SearchInv, CheckerTypeOK, Root
  <2> QED
    BY <2>1, <2>2
<1>2. phase = "search" /\ phase' = "search" /\ graph' = graph /\ ~HasCircularWait'
  BY DEF SearchInv, Root, HasCircularWait
<1>3. \A s \in Stages : graph'[s] # {} => s \in roots' \/ color'[s] # "white"
  BY <1>2 DEF SearchInv, Root, Enter, CheckerTypeOK
<1>4. CASE color[node] = "white"
  <2>1. StackInv' /\ Black' = Black
    BY <1>2, <1>4, EnterStack, EnterBlack DEF SearchInv, Root
  <2>2. stack' = <<node>> /\ todo'[node] = graph[node]
    BY <1>4 DEF Root, Enter, SearchInv, CheckerTypeOK
  <2>3. NeighborInv'
    BY <1>2, <2>1, <2>2 DEF NeighborInv, SearchInv, WaitsWithin
  <2> QED
    BY <1>1, <1>2, <1>3, <2>1, <2>3 DEF SearchInv
<1>5. CASE color[node] # "white"
  BY <1>1, <1>2, <1>3, <1>5
     DEF SearchInv, Root, StackInv, NeighborInv, Black, WaitsWithin
<1> QED
  BY <1>4, <1>5

\* A gray neighbor closes a cycle: the nodes of the stack from it to the top.
LEMMA GrayClosesCycle ==
  ASSUME CheckerTypeOK, StackInv, NeighborInv, stack # << >>,
         NEW next \in todo[Top], next \in Stages, color[next] = "gray"
  PROVE  HasCycle
<1>1. PICK i \in 1 .. Len(stack) : stack[i] = next
  BY DEF StackInv
<1> DEFINE S == {s \in Stages : \E k \in i .. Len(stack) : stack[k] = s}
<1>2. Len(stack) \in Nat /\ \A k \in 1 .. Len(stack) : stack[k] \in Stages
  BY DEF CheckerTypeOK
<1>3. next \in S /\ S \in SUBSET Stages
  BY <1>1, <1>2
<1>4. next \in graph[Top]
  BY <1>1, <1>2 DEF NeighborInv, Top
<1>5. ASSUME NEW s \in S
      PROVE  graph[s] \cap S # {}
  <2>1. PICK k \in i .. Len(stack) : stack[k] = s
    OBVIOUS
  <2>2. CASE k = Len(stack)
    BY <1>3, <1>4, <2>1, <2>2 DEF Top
  <2>3. CASE k # Len(stack)
    <3>1. k + 1 \in i .. Len(stack) /\ k \in 1 .. (Len(stack) - 1) /\ k + 1 \in 1 .. Len(stack)
      BY <1>1, <1>2, <2>1, <2>3
    <3>2. stack[k + 1] \in S
      BY <1>2, <3>1
    <3>3. stack[k + 1] \in graph[s]
      BY <2>1, <3>1 DEF StackInv
    <3> QED
      BY <3>2, <3>3
  <2> QED
    BY <2>2, <2>3
<1>6. WaitsWithin(S)
  BY <1>3, <1>5 DEF WaitsWithin
<1> QED
  BY <1>3, <1>6 DEF HasCycle

\* Each iteration of the loop over the neighbors keeps the types.
LEMMA NeighborTypes ==
  ASSUME CheckerTypeOK, NEW next \in Stages, Neighbor(next)
  PROVE  CheckerTypeOK'
<1>0. Len(stack) \in 1 .. Len(stack) /\ Top \in Stages
  BY DEF CheckerTypeOK, Neighbor, Top
<1>1. CASE color[next] = "gray" \/ color[next] = "black"
  <2>1. todo' \in [Stages -> SUBSET Stages]
    BY <1>0, <1>1 DEF CheckerTypeOK, Neighbor, Enter
  <2> QED
    BY <1>1, <2>1 DEF CheckerTypeOK, Neighbor
<1>2. CASE color[next] = "white"
  <2>1. todo' = [todo EXCEPT ![Top] = @ \ {next}, ![next] = graph[next]]
    BY <1>2 DEF CheckerTypeOK, Neighbor
  <2>2. todo' \in [Stages -> SUBSET Stages]
    BY <1>0, <2>1 DEF CheckerTypeOK
  <2>3. stack' \in Seq(Stages) /\ color' \in [Stages -> {"white", "gray", "black"}]
    BY <1>2, EnterTypes DEF Neighbor
  <2> QED
    BY <1>2, <2>2, <2>3 DEF CheckerTypeOK, Neighbor
<1> QED
  BY <1>1, <1>2 DEF CheckerTypeOK

\* It goes on to a device that the last one on its path waits for.
LEMMA NeighborSearchInv ==
  ASSUME SearchInv, NEW next \in Stages, Neighbor(next)
  PROVE  SearchInv'
<1>1. CheckerTypeOK' /\ CheckerTypeOK
  BY NeighborTypes DEF SearchInv
<1>2. /\ phase = "search" /\ StackInv /\ NeighborInv /\ ~HasCircularWait
      /\ stack # << >> /\ next \in todo[Top] /\ graph' = graph /\ roots' = roots
  BY DEF SearchInv, Neighbor
<1>3. Len(stack) \in 1 .. Len(stack) /\ Top \in Stages /\ Top = stack[Len(stack)]
  BY <1>1, <1>2 DEF CheckerTypeOK, Top
<1>4. next \in graph[Top]
  BY <1>2, <1>3 DEF NeighborInv
<1>5. \A s \in Stages : graph'[s] # {} => s \in roots' \/ color'[s] # "white"
  BY <1>1, <1>2 DEF SearchInv, Neighbor, Enter, CheckerTypeOK
<1>6. CASE color[next] = "gray"
  <2>1. phase' = "verdict" /\ <<"circular_wait", next>> \in errors'
    BY <1>6 DEF Neighbor
  <2>2. HasCycle
    BY <1>1, <1>2, <1>6, GrayClosesCycle
  <2> QED
    BY <1>1, <1>2, <1>5, <2>1, <2>2 DEF SearchInv, HasCircularWait, HasCycle, WaitsWithin
<1>7. CASE color[next] = "white"
  <2>1. Enter(next) /\ phase' = phase /\ errors' = errors
        /\ todo' = [todo EXCEPT ![Top] = @ \ {next}, ![next] = graph[next]]
    BY <1>7 DEF Neighbor
  <2>2. StackInv' /\ Black' = Black
    BY <1>1, <1>2, <1>4, <1>7, <2>1, EnterStack, EnterBlack
  <2>3. /\ Len(stack') = Len(stack) + 1
        /\ \A i \in 1 .. Len(stack) : stack'[i] = stack[i] /\ stack[i] # next
        /\ stack'[Len(stack) + 1] = next
    <3>1. stack \in Seq(Stages) /\ stack' = Append(stack, next)
      BY <1>1, <2>1 DEF Enter, CheckerTypeOK
    <3>2. \A i \in 1 .. Len(stack) : stack[i] # next
      BY <1>2, <1>7 DEF StackInv
    <3> QED
      BY <3>1, <3>2
  <2>4. ASSUME NEW i \in 1 .. Len(stack')
        PROVE  /\ todo'[stack'[i]] \subseteq graph'[stack'[i]]
               /\ \A n \in graph'[stack'[i]] \ todo'[stack'[i]] :
                    n \in Black' \/ (i < Len(stack') /\ n = stack'[i + 1])
    <3>1. CASE i = Len(stack) + 1
      <4>1. todo'[next] = graph[next] /\ stack'[i] = next
        BY <1>1, <2>1, <2>3, <3>1 DEF CheckerTypeOK
      <4> QED
        BY <1>2, <4>1
    <3>2. CASE i = Len(stack)
      <4>1. stack'[i] = Top /\ todo'[Top] = todo[Top] \ {next} /\ stack'[i + 1] = next
        BY <1>1, <1>3, <2>1, <2>3, <3>2 DEF CheckerTypeOK
      <4>2. \A n \in graph[Top] \ todo[Top] : n \in Black
        BY <1>2, <1>3 DEF NeighborInv
      <4>3. todo[Top] \subseteq graph[Top]
        BY <1>2, <1>3 DEF NeighborInv
      <4>4. i < Len(stack')
        BY <1>3, <2>3, <3>2
      <4> QED
        BY <1>2, <2>2, <4>1, <4>2, <4>3, <4>4
    <3>3. CASE i \in 1 .. (Len(stack) - 1)
      <4>1. /\ i \in 1 .. Len(stack) /\ i + 1 \in 1 .. Len(stack)
            /\ stack'[i] = stack[i] /\ stack'[i + 1] = stack[i + 1] /\ stack[i] \in Stages
        <5>1. stack \in Seq(Stages)
          BY <1>1 DEF CheckerTypeOK
        <5>2. i \in 1 .. Len(stack) /\ i + 1 \in 1 .. Len(stack)
          BY <1>3, <3>3
        <5> QED
          BY <2>3, <5>1, <5>2
      <4>2. stack[i] # Top /\ stack[i] # next
        BY <1>2, <1>3, <2>3, <3>3, <4>1 DEF StackInv
      <4>3. todo'[stack[i]] = todo[stack[i]]
        BY <1>1, <2>1, <4>1, <4>2 DEF CheckerTypeOK
      <4>4. i < Len(stack') /\ i < Len(stack)
        BY <1>3, <2>3, <3>3
      <4> QED
        BY <1>2, <2>2, <4>1, <4>3, <4>4 DEF NeighborInv
    <3> QED
      BY <1>3, <2>3, <3>1, <3>2, <3>3
  <2>5. NeighborInv'
    BY <1>2, <2>2, <2>4 DEF NeighborInv, WaitsWithin
  <2>6. ~HasCircularWait'
    BY <1>2, <2>1 DEF HasCircularWait
  <2> QED
    BY <1>1, <1>2, <1>5, <2>1, <2>2, <2>5, <2>6 DEF SearchInv
<1>8. CASE color[next] = "black"
  <2>1. /\ todo' = [todo EXCEPT ![Top] = @ \ {next}]
        /\ UNCHANGED <<phase, errors, color, stack>>
    BY <1>8 DEF Neighbor
  <2>2. StackInv' /\ Black' = Black /\ next \in Black
    BY <1>2, <1>8, <2>1 DEF StackInv, Black
  <2>3. ASSUME NEW i \in 1 .. Len(stack)
        PROVE  /\ todo'[stack[i]] \subseteq graph[stack[i]]
               /\ \A n \in graph[stack[i]] \ todo'[stack[i]] :
                    n \in Black \/ (i < Len(stack) /\ n = stack[i + 1])
    <3>1. stack[i] \in Stages
      BY <1>1 DEF CheckerTypeOK
    <3>2. todo'[stack[i]] = todo[stack[i]] \/ todo'[stack[i]] = todo[stack[i]] \ {next}
      BY <1>1, <1>3, <2>1, <3>1 DEF CheckerTypeOK
    <3> QED
      BY <1>2, <2>2, <3>2 DEF NeighborInv
  <2>4. NeighborInv'
    BY <1>2, <2>1, <2>2, <2>3 DEF NeighborInv, WaitsWithin
  <2>5. ~HasCircularWait'
    BY <1>2, <2>1 DEF HasCircularWait
  <2> QED
    BY <1>1, <1>2, <1>5, <2>1, <2>2, <2>4, <2>5 DEF SearchInv
<1> QED
  BY <1>1, <1>6, <1>7, <1>8 DEF CheckerTypeOK

\* It leaves a device when all that the device waits for has been visited.
LEMMA LeaveSearchInv ==
  ASSUME SearchInv, Leave
  PROVE  SearchInv'
<1>1. /\ CheckerTypeOK /\ phase = "search" /\ StackInv /\ NeighborInv /\ ~HasCircularWait
      /\ stack # << >> /\ todo[Top] = {}
      /\ UNCHANGED <<phase, errors, graph, roots, todo>>
  BY DEF SearchInv, Leave
<1>2. Len(stack) \in 1 .. Len(stack) /\ Top \in Stages /\ Top = stack[Len(stack)]
  BY <1>1 DEF CheckerTypeOK, Top
<1>3. /\ stack' \in Seq(Stages) /\ Len(stack') = Len(stack) - 1
      /\ \A i \in 1 .. (Len(stack) - 1) : stack'[i] = stack[i]
  <2>1. stack \in Seq(Stages) /\ stack' = SubSeq(stack, 1, Len(stack) - 1)
    BY <1>1 DEF Leave, CheckerTypeOK
  <2>2. /\ Len(stack) - 1 \in Int /\ 1 \in Int
        /\ \A i \in 1 .. (Len(stack) - 1) : stack[i] \in Stages
    BY <1>2, <2>1
  <2>3. /\ SubSeq(stack, 1, Len(stack) - 1) \in Seq(Stages)
        /\ Len(SubSeq(stack, 1, Len(stack) - 1))
             = IF 1 <= Len(stack) - 1 THEN Len(stack) - 1 - 1 + 1 ELSE 0
        /\ \A i \in 1 .. Len(stack) - 1 - 1 + 1 :
             SubSeq(stack, 1, Len(stack) - 1)[i] = stack[1 + i - 1]
    BY <2>2, SubSeqProperties
  <2>4. 1 <= Len(stack) /\ Len(stack) \in Nat /\ Len(stack) - 1 - 1 + 1 = Len(stack) - 1
    BY <1>2, <2>1
  <2>5. \A i \in 1 .. (Len(stack) - 1) : 1 + i - 1 = i
    BY <2>4
  <2> QED
    BY <2>1, <2>3, <2>4, <2>5
<1>4. color' = [color EXCEPT ![Top] = "black"] /\ color[Top] = "gray"
  BY <1>1, <1>2 DEF Leave, StackInv
<1>5. CheckerTypeOK'
  BY <1>1, <1>3, <1>4 DEF CheckerTypeOK, Leave
<1>6. Black' = Black \cup {Top} /\ Top \notin Black
  BY <1>1, <1>2, <1>4 DEF Black, CheckerTypeOK
<1>7. graph[Top] \subseteq Black
  BY <1>1, <1>2 DEF NeighborInv
<1>8. StackInv'
  <2>1. ASSUME NEW s \in Stages
        PROVE  color'[s] = "gray" <=> \E i \in 1 .. Len(stack') : stack'[i] = s
    <3>1. color'[s] = "gray" <=> color[s] = "gray" /\ s # Top
      BY <1>1, <1>4 DEF CheckerTypeOK
    <3>2. (\E i \in 1 .. Len(stack) : stack[i] = s) /\ s # Top
            <=> \E i \in 1 .. (Len(stack) - 1) : stack[i] = s
      BY <1>1, <1>2 DEF StackInv
    <3> QED
      BY <1>1, <1>2, <1>3, <3>1, <3>2 DEF StackInv
  <2>2. \A i, j \in 1 .. Len(stack') : stack'[i] = stack'[j] => i = j
    BY <1>1, <1>2, <1>3 DEF StackInv
  <2>3. \A i \in 1 .. (Len(stack') - 1) : stack'[i + 1] \in graph'[stack'[i]]
    BY <1>1, <1>2, <1>3 DEF StackInv
  <2> QED
    BY <2>1, <2>2, <2>3 DEF StackInv
<1>9. NeighborInv'
  <2>1. ASSUME NEW i \in 1 .. Len(stack')
        PROVE  /\ todo'[stack'[i]] \subseteq graph'[stack'[i]]
               /\ \A n \in graph'[stack'[i]] \ todo'[stack'[i]] :
                    n \in Black' \/ (i < Len(stack') /\ n = stack'[i + 1])
    <3>1. i \in 1 .. Len(stack) /\ i < Len(stack) /\ stack'[i] = stack[i]
      BY <1>2, <1>3
    <3>2. CASE i = Len(stack) - 1
      <4>1. stack[i + 1] = Top
        BY <1>2, <3>1, <3>2
      <4> QED
        BY <1>1, <1>6, <3>1, <4>1 DEF NeighborInv
    <3>3. CASE i # Len(stack) - 1
      <4>1. i < Len(stack') /\ stack'[i + 1] = stack[i + 1]
        BY <1>2, <1>3, <3>1, <3>3
      <4> QED
        BY <1>1, <1>6, <3>1, <4>1 DEF NeighborInv
    <3> QED
      BY <3>2, <3>3
  <2>2. \A s \in Black' : graph'[s] \subseteq Black'
    BY <1>1, <1>6, <1>7 DEF NeighborInv
  <2>3. ASSUME NEW S \in SUBSET Black', WaitsWithin(S)'
        PROVE  FALSE
    <3>1. S # {} /\ \A s \in S : graph[s] \cap S # {}
      BY <1>1, <2>3 DEF WaitsWithin
    <3>2. \A s \in S \ {Top} : graph[s] \cap (S \ {Top}) # {}
      BY <1>1, <1>6, <3>1 DEF NeighborInv
    <3>3. S \ {Top} # {}
      BY <1>6, <1>7, <3>1
    <3> QED
      BY <1>1, <1>6, <3>2, <3>3 DEF NeighborInv, WaitsWithin
  <2> QED
    BY <2>1, <2>2, <2>3 DEF NeighborInv
<1>10. ~HasCircularWait' /\ \A s \in Stages : graph'[s] # {} => s \in roots' \/ color'[s] # "white"
  BY <1>1, <1>4 DEF HasCircularWait, SearchInv, CheckerTypeOK
<1> QED
  BY <1>1, <1>5, <1>8, <1>9, <1>10 DEF SearchInv

\* It ends without a cycle when every device that waits has been left.
LEMMA NoCycleFoundSearchInv ==
  ASSUME SearchInv, NoCycleFound
  PROVE  SearchInv'
<1>1. /\ CheckerTypeOK /\ StackInv /\ NeighborInv /\ ~HasCircularWait
      /\ stack = << >> /\ roots = {}
      /\ phase' = "verdict" /\ UNCHANGED <<errors, graph, roots, color>>
  BY DEF SearchInv, NoCycleFound
<1>2. CheckerTypeOK'
  BY <1>1 DEF CheckerTypeOK, NoCycleFound
<1>3. \A s \in Stages : graph[s] # {} => s \in Black
  BY <1>1 DEF SearchInv, NoCycleFound, StackInv, Black, CheckerTypeOK
<1>4. ~HasCycle
  <2>1. ASSUME NEW S \in SUBSET Stages, WaitsWithin(S)
        PROVE  FALSE
    BY <1>1, <1>3, <2>1 DEF WaitsWithin, NeighborInv
  <2> QED
    BY <2>1 DEF HasCycle
<1> QED
  BY <1>1, <1>2, <1>4
     DEF SearchInv, NoCycleFound, HasCircularWait, HasCycle, WaitsWithin

\* The search keeps its books, whatever the stages do and however often.
THEOREM SearchInvariance == Spec => []SearchInv
<1>1. Init => SearchInv
  <2> SUFFICES ASSUME Init
               PROVE  SearchInv
    OBVIOUS
  <2>1. CheckerTypeOK
    BY LinksAssumption DEF Init, CheckerInit, CheckerTypeOK
  <2> QED
    BY <2>1 DEF Init, CheckerInit, SearchInv
<1>2. SearchInv /\ [Next]_vars => SearchInv'
  <2> SUFFICES ASSUME SearchInv, [Next]_vars
               PROVE  SearchInv'
    OBVIOUS
  <2>1. ASSUME NEW link \in Links, AddSend(link[1], link[2]) \/ AddRecv(link[1], link[2])
        PROVE  SearchInv'
    <3>1. link[1] \in Stages /\ link[2] \in Stages
      BY LinksAssumption
    <3>2. <<"send", link[2]>> \in Entries /\ <<"recv", link[1]>> \in Entries
      BY <3>1 DEF Entries
    <3> QED
      BY <2>1, <3>1, <3>2, CallKeepsSearchInv DEF AddSend, AddRecv
  <2>2. CASE Match
    BY <2>2, MatchSearchInv
  <2>3. CASE Search
    BY <2>3, RootSearchInv, NeighborSearchInv, LeaveSearchInv, NoCycleFoundSearchInv
       DEF Search
  <2>4. CASE UNCHANGED <<calls, program, checkVars>>
    <3>1. CheckerTypeOK' /\ UNCHANGED <<phase, errors, graph, roots, color, stack, todo>>
      BY <2>4 DEF SearchInv, CheckerTypeOK, checkVars
    <3>2. (StackInv' <=> StackInv) /\ (HasCircularWait' <=> HasCircularWait)
      BY <3>1 DEF StackInv, HasCircularWait
    <3>3. (HasCycle' <=> HasCycle) /\ (NeighborInv' <=> NeighborInv)
      BY <3>1 DEF HasCycle, NeighborInv, WaitsWithin, Black
    <3> QED
      BY <3>1, <3>2, <3>3 DEF SearchInv
  <2>5. Next \/ UNCHANGED vars
    OBVIOUS
  <2> QED
    BY <2>1, <2>2, <2>3, <2>4, <2>5 DEF Next, Check, CheckerNext, Step, vars
<1> QED
  BY <1>1, <1>2, PTL DEF Spec

\* check() reports a circular wait exactly when the wait-for graph has a cycle.
THEOREM SearchVerdict == Spec => []SearchIsRight
<1>1. SearchInv => SearchIsRight
  BY DEF SearchInv, SearchIsRight
<1> QED
  BY <1>1, SearchInvariance, PTL

-----------------------------------------------------------------------------
\* What a stage has done is a finite set of entries.
LEMMA DoneFinite ==
  ASSUME CheckerTypeOK, NEW s \in Stages, NEW entry
  PROVE  /\ IsFiniteSet(Where(s, entry)) /\ IsFiniteSet(Done(s, entry))
         /\ Cardinality(Done(s, entry)) \in Nat /\ Cardinality(Where(s, entry)) \in Nat
<1>1. Len(program[s]) \in Int /\ 1 \in Int
  BY DEF CheckerTypeOK
<1>2. IsFiniteSet(1 .. Len(program[s]))
  BY <1>1, FS_Interval
<1>3. Where(s, entry) \in SUBSET (1 .. Len(program[s])) /\ Done(s, entry) \in SUBSET (1 .. Len(program[s]))
  BY DEF Where, Done
<1>4. IsFiniteSet(Where(s, entry)) /\ IsFiniteSet(Done(s, entry))
  BY <1>2, <1>3, FS_Subset
<1> QED
  BY <1>4, FS_CardinalityType

\* One step of stage s adds one entry, the current one, to what s has done.
LEMMA DoneStep ==
  ASSUME CheckerTypeOK, RunInv, NEW s \in Stages, NEW t \in Stages, NEW entry,
         pc[s] < Len(program[s]), pc' = [pc EXCEPT ![s] = @ + 1], program' = program
  PROVE  Cardinality(Done(t, entry)') =
           Cardinality(Done(t, entry)) + (IF t = s /\ Current(s) = entry THEN 1 ELSE 0)
<1>1. pc[t] \in Nat /\ pc[s] \in Nat /\ Len(program[t]) \in Nat /\ Len(program[s]) \in Nat
  BY DEF RunInv, CheckerTypeOK
<1>2. Cardinality(Done(t, entry)) \in Nat /\ IsFiniteSet(Done(t, entry))
  BY DoneFinite
<1>3. CASE t = s /\ Current(s) = entry
  <2>1. pc'[s] = pc[s] + 1 /\ pc[s] + 1 \in Where(s, entry)
    BY <1>1, <1>3 DEF RunInv, Where, Current
  <2>2. Done(t, entry)' = Done(t, entry) \cup {pc[s] + 1} /\ pc[s] + 1 \notin Done(t, entry)
    BY <1>1, <1>3, <2>1 DEF Done, Where
  <2> QED
    BY <1>2, <1>3, <2>2, FS_AddElement
<1>4. CASE ~(t = s /\ Current(s) = entry)
  <2>1. Done(t, entry)' = Done(t, entry)
    <3>1. CASE t = s
      <4>1. pc'[s] = pc[s] + 1 /\ pc[s] + 1 \notin Where(s, entry)
        BY <1>1, <1>4, <3>1 DEF RunInv, Where, Current
      <4> QED
        BY <1>1, <3>1, <4>1 DEF Done, Where
    <3>2. CASE t # s
      BY <3>2 DEF RunInv, Done, Where
    <3> QED
      BY <3>1, <3>2
  <2> QED
    BY <1>2, <1>4, <2>1
<1> QED
  BY <1>3, <1>4

\* A stage that has done nothing has done no entry.
LEMMA NothingDone ==
  ASSUME CheckerTypeOK, NEW s \in Stages, NEW entry, pc[s] = 0
  PROVE  Cardinality(Done(s, entry)) = 0
<1>1. Done(s, entry) = {}
  BY DEF Done, Where, CheckerTypeOK
<1> QED
  BY <1>1, FS_EmptySet

\* A step of a device keeps what the run's invariant says of it.
LEMMA StepRunInv ==
  ASSUME SearchInv, RunInv, NEW s \in Stages, Step(s)
  PROVE  RunInv'
<1>1. /\ CheckerTypeOK /\ CheckerTypeOK' /\ program' = program /\ phase = "verdict"
      /\ UNCHANGED <<phase, errors, graph>>
      /\ pc[s] < Len(program[s]) /\ pc' = [pc EXCEPT ![s] = @ + 1]
  BY DEF SearchInv, Step, CheckerTypeOK, checkVars, Passed
<1>2. pc' \in [Stages -> Nat] /\ \A t \in Stages : pc'[t] <= Len(program'[t])
  BY <1>1 DEF RunInv, CheckerTypeOK
<1>3. program[s] \in Seq(Entries) /\ pc[s] + 1 \in 1 .. Len(program[s])
  BY <1>1 DEF CheckerTypeOK, RunInv
<1>4. Current(s) \in Entries
  BY <1>3 DEF Current
<1>5. Current(s) = <<Current(s)[1], Current(s)[2]>> /\ Current(s)[2] \in Stages
  BY <1>4 DEF Entries
<1>6. ASSUME NEW a \in Stages, NEW b \in Stages
      PROVE  /\ channel'[<<a, b>>] \in Nat
             /\ channel'[<<a, b>>] = Cardinality(Done(a, <<"send", b>>)')
                                     - Cardinality(Done(b, <<"recv", a>>)')
  <2> DEFINE sent == Cardinality(Done(a, <<"send", b>>))
             rcvd == Cardinality(Done(b, <<"recv", a>>))
  <2>1. /\ sent \in Nat /\ rcvd \in Nat /\ channel[<<a, b>>] \in Nat
        /\ channel[<<a, b>>] = sent - rcvd
    BY <1>1, DoneFinite DEF RunInv
  <2>2. Cardinality(Done(a, <<"send", b>>)')
          = sent + (IF a = s /\ Current(s) = <<"send", b>> THEN 1 ELSE 0)
    BY <1>1, DoneStep
  <2>3. Cardinality(Done(b, <<"recv", a>>)')
          = rcvd + (IF b = s /\ Current(s) = <<"recv", a>> THEN 1 ELSE 0)
    BY <1>1, DoneStep
  <2>4. CASE Send(s)
    <3>1. Current(s) = <<"send", Current(s)[2]>>
          /\ channel' = [channel EXCEPT ![<<s, Current(s)[2]>>] = @ + 1]
      BY <1>5, <2>4 DEF Send
    <3>2. Current(s) # <<"recv", a>>
      BY <3>1
    <3>3. channel'[<<a, b>>]
            = channel[<<a, b>>] + (IF a = s /\ Current(s) = <<"send", b>> THEN 1 ELSE 0)
      <4>1. <<a, b>> = <<s, Current(s)[2]>> <=> a = s /\ Current(s) = <<"send", b>>
        BY <3>1
      <4>2. channel \in [Stages \X Stages -> Nat] /\ <<a, b>> \in Stages \X Stages
        BY DEF RunInv
      <4>3. channel'[<<a, b>>] = IF <<a, b>> = <<s, Current(s)[2]>> THEN channel[<<a, b>>] + 1
                                 ELSE channel[<<a, b>>]
        BY <3>1, <4>2
      <4> QED
        BY <2>1, <4>1, <4>3
    <3> QED
      BY <2>1, <2>2, <2>3, <3>2, <3>3
  <2>5. CASE Recv(s)
    <3>1. /\ Current(s) = <<"recv", Current(s)[2]>>
          /\ channel[<<Current(s)[2], s>>] > 0
          /\ channel' = [channel EXCEPT ![<<Current(s)[2], s>>] = @ - 1]
      BY <1>5, <2>5 DEF Recv
    <3>2. Current(s) # <<"send", b>>
      BY <3>1
    <3>3. channel'[<<a, b>>]
            = channel[<<a, b>>] - (IF b = s /\ Current(s) = <<"recv", a>> THEN 1 ELSE 0)
          /\ (b = s /\ Current(s) = <<"recv", a>> => channel[<<a, b>>] > 0)
      BY <1>5, <2>1, <3>1 DEF RunInv
    <3> QED
      BY <2>1, <2>2, <2>3, <3>2, <3>3
  <2> QED
    BY <2>4, <2>5 DEF Step
<1>7. channel' \in [Stages \X Stages -> Nat]
  <2>1. ASSUME NEW link \in Stages \X Stages
        PROVE  channel'[link] \in Nat
    <3>1. PICK a \in Stages, b \in Stages : link = <<a, b>>
      OBVIOUS
    <3> QED
      BY <1>6, <3>1
  <2>2. CASE Send(s)
    BY <2>1, <2>2 DEF Send, RunInv
  <2>3. CASE Recv(s)
    BY <2>1, <2>3 DEF Recv, RunInv
  <2> QED
    BY <2>2, <2>3 DEF Step
<1>8. \A a, b \in Stages : IsReceived(<<a, b>>)' <=> IsReceived(<<a, b>>)
  BY <1>1 DEF IsReceived, Does
<1> QED
  BY <1>1, <1>2, <1>6, <1>7, <1>8 DEF RunInv

\* The checker does not touch the run, and the programs are settled before check().
LEMMA CheckRunInv ==
  ASSUME SearchInv, SearchInv', RunInv, Check
  PROVE  RunInv'
<1>1. /\ CheckerTypeOK /\ CheckerTypeOK' /\ pc' = pc /\ channel' = channel
  BY DEF SearchInv, Check
<1>2. phase = "add" \/ (phase = "search" /\ program' = program)
  BY DEF Check, CheckerNext, AddSend, AddRecv, Call, Match, Search, Root, Neighbor, Leave,
         NoCycleFound
<1>3. \A s \in Stages : pc[s] = 0 /\ pc'[s] = 0
  BY <1>1, <1>2 DEF RunInv
<1>4. \A s \in Stages : pc'[s] <= Len(program'[s])
  BY <1>1, <1>3 DEF CheckerTypeOK
<1>5. ASSUME NEW a \in Stages, NEW b \in Stages
      PROVE  channel'[<<a, b>>] = Cardinality(Done(a, <<"send", b>>)')
                                  - Cardinality(Done(b, <<"recv", a>>)')
  <2>1. /\ Cardinality(Done(a, <<"send", b>>)) = 0 /\ Cardinality(Done(b, <<"recv", a>>)) = 0
    BY <1>1, <1>3, NothingDone
  <2>2. Done(a, <<"send", b>>)' = {} /\ Done(b, <<"recv", a>>)' = {}
    BY <1>1, <1>3 DEF Done, Where, CheckerTypeOK
  <2>3. Cardinality(Done(a, <<"send", b>>)') = 0 /\ Cardinality(Done(b, <<"recv", a>>)') = 0
    BY <2>2, FS_EmptySet
  <2> QED
    BY <1>1, <2>1, <2>3 DEF RunInv
<1>6. phase' # "add" /\ errors' = {} =>
        \A a, b \in Stages : IsReceived(<<a, b>>)' => a \in graph'[b]
  <2>1. CASE Match
    BY <2>1 DEF Match, IsReceived, Does
  <2>2. CASE phase = "add" /\ phase' = "add"
    BY <2>2
  <2>3. CASE Search
    <3>1. program' = program /\ graph' = graph /\ phase # "add" /\ errors \subseteq errors'
      BY <2>3 DEF Search, Root, Neighbor, Leave, NoCycleFound
    <3> QED
      BY <3>1 DEF RunInv, IsReceived, Does
  <2> QED
    BY <2>1, <2>2, <2>3 DEF Check, CheckerNext, AddSend, AddRecv, Call, checkVars
<1> QED
  BY <1>1, <1>3, <1>4, <1>5, <1>6 DEF RunInv

\* The books of the search and of the run are right in every reachable state.
THEOREM RunInvariance == Spec => []IInv
<1>1. Init /\ SearchInv => RunInv
  <2> SUFFICES ASSUME Init, SearchInv
               PROVE  RunInv
    OBVIOUS
  <2>1. CheckerTypeOK /\ \A s \in Stages : pc[s] = 0
    BY DEF SearchInv, Init
  <2>2. \A a, b \in Stages : /\ Cardinality(Done(a, <<"send", b>>)) = 0
                             /\ Cardinality(Done(b, <<"recv", a>>)) = 0
    BY <2>1, NothingDone
  <2>3. \A s \in Stages : pc[s] <= Len(program[s])
    <3>1. \A s \in Stages : program[s] = << >>
      BY DEF Init, CheckerInit
    <3>2. Len(<< >>) = 0
      OBVIOUS
    <3>3. \A s \in Stages : Len(program[s]) = 0
      BY <3>1, <3>2
    <3>4. 0 <= 0
      OBVIOUS
    <3> QED
      BY <2>1, <3>3, <3>4, Zenon
  <2> QED
    BY <2>1, <2>2, <2>3 DEF Init, CheckerInit, RunInv
<1>2. SearchInv /\ SearchInv' /\ RunInv /\ [Next]_vars => RunInv'
  <2> SUFFICES ASSUME SearchInv, SearchInv', RunInv, [Next]_vars
               PROVE  RunInv'
    OBVIOUS
  <2>1. CASE UNCHANGED vars
    BY <2>1 DEF vars, checkVars, RunInv, Done, Where, IsReceived, Does
  <2> QED
    BY <2>1, StepRunInv, CheckRunInv DEF Next
<1> QED
  BY <1>1, <1>2, SearchInvariance, PTL DEF Spec, IInv

\* A stage that is not finished but not ready either waits for another of its kind:
\* its source has, like itself, an entry left to do.
LEMMA BlockedOnUnfinished ==
  ASSUME IInv, Passed, Balanced, NEW s \in Stages, pc[s] # Len(program[s]), ~Ready(s)
  PROVE  \E src \in Stages : src \in graph[s] /\ pc[src] # Len(program[src])
<1>1. /\ CheckerTypeOK /\ RunInv /\ phase # "add" /\ errors = {}
      /\ pc[s] \in Nat /\ Len(program[s]) \in Nat /\ pc[s] < Len(program[s])
  BY DEF IInv, SearchInv, Passed, RunInv, CheckerTypeOK
<1> DEFINE src  == Current(s)[2]
           recv == <<"recv", src>>
           send == <<"send", s>>
<1>2. program[s] \in Seq(Entries) /\ pc[s] + 1 \in 1 .. Len(program[s])
  BY <1>1 DEF CheckerTypeOK
<1>3. Current(s) = recv /\ src \in Stages /\ channel[<<src, s>>] = 0
  <2>1. Current(s) \in Entries
    BY <1>2 DEF Current
  <2> QED
    BY <1>1, <2>1 DEF Ready, Blocked, Entries
<1>4. src \in graph[s]
  <2>1. program[s][pc[s] + 1] = recv
    BY <1>3 DEF Current
  <2>2. IsReceived(<<src, s>>)
    BY <1>2, <2>1 DEF IsReceived, Does
  <2> QED
    BY <1>1, <1>3, <2>2 DEF RunInv
<1> HIDE DEF src
<1>5. Cardinality(Done(s, recv)) < Cardinality(Where(s, recv))
  <2>1. pc[s] + 1 \in Where(s, recv) /\ pc[s] + 1 \notin Done(s, recv)
    BY <1>1, <1>2, <1>3 DEF Where, Done, Current
  <2>2. Done(s, recv) \in SUBSET Where(s, recv)
    BY DEF Done
  <2> QED
    BY <1>1, <2>1, <2>2, DoneFinite, FS_Subset
<1>6. Cardinality(Done(src, send)) = Cardinality(Done(s, recv))
  BY <1>1, <1>3, DoneFinite DEF RunInv
<1>7. Cardinality(Where(src, send)) = Cardinality(Where(s, recv))
  BY <1>3 DEF Balanced
<1>8. pc[src] # Len(program[src])
  <2> SUFFICES ASSUME pc[src] = Len(program[src])
               PROVE  FALSE
    OBVIOUS
  <2>1. Done(src, send) = Where(src, send)
    BY <1>1, <1>3 DEF Done, Where, CheckerTypeOK
  <2> QED
    BY <1>1, <1>3, <1>5, <1>6, <1>7, <2>1, DoneFinite
<1> QED
  BY <1>3, <1>4, <1>8

\* An accepted pipeline in which every receive has a send of its own never gets
\* stuck: the stages that are not finished would wait for each other.
THEOREM DeadlockFreedom == Spec => []NoDeadlock
<1>1. IInv => NoDeadlock
  <2> SUFFICES ASSUME IInv, Balanced, Passed, ~Finished, \A s \in Stages : ~Ready(s)
               PROVE  FALSE
    BY DEF NoDeadlock, NobodyWaitsForever
  <2> DEFINE S == {s \in Stages : pc[s] # Len(program[s])}
  <2>1. \A s \in S : graph[s] \cap S # {}
    BY BlockedOnUnfinished
  <2>2. S # {} /\ S \in SUBSET Stages
    BY DEF Finished
  <2>3. HasCycle
    BY <2>1, <2>2 DEF HasCycle, WaitsWithin
  <2>4. ~HasCycle
    BY DEF IInv, SearchInv, Passed, HasCircularWait
  <2> QED
    BY <2>3, <2>4
<1> QED
  BY <1>1, RunInvariance, PTL
=============================================================================
