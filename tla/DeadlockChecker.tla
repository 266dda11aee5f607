---------------------------- MODULE DeadlockChecker ----------------------------
(***************************************************************************)
(* DeadlockChecker (verifier/schedules.py): the sends and receives of a    *)
(* pipeline are collected, then check() matches them on (src, dst) pairs   *)
(* and searches the wait-for graph for a cycle.  The tensor names, which   *)
(* check() does not look at, are left out.                                 *)
(*                                                                         *)
(* program[s] is what stage s does, in the order of the calls: the lists   *)
(* sends and recvs of the code are its sends and its receives.             *)
(***************************************************************************)
EXTENDS Integers, Sequences

CONSTANTS
  Stages,    \* the pipeline stages
  Links,     \* the pairs <<src, dst>> between which tensors are sent
  MaxCalls   \* how many add_send and add_recv calls are considered

ASSUME LinksAssumption == Links \subseteq Stages \X Stages /\ MaxCalls \in Nat

VARIABLES
  calls,    \* the number of calls made
  program,  \* program[s]: sequence of <<"send", dst>> and <<"recv", src>>
  phase,    \* "add", "search" (_has_cycle is running) or "verdict"
  errors,   \* the errors of check()
  graph,    \* wait_graph: graph[s] are the stages that s waits for
  roots,    \* the nodes that the loop of _has_cycle has not come to
  color,    \* color[s] of the depth-first search
  stack,    \* the nodes whose dfs(node) is active, outermost first
  todo      \* todo[s]: neighbors that the active dfs(s) has not come to

checkVars == <<phase, errors, graph, roots, color, stack, todo>>

Entries == {"send", "recv"} \X Stages

Does(s, entry) == \E i \in 1 .. Len(program[s]) : program[s][i] = entry

IsSent(link)     == Does(link[1], <<"send", link[2]>>)
IsReceived(link) == Does(link[2], <<"recv", link[1]>>)

CheckerInit ==
  /\ calls = 0
  /\ program = [s \in Stages |-> << >>]
  /\ phase = "add"
  /\ errors = {}
  /\ graph = [s \in Stages |-> {}]
  /\ roots = {}
  /\ color = [s \in Stages |-> "white"]
  /\ stack = << >>
  /\ todo = [s \in Stages |-> {}]

Call(s, entry) == /\ phase = "add"
                  /\ calls < MaxCalls
                  /\ calls' = calls + 1
                  /\ program' = [program EXCEPT ![s] = Append(@, entry)]
                  /\ UNCHANGED checkVars

AddSend(src, dst) == Call(src, <<"send", dst>>)
AddRecv(src, dst) == Call(dst, <<"recv", src>>)

\* The first two checks of check().
Unmatched ==
  ({"unmatched_send"} \X {l \in Stages \X Stages : IsSent(l) /\ ~IsReceived(l)})
    \cup ({"unmatched_recv"} \X {l \in Stages \X Stages : IsReceived(l) /\ ~IsSent(l)})

\* Faulty: as the comment in the code says it, "Only build wait-for if there are
\* unmatched pairs"; and with the source waiting for the destination.
MatchIfUnmatched ==
  /\ phase = "add"
  /\ phase' = "search"
  /\ errors' = Unmatched
  /\ graph' = [s \in Stages |->
                 {src \in Stages : Unmatched # {} /\ IsReceived(<<src, s>>)}]
  /\ roots' = {s \in Stages : graph'[s] # {}}
  /\ UNCHANGED <<calls, program, color, stack, todo>>

MatchReversed ==
  /\ phase = "add"
  /\ phase' = "search"
  /\ errors' = Unmatched
  /\ graph' = [s \in Stages |->
                 {dst \in Stages : Unmatched = {} /\ IsReceived(<<s, dst>>)}]
  /\ roots' = {s \in Stages : graph'[s] # {}}
  /\ UNCHANGED <<calls, program, color, stack, todo>>

\* The wait-for graph is built only if the first two checks find nothing.
Match ==
  /\ phase = "add"
  /\ phase' = "search"
  /\ errors' = Unmatched
  /\ graph' = [s \in Stages |->
                 {src \in Stages : Unmatched = {} /\ IsReceived(<<src, s>>)}]
  /\ roots' = {s \in Stages : graph'[s] # {}}
  /\ UNCHANGED <<calls, program, color, stack, todo>>

-----------------------------------------------------------------------------
Top == stack[Len(stack)]

\* dfs(node) begins.
Enter(node) == /\ color' = [color EXCEPT ![node] = "gray"]
               /\ stack' = Append(stack, node)

\* The loop over the nodes of the graph.
Root(node) ==
  /\ phase = "search"
  /\ stack = << >>
  /\ node \in roots
  /\ roots' = roots \ {node}
  /\ \/ /\ color[node] = "white"
        /\ Enter(node)
        /\ todo' = [todo EXCEPT ![node] = graph[node]]
     \/ /\ color[node] # "white"
        /\ UNCHANGED <<color, stack, todo>>
  /\ UNCHANGED <<calls, program, phase, errors, graph>>

\* One iteration of the loop over the neighbors of the innermost node.
Neighbor(next) ==
  /\ phase = "search"
  /\ stack # << >>
  /\ next \in todo[Top]
  /\ \/ /\ color[next] = "gray"
        /\ phase' = "verdict"
        /\ errors' = errors \cup {<<"circular_wait", next>>}
        /\ todo' = [todo EXCEPT ![Top] = @ \ {next}]
        /\ UNCHANGED <<color, stack>>
     \/ /\ color[next] = "white"
        /\ Enter(next)
        /\ todo' = [todo EXCEPT ![Top] = @ \ {next}, ![next] = graph[next]]
        /\ UNCHANGED <<phase, errors>>
     \/ /\ color[next] = "black"
        /\ todo' = [todo EXCEPT ![Top] = @ \ {next}]
        /\ UNCHANGED <<phase, errors, color, stack>>
  /\ UNCHANGED <<calls, program, graph, roots>>

\* Faulty: the node stays gray when dfs(node) ends; and dfs(node) does not return.
LeaveGray ==
  /\ phase = "search"
  /\ stack # << >>
  /\ todo[Top] = {}
  /\ stack' = SubSeq(stack, 1, Len(stack) - 1)
  /\ UNCHANGED <<calls, program, phase, errors, graph, roots, color, todo>>

LeaveNever ==
  /\ phase = "search"
  /\ stack # << >>
  /\ todo[Top] = {}
  /\ color' = [color EXCEPT ![Top] = "black"]
  /\ UNCHANGED <<calls, program, phase, errors, graph, roots, stack, todo>>

\* dfs(node) ends without having found a cycle.
Leave ==
  /\ phase = "search"
  /\ stack # << >>
  /\ todo[Top] = {}
  /\ color' = [color EXCEPT ![Top] = "black"]
  /\ stack' = SubSeq(stack, 1, Len(stack) - 1)
  /\ UNCHANGED <<calls, program, phase, errors, graph, roots, todo>>

NoCycleFound ==
  /\ phase = "search"
  /\ stack = << >>
  /\ roots = {}
  /\ phase' = "verdict"
  /\ UNCHANGED <<calls, program, errors, graph, roots, color, stack, todo>>

Search == \/ \E s \in Stages : Root(s) \/ Neighbor(s)
          \/ Leave
          \/ NoCycleFound

CheckerNext == \/ \E link \in Links : AddSend(link[1], link[2]) \/ AddRecv(link[1], link[2])
               \/ Match
               \/ Search

Passed == phase = "verdict" /\ errors = {}

\* The nodes in S all wait for a node in S: the graph has a cycle iff there is
\* such a set.
WaitsWithin(S) == S # {} /\ \A s \in S : graph[s] \cap S # {}

CheckerTypeOK ==
  /\ calls \in 0 .. MaxCalls
  /\ program \in [Stages -> Seq(Entries)]
  /\ phase \in {"add", "search", "verdict"}
  /\ graph \in [Stages -> SUBSET Stages]
  /\ roots \subseteq Stages
  /\ color \in [Stages -> {"white", "gray", "black"}]
  /\ stack \in Seq(Stages)
  /\ todo \in [Stages -> SUBSET Stages]

(***************************************************************************)
(* The inductive invariant of the search.  The gray nodes are the active   *)
(* ones, each a neighbor of the one below it on the stack; the neighbors   *)
(* that an active node has come to are black, or the next one on the       *)
(* stack; those of a black node are black; and no cycle is all black.      *)
(***************************************************************************)
Black == {s \in Stages : color[s] = "black"}

StackInv ==
  /\ \A s \in Stages : color[s] = "gray" <=> \E i \in 1 .. Len(stack) : stack[i] = s
  /\ \A i, j \in 1 .. Len(stack) : stack[i] = stack[j] => i = j
  /\ \A i \in 1 .. (Len(stack) - 1) : stack[i + 1] \in graph[stack[i]]

NeighborInv ==
  /\ \A i \in 1 .. Len(stack) :
       /\ todo[stack[i]] \subseteq graph[stack[i]]
       /\ \A n \in graph[stack[i]] \ todo[stack[i]] :
            n \in Black \/ (i < Len(stack) /\ n = stack[i + 1])
  /\ \A s \in Black : graph[s] \subseteq Black
  /\ \A S \in SUBSET Black : ~WaitsWithin(S)

HasCircularWait == \E s \in Stages : <<"circular_wait", s>> \in errors
HasCycle        == \E S \in SUBSET Stages : WaitsWithin(S)

SearchInv ==
  /\ CheckerTypeOK
  /\ phase = "add" => /\ stack = << >>
                      /\ \A s \in Stages : color[s] = "white"
                      /\ errors = {}
  /\ phase # "add" => \A s \in Stages :
                        graph[s] # {} => s \in roots \/ color[s] # "white"
  /\ phase = "search" => StackInv /\ NeighborInv /\ ~HasCircularWait
  /\ phase = "verdict" => (HasCircularWait <=> HasCycle)
=============================================================================
