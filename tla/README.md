# llm-infra-verifier: TLA+ models and proofs

`llm-infra-verifier` (package `verifier/`) checks distributed training programs before they run:
a program is a list of IR operations on tensors that carry a placement on a device mesh; the package
executes it symbolically, asks Z3 whether placements, shapes and communication are right, checks
pipeline schedules, and looks for races in programs with asynchronous communication.

A verifier is wrong in two ways: it accepts what it should refuse, or refuses what is right. The
modules in this directory model the verifier's algorithms *together with what they verify*: the
checker computes its verdict, then the accepted program or pipeline runs, and the properties say what
the verdict promises about the run.

## Inventory

| Part (source) | State | Operations | What makes it correct | Model |
|---|---|---|---|---|
| Temporal verifier (`temporal.py`) | events, happens-before edges, Z3 constraints, reports | build the graph, six detectors, verdict | a program found safe has no schedule of its streams in which an operation overtakes one it conflicts with; constraints satisfiable; nothing left in flight | `TemporalVerifier`, `TemporalSoundness` |
| Async and P2P operations (`ir/async_ops.py`, `ir/p2p.py`, `ir/program.py`) | the program's list of operations | `add`; what each reads, writes, issues, waits for | accesses, streams and handles are those the verifier and the run agree on | `TemporalProgram` |
| Schedule generators (`schedules.py`) | loop variables, the schedule | `generate`, `generate_simple` | every pass once, after the passes it needs | `PipelineSchedule`, `ScheduleSimple`, `ScheduleFull`, `PipelineTasks` |
| Activation tracker (`schedules.py`) | saved and released sets | `verify_activation_liveness`, (`record_forward`, ...) | no backward pass without its activation; bounded number held | `ActivationTracker` |
| Deadlock checker (`schedules.py`) | sends, receives, wait-for graph, colors | `add_send`, `add_recv`, `check`, `_has_cycle` | accepted pipelines run to their end | `DeadlockChecker`, `PipelineRun` |
| Executor (`executor.py`) | per device: tensors and slices; history; operations of a composite still to run | `register_tensor`, `run_program` and one handler per kind of operation, send and receive, ring rotation, `reset_devices`; strict or not | devices agree unless an operation tells them apart; data moves by messages only; slices tile their tensor | `DeviceMesh`, `Executor` |
| Tensor state (`state/`) | placement per mesh dimension, local shape, slices | local shapes, slices, coordinates in a mesh | slices of the devices cover the tensor evenly | `TensorOps`, `DeviceMesh` |
| Collective and compute operations (`ir/`) | none of their own | `apply`, `vjp` per operation | rules agree with the solver's encoding, and with what the operation does to the data | `TensorOps`, `VerifiedRun`, `Autograd` |
| Placement and shape solver (`solver.py`) | Z3 variables and constraints per name and version | encode, preconditions, equivalence, shapes, gradient duality, `verify_all` | what is "proved" is what executing the program gives, and not vacuous | `PlacementSolver`, `ShapeSolver`, `DistributedVerifier`, `Autograd` |
| Autograd (`autograd.py`) | tape, gradients | `record`, `generate_backward`, `reset`, duality checks | a gradient sums all ways from the loss, each once; each collective has its dual | `Autograd` |
| Rewriting, synthesis (`rewrite.py`, `synthesis.py`) | the program under rewriting; candidates of a level, best candidate | analyze, two rules, search by levels, fallback | search ends; its result is right, means the same, is the cheapest | `Rewriting`, `Synthesis` |
| LLM frontend loop (`llm_frontend.py`) | last response, errors, number of answers | extract, parse, execute, judge, feedback | success only for a program that is right; bounded calls, none wasted | `FrontendLoop` |
| Precision, ZeRO, CP, MoE (`ir/`) | none of their own | `apply`, `vjp`, `expand` | placements and dtypes of results and gradients; ring attention meets all keys | `Executor`, `Autograd`, in part |
| SPMD types (`ir/spmd.py`) | none | optional cross-check of placements | the two type systems agree | not modelled |
| Common TIR, lifter (`common_tir.py`, `tir_lifter.py`) | none | translate between formats | names and order are kept | not modelled: format conversion |

Interactions: frontend, rewriting and synthesis produce programs; the executor turns a program into
tensor states, which the solver's checks take as their facts; autograd reads the executor's history
and produces the backward program that gradient duality compares with the forward one; the schedule
generators feed the activation tracker and the deadlock checker; the temporal verifier reads a program
on its own. The package is sequential Python; what is concurrent is what it reasons *about*: streams
and the host in an asynchronous program, the stages of a pipeline, the devices of a mesh. So the hard
behaviours are the interleavings and orders that the verdicts quantify over, the boundary values of the
clock formulas, the graph search, and checks that pass for the wrong reason (contradictory constraints).
`PROJECT.json` lists them one by one under "hazards".

## Modules

**Schedules.** `PipelineSchedule` has what the two generators share: the size of the pipeline and the
list under construction. `ScheduleSimple` is `generate_simple`: the two nested loops over `clock` (`t`) and
`stage` (`s`), with one action for each `if` of the body (`Forward`, `Backward`). An entry of the
schedule is `<<"F" or "B", stage, micro-batch>>`. `PipelineTasks` is the abstract specification: tasks
may be done in any order that respects their needs (the activation of the previous stage; the stage's
own activation and the next stage's gradient). The refinement mapping is `done <- Emitted`, the set of
entries in the schedule. `ActivationTracker` extends the generator with the walk of
`verify_activation_liveness` over the finished schedule: the actions `WalkForward` and `WalkBackward`
are the two branches of its loop. `ScheduleFull` is `generate`: warmup, clock loop and cooldown, each
iteration of an inner loop a step.

The phase label (`PhaseOf`) is a function of the entry and is kept as a definition; no check of the
code depends on it.

**Temporal verification.** `TemporalProgram` holds the program (`ops`) and what its operations read,
write, issue and wait for. `TemporalVerifier` has the edges that the `_build_*` methods add
(`StreamEdges`, `WaitEdges`, `DataEdges`), `get_ordered`, and one operator per detector; `BuildGraph`
and `DetectAll` are the two halves of `verify_temporal`. The constraints of the code are differences
`complete_a < issue_b` and `issue <= complete`, so Z3 forces `a` before `b` iff a path of edges leads
from `a` to `b`, or the edges have a cycle and nothing is satisfiable: `ForcedBefore` says that. A path
is stated with closed sets (`Path`), not by recursion, so that it can be proved about. `StreamRuntime`
is not code of the repository: it is the execution that the IR's docstrings describe (in-order streams,
operations that return before they complete, waits). `TemporalSoundness` composes the three: the
program is built operation by operation, verified, and run if it is found safe.

What a report says besides its type and its two operations (tensor names, counterexample, wording) is
left out, nested `OverlapRegion`s too.

**Deadlock checking.** `DeadlockChecker` collects sends and receives, builds the wait-for graph and
runs the depth-first search of `_has_cycle` one loop iteration at a time, with an explicit stack for the
recursion (`stack`, `todo`). The order in which a Python set is iterated is a choice (`Neighbor(next)`),
as is that of the graph's nodes (`Root(node)`). `PipelineRun` then lets the stages of an accepted
pipeline run the programs whose calls were recorded, with buffered sends.

**Placement verification.** `TensorOps` has the placement rules: for each class of operation what its
`apply` makes of the placements of its inputs (`Apply`) and when it raises (`Raises`). Classes with the
same rule share a kind. Tensors are matrices, so there are four placements, and every size divides.
`PlacementSolver` is `Z3PlacementSolver` at the placement level with `_ssa_rename_program` before it. A
renamed name is a pair of name and version, in closed form (`Current`). The encoding says what value
an operation forces on its output (`Encoded`) and what it demands of its inputs (`Demands`); no
constraint relates two mesh dimensions, so the models are those of each dimension (`Models(d)`), and a
query is proved if no model is a counterexample. `check_compute_preconditions` asks only what is among
the constraints already, so there is nothing to model in it.

`DistributedVerifier` is the verifier with a symbolic run: `AddOp` builds the program, `Execute` applies
its operations one by one, then `verify_all` runs in three parts, `VerifyPostcondition`,
`VerifyLegality` (one step for each iteration of the loop of `verify_communication_legality`, with its
`live` states) and `VerifyPlacement`. The variable `history` remembers what each operation read; the
code does not keep it, the properties compare the replay and the solutions with it.

`VerifiedRun` is not code of the repository: there an accepted program is run on the devices of a mesh
of one dimension with integer matrices, beside a run on one device. What a device holds for a placement
(`Held`), what an operation computes locally (`Compute`) and what a collective exchanges (`Exchange`)
are what the docstrings of the classes say. `RuleHolds` lists the placements for which the rule
of an operation is true of the data.

**Executor.** `DeviceMesh` has the coordinates of a mesh, local shapes, and the offsets of slices as
`compute_tensor_slices` assigns them. `Executor` is `MultiDeviceExecutor`: `Register` is
`register_tensor`, then `RunProgram` and one action for each handler the dispatch knows
(`PerDevice` for everything that a device does alone, `Send`, `RecvAsync`, `RingRotate`,
`RingAttention`, ...). A composite operation puts its expansion on `todo`, which runs first, as in the code.
A tensor is its global shape, its placements and `from`: the inputs in its expression, each with the
device whose registered data it is. `from` is what the properties about data moving between devices look at. `exact`
is not in the code: it says for which tensors the slice was handed on by an operation for which the
slice rule is one that can be right, and `SlicesTile` shows that for those it is. `ShapeSolver`
extends the executor by the shape level of the solver, so that what it proves of a program
can be compared with the program's run.

**Rewriting and synthesis.** `Rewriting` has the analyzer, the two rules and the cost model as
operators over a program and the states of its tensors. `Synthesis` is the search: one step tries one
combination of tactics (`TryCombination`), `EndLevel` keeps the beam, and the fallback goes through the
optimizer, one step for one rewriting (`InsertRule`, `RemoveRule`). The three entry points are the three
values of `entry`.

**Autograd.** `RunOp` applies an operation, `Record` puts the next one on the tape, at once or after the
run; `GenerateBackward` walks the tape and collects gradients and duals; `Reset` empties both. Instead of an expression a gradient has its `paths`: which sequences of tape
entries its sum goes through, so that a contribution that is lost, replaced or passed on before the
others have come shows; the paths are a set, so it does not show if one is added twice. Both duality checks
are operators over the program and the backward program (`EngineErrors`, `SolverErrors`).

**LLM frontend.** `FrontendLoop` is `verify_code`. The language model is the environment: any answer of
`Answers`, or an exception (`ModelRaises`). `Judgement` is the straight-line part of an iteration:
parse, register, execute strictly, analyze, check legality; its result is kept in a variable, and the
actions are what the loop does with it. The order of the checks decides which error is fed back.

`*_proofs` modules hold the theorems. `MC*` modules hold the values TLC uses.

Definitions whose comment begins with "Faulty" are plausible bugs of the code; nothing uses them. Each
property is violated when one of them takes the place of the definition it stands before, which shows
that the property can fail.

## Runs

| Run | What it checks | Bounds |
|---|---|---|
| `activation_tracker` | `FullSchedule`, `ImplementsPipeline`, `ActivationsLive`, `ActivationWindow` (at most `2(P - s)` activations on stage `s`), `WalkCompletes`, and the inductive invariant `TrackerInv` | 1 to 4 stages, 0 to 6 micro-batches: fewer, as many and more micro-batches than stages |
| `schedule_full` | `FullIfFilled`, `ForwardFirst` for `generate` | 1 to 5 stages, 0 to 4 micro-batches |
| `temporal_soundness` | `InOrder`, `NothingLeftInFlight`, `ConstraintsSatisfiable`, and the inductive invariant `IInv` | all programs of up to 4 operations from a menu of 18 (two handles, three streams) |
| `temporal_race` | violated: `RacesAreFound`, a statement of the documentation | the same |
| `pipeline_run` | `SearchIsRight`, `NoDeadlock`, `RunsToEnd`, and the inductive invariant `IInv` | 3 stages, 4 links with a ring and a two-way pair, all programs of up to 6 sends and receives |
| `verified_run` | `ReplayIsRun`, `RenamedApart`, `OutputsReplicate`, `EquivalentIfRulesHold`, and the inductive invariant `IInv` | mesh of one dimension with 2 devices, all programs of up to 3 operations from a menu of 25 (one operation reads one name twice), all 16 placements of two inputs |
| `verified_run_nonlinear` | violated: `ProvedEquivalent` | a menu of 5 operations, two layers with an activation |
| `executor` | `DevicesAgree`, `QuietRunsAgree`, `MovesByMessagesOnly`, `RingMeetsAll`, `SlicesTile`, `ShapesAsRun`, type invariant | meshes of 2, 3 and 2 x 2 devices, 6 sets of inputs, all programs of up to 2 operations from a menu of 22 (composite ones count once), one reset |
| `slices_double_sharding` | violated: `RegisteredSlicesTile` | the same, no program |
| `synthesis` | `SoundSynthesis`, `MeaningKept`, `CheapestOfAll`, `NothingRemoved`, `OptimizedIsRight`, `Ends` | all programs of up to 4 operations from a menu of 9 that can be run, and 5 with four products; 12 sets of inputs; depth 3, beam 10, 10 iterations |
| `autograd` | `ChainRule`, `DualsFound`, `SendsFirst`, `GradientsPlaced` | all programs of up to 3 operations from a menu of 26, recorded or not, two inputs with every placement, two backward passes |
| `frontend_loop` | `AcceptedIsSound`, `EndsWithNoneWasted` | all programs of up to two of seven operations, unknown, broken and unparsable answers; the caller's tensors or default ones; 3 iterations |

Four operations are enough for an asynchronous operation, its wait, a reader and an overwriting
operation, in every order, which is the shortest program with each of the races the detectors look
for. Six calls are enough for two matched links and a surplus receive, and for a circular wait of three
stages. Three operations on placements are enough for a product, what is done to its result and the
collective that completes it, also in place, and for an operation to be renamed after two writes of its
input. The proofs cover every value of these bounds.

Two operations are enough to make the devices differ and to read what differs; the composite ones run up
to a dozen operations each, so ring attention has whole rounds on rings of two and of three. Two
products are the shortest program in which one insertion does not do, and four products are one more
than the depth of the search, so that the fallback is taken. Three operations make a tensor with two
readers, a collective between two others, a message and its answer. Three iterations have a first, a
middle and a last one. The size of the largest runs (`autograd` has 3.3 million states) is what keeps these
bounds where they are.

Deadlock checking is off where a finished schedule, a refused program, a finished pipeline, a raised
exception or a returned result has nothing left to do.

### What the violations show

* **Overwriting a buffer in use** (`temporal.py:260`). Data edges go from every writer to every reader.
  In *all-reduce g into y asynchronously; compute g; wait* the later write of `g` gets an edge to the
  all-reduce that reads the old `g`, so the two are "ordered" and the race is not reported.
* **An activation of a partial tensor** (`solver.py:225`). `MatMul(x, w) -> y; ReLU(y) -> z; AllReduce(z)
  -> u` with `x` sharded by columns and `w` by rows is accepted: the rule of an activation function
  passes Partial through. The devices sum the ReLU of their parts. `EquivalentIfRulesHold` is what does
  hold: with rules that are true of the data, an accepted program computes what one device computes.
* **A dimension sharded twice** (`sharding.py:122`). If both dimensions of a mesh shard one dimension of
  a tensor, the second offset overwrites the first, and parts of the tensor are held by nobody. The local
  shape is divided by both.

### Other places where the code does less than it says

The properties name these cases as preconditions; without the precondition TLC finds the case.

* **`generate` may drop forward passes** (`schedules.py:124`). With at least two stages more than
  micro-batches the clock loop is too short: with P = 4 and M = 2 stage 3 never runs the forward pass of
  micro-batch 1, although its backward pass is scheduled (`FullIfFilled`). It also runs backward passes
  from stage 0 up, against the direction of the gradients, so it does not implement `PipelineTasks`.
* **Receive before send** (`temporal.py:509`). A `RecvAsync` on another stream that may run before its
  `SendAsync` is accepted; only one that must is reported.
* **Surplus receives** (`schedules.py:341`). Matching is on sets of pairs (`Balanced`).
* **Collectives without a mesh dimension** (`solver.py:278`). On a mesh of two dimensions `AllReduce`
  changes the placement of the partial dimensions and the solver takes it to change all of them, so an
  output that is still sharded on the other dimension is proved Replicate (`MeshNdim = 1` in
  `PlacementSoundness`).
* **Overwritten inputs** (`solver.py:1579`). The renaming knows only names that the program has written
  before, and is skipped if no operation is in place. In `SiLU(x) -> z; SiLU(w) -> x` the solver has one
  variable for both values of `x` and takes the placement of `z` from the second (`InputsKept`).
  The replay of `verify_communication_legality` (`solver.py:1270`) starts from the final placement of an
  input that an in-place operation overwrites: with `x` sharded by columns, `Transpose(x) -> x;
  AllGather(x, dim 1) -> y` is accepted by the frontend, although the `AllGather` reads a tensor that is
  sharded by rows (`WritesOnce` in `AcceptedIsSound`).
* **An operand that is read twice** (`solver.py:1434`). The replay of `verify_communication_legality` puts
  what an operation reads into a dictionary by name and applies the operation if the dictionary has as
  many entries as the operation has inputs. `Add(t, t)` never has (`ReadsApart`), so its result is taken
  from the final states, although "Uses pre-op tensor state (not final state)" (`solver.py:1284`). In
  `Add(x, x) -> y; AllReduce(y) -> y` with `x` partial the `AllReduce` is refused by the placement it
  leaves itself. In `Transpose(x) -> t; Add(t, t) -> y; AllGather(y, dim 1) -> z; SiLU(x) -> y` with `x`
  sharded by columns the `AllGather` is judged by the second `y`, and the program is accepted although
  `z` stays sharded by rows. `Replayable` excludes just this: no operation overwrites what an operation
  that reads a name twice has written; `verified_run` reaches the first program, the second needs a bound
  of four operations (and a menu of its own), which the proofs cover. A sum of a tensor with itself that is kept is fine, its final
  state is what it computed.
* **Slices** (`executor.py`). An operation without a slice rule leaves the slice of an older tensor of
  that name, also across `reset_devices`; a transposed tensor keeps its offsets unswapped; the sum of a
  replicated and a sharded tensor takes the offset of the first; an `AllReduce` of a tensor that stays
  sharded has offset 0. The slice check of the solver cannot fail alone (`exact`).
* **Strict mode** does not reach `TopKGate`, which skips silently; `Recv` raises in both modes.
* **Ring attention** names its buffers by the step, so two of them in one program share them. An
  expansion runs to its end before anything else, so `RingMeetsAll` holds for each of them all the same.
* **Shapes** (`solver.py:1824`). Names are not renamed at this level; `Transpose` is encoded as if it kept
  the shape; a tensor sharded twice is checked for one division at a time, so 6 rows on 2 x 2 devices
  pass and the executor raises; collectives without `mesh_dim` are taken to make the local shape global.
  `ShapesAsRun` excludes these, and what its proof found besides: a dimension of size zero, which the run
  accepts and the solver does not, and a name registered with two shapes on different devices, of which
  the solver keeps one (`InputsAlike`); the sum of two partial tensors, which the executor computes and
  `_encode_elementwise` rules out (`solver.py:223`), so that no solution is left (`Demanded`).
* **Synthesis** (`synthesis.py:10`, "Returning the optimal correct program"). A result need not run in
  strict mode: the search runs candidates in an executor that skips what it cannot execute, and an
  insertion may stand where its operand is read under the old name. The bound of the
  branch-and-bound is never lowered within a search, `max_tactics` is unused, and what the pattern
  synthesizer returns is discarded (`synthesis.py:520`).
* **The optimizer** (`rewrite.py:430`) goes by states of the first run. A product of a partial product is
  rewritten by states that the rewriting has changed, and the result raises (`IndependentProducts`). So does
  the result for `y = MatMul(x, w); s = Unary(y); r = AllReduce(s)`: the sum of `y` is inserted, because no
  AllReduce reads `y` itself, and the AllReduce of `s` then finds it whole. A `Scatter` changes a tensor
  where it is replicated, which an insertion makes it (`SumsOfProducts`).
* **Gradients.** The map is not cleared between two calls of `generate_backward` (`clean`); an operation that
  reads one name twice loses a contribution, because `vjp` returns a dictionary by name
  (`OperandsDiffer`); an in-place operation adds a gradient to itself (`WritesOnce`); two duals with one
  output name hide one another; "No missing/extra collectives" (`autograd.py:340`) is not enforced: one dual
  may serve for many, and extra ones are only warned of. The engine makes no dual for `Broadcast`,
  `Reduce`, `AllToAll`, `Scatter` and `Gather`, although the solver expects one.
  `LossScale.vjp` divides where it should multiply (`precision.py:104`); numbers are not modelled.
* **Frontend.** Without `tensor_states` all default tensors are 8 x 16 and a product of two of them raises,
  so such a program is never accepted; operations of an unknown type are dropped from the program;
  with `max_iterations = 0` the loop asks once and judges nothing.

Met while modelling and not turned into runs: the two sides of an `OverlapRegion` are one event and
races between them are not looked for, although its docstring says so (`async_ops.py:244`); `Transpose`
is encoded as if it kept the placement, so an `AllGather` of a transposed sharded tensor is always
refused; an in-place operation on a program input is mostly refused (its constraint is on one
variable); a tensor whose last use is an in-place operation is no output for `verify_all`, so nothing is
checked of it; `MatMul` of a tensor sharded by rows and one sharded by columns is encoded as Partial and
computed as sharded by columns, which is neither; the checker refuses every two-way pipeline, because one
send each way is a cycle of the wait-for graph (`tests/test_verifier.py:396` says so);
`peak_memory` (`schedules.py:262`) returns the current and not the peak number;
`max_activations_per_stage` is never enforced; the graph has no edge for the host's program order, so a
reader that follows its wait only in the program may be reported.

## Fairness

`ActivationTracker`, `Synthesis`, `FrontendLoop`: the code is a sequential program that keeps running, so
the next step is weakly fair. In `Synthesis` and `FrontendLoop` this is spelled out (the specification goes
on for ever only if it takes a step again and again or has ended), because evaluating `ENABLED` of a
search or a judgement is slow; it says the same as `WF_vars(Next)`. For the frontend it includes that the
language model answers or raises: the client has a timeout. `PipelineRun`: weak fairness of the search,
for the same reason, and of every stage, since a stage whose next entry is ready is a process nobody
blocks. The other modules have no liveness property and assume no fairness.

## Proofs

All theorems are proved by TLAPS for every value of the constants.

* **`PipelineSchedule_proofs`: generate_simple.** The inductive invariant `GenInv` says that the schedule contains
  exactly the tasks whose place in the loops (`Passed`) has been gone by, sorted by that place. It is
  needed because `FullSchedule` alone says nothing until the loops end. `Complete`: at the end every
  task is passed, since the largest `ClockOf` is below `TotalClocks`. `Refinement`: each append is
  `Pipeline!Run` of the emitted task; the tasks it needs come earlier in the order of the loops
  (`NeedsAreEarlier`), so they are passed, so they are in the schedule.
* **`PipelineSchedule_proofs`: the tracker.** `TrackerInv` adds that the sets of the walk are what it has handled.
  `Accepted` follows from sortedness; `Window` bounds the set held by an interval of micro-batches.
* **`PipelineSchedule_proofs`: generate.** A phase loop emits a task at the clock that the formulas of the
  code give it: `ClockIn` is that clock in closed form, `InWarmup` the forward passes that the warmup
  takes, `Gone` says that the loops have passed it. `Counts` computes the bounds, which the code has as a
  count and a maximum: stage s warms up with min(M, P - s) micro-batches and there are M + min(M, P)
  clocks. `FullInv`: the loop variables are in their ranges, a task whose place has gone by is in the
  schedule and no other is, no task is there twice, forward passes come first. An iteration appends what
  its place asks for and goes to the next place (`Iterated`), so it goes by what it appends and by
  nothing else (`GoesBy`). `Filled`: at the end every backward pass is there, and every forward pass if
  P <= M + 1; a larger pipeline has forward passes whose clock is beyond the last. `FullForwardFirst`
  is a conjunct of the invariant.
* **`TemporalSoundness_proofs`.** `IInv` ties the verdict to the run. In a well-formed program all
  edges go forward (`ForwardEdges`), so do paths, so there is no cycle (`Satisfiable`). A path of edges
  is enforced by the run: stream edges by stream order, wait edges by the wait, data edges by the
  missing-wait check or because the host has waited (`PathEnforced`). `Soundness` and `Quiescence`
  follow. Assumptions on the program, which the verifier does not check, are the four conjuncts of
  `WellFormed`: each is needed, and `temporal_race` shows a program without one of them.
* **`DeadlockChecker_proofs`.** `SearchInv` is the three-color invariant: gray nodes are the stack,
  each a neighbor of the one below; neighbors a node is done with are black or next on the stack; black
  nodes lead to black nodes only and contain no cycle. A graph has a cycle iff some non-empty set of
  nodes all have a neighbor in the set, which avoids paths. `SearchVerdict` follows. `RunInv` counts: a
  channel holds what was sent and not received. `DeadlockFreedom`: if no stage were ready, the
  unfinished stages would each wait for an unfinished stage (`BlockedOnUnfinished`), a cycle in the graph
  that the search would have reported.
* **`VerifiedRun_proofs`: the verdict.** `RunInv` says that what an operation read, what the replay has and
  what is left at the end is what the last writer computed (`LastWrite`), which `Execute` and
  `VerifyLegality` keep. Where the replay takes a final state, that is what the operation computed, because
  nothing overwrites it (`FinalIsComputed`, by `Replayable`). `Replay` follows since two last writers are
  one. `Renaming`: the number of
  definitions grows with each definition, so versions tell writes apart. For `PlacementSoundness` the
  loop over the operations carries `SolutionInv`: in every solution what is called Replicate was
  computed Replicate *or Partial*. The weaker claim is needed because `FlashAttention` with sharded keys
  is computed Partial and encoded like its query; the postcondition excludes Partial at the end.
  `RuleLemma` is the case analysis on operations, `ReadLemma` says that a read has the value of the write
  it is renamed after. Assumptions: one mesh dimension, inputs kept, no result overwritten that the replay
  takes from the final states (`Replayable`; `Renaming` needs neither this nor the first), operations with a `mesh_dim` of the
  mesh; programs without the first three are among the cases listed above.
* **`VerifiedRun_proofs`: the run.** `Equivalence` is what a verdict about placements is worth: every device ends
  with the outputs of the run on one device, for every menu, size of the matrices and data. The invariant
  `DataInv` says of every tensor that what the devices hold *is* its value, distributed by the placement
  that its last write computed (`Represents`). `VerifierDataInv` shows that the symbolic run leaves the
  placements of the inputs alone, `RunDataInv` that a step on the devices keeps the data right: what the
  operation reads is distributed by the placements it read when it was applied (`OperandsRight`, by
  `HistoryInv`), and there is one lemma for each operation (`MatMulRule`, `AddRule`, `MultiplyRule`,
  `UnaryRule`, `TransposeRule`, `CollectiveRule`). They rest on finite sums over the devices: a sum
  splits, factors and commutes with another (`SumPlus`, `SumTimes`, `SumSwap`), each by induction over
  the devices. The end is `OutputsReplicate` again. That a collective is legal (`LegalInv`) is needed: an
  `AllReduce` is right only of a Partial tensor; so `Replayable` is a hypothesis here too. Assumptions: one mesh dimension with at least one
  device, integer matrices, and dims 0 and 1 (`SizeAssumption`, `DataAssumption`, `DimsAssumption`); the
  placement rules used are true of the data (`RulesHold`), without which `verified_run_nonlinear` shows
  an accepted program with different results.
* **`Rewriting_proofs`: synthesis.** A result is the given program with sums inserted, but it is found by
  a search, and what decides is a run of the candidate. `Rewrites(p, e)` says what a candidate is: `e`
  places the given operations in `p`, in order, what stands between them are AllReduces of products
  into new names (`FreshName`), and what reads a sum reads it after it was computed. Every tactic and every
  insertion keeps that. So the names there are at each point of a run are known (`Tracks`,
  `AlwaysTracks`), and a name or its sum has the term it had (`SameTerms`). A run that is not strict may skip
  an insertion that stands before its product; `MeaningIsKept` shows that a program accepted by the analyzer
  and by its outputs (`Good`) computes every output of the given one, whole. `SynthesisInv` has a part for each phase.
  While a depth is searched, a good combination among those tried has left a valid candidate (`Tried`), and
  no smaller depth has a good one (`NoneSmaller`). None is left out: the next combination is the
  first in the order of `itertools.combinations` (`LexFirst`, `NextRemains`). All candidates of a level cost the
  same, two for each tactic (`CombinationCosts`), and the sort is stable, so the first valid one is in the
  beam however narrow it is (`BeamHasValid`), and a larger depth has nothing cheaper (`FirstIsCheapest`).
  While the optimizer runs, the program is an `Optimized` one: it `Rewrites` the given program, a sum
  comes after its product and is the only one to read it (`Tight`, `Ordered`), and what the given program
  reduces is still reduced (`ReadsSame`). In such a program the analyzer's answer is enough for the outputs to be
  whole (`TightIsGood`), which is what the fallback relies on. `OptimizerRemovesNothing`: nothing that is
  reduced is known to be whole (`NotRedundant`, `BaseNotRedundant`), because the given program ran and an AllReduce of
  a whole tensor raises. For `OptimizerIsRight` the two runs are compared: a tensor is what it was in the
  run of the given program, or replicated where it was partial (`Less`), and every rule of an operation
  keeps that (`NearOps`, `NearSums`, `OptimizedRuns`), so nothing raises. Hypotheses: names are written
  once and read after that, and names of sums are new (`WellFormed`); for the engine no collectives and no
  other partial tensors than products (`ComputeOnly`); for the optimizer `IndependentProducts` and
  `SumsOfProducts`, without which TLC finds results that raise. Assumptions: programs and inputs are as
  the classes construct them (`ProgramsAssumption`, `InputSpecsAssumption`), depth and beam are positive
  (`BoundsAssumption`).
* **`Rewriting_proofs`: frontend loop.** `Inv` says that an answer is judged once, that the number of answers is that of
  the iterations begun, and that a result is that of the last judged answer. `GoOnInv` is the step for a
  verdict that is no success, where the loop either reports or asks again. `LoopWastesNothing` follows for
  any answers, tensors and number of iterations; that the loop ends is model-checked.
  `AcceptedSoundness`: the loop returns only what `Judgement` found right (`JudgedRight`), and that is
  right. The checks see the final tensors and a replay from them; what has to be shown is that these tell
  of the run. The three loops over a program (parsing, the run, the replay) are tied to relations of their
  steps. `RunIs`: a run that has not raised has executed every operation. As each name is written
  once, a final tensor is the one its operation computed (`ResultIs`), so a partial product is seen as
  such; a tensor that the replay has is the one the run had at that point (`ReplayAgrees`): it starts from
  tensors no operation writes (`SeedIs`), applies the same rules (`SameRules`), and where it cannot, takes
  the final tensor, which is the one computed. So what is legal for the replay was legal in the run.
* **`Executor_proofs`.** `Agreement`: what the verifier and the frontend read off device 0 is true of every
  device. `AgreeInv` says that the devices have the same names with the same shapes, placements and
  inputs (`Uniform`) as long as all inputs were registered everywhere and no operation has told devices
  apart; one lemma for each handler shows that what it reads is alike on all devices, so that it raises,
  skips or writes on all of them or on none. Three operators are recursive functions (`WaitAll` over its
  pairs, the concatenation in the expansion of ring attention, the devices reached by a history). Each is
  tied to a relation of its steps (`WaitSteps`, `FlattenSteps`, `ReachSteps`), which is then used by
  induction over a set of naturals (`Induction`). `Locality`: `Local` adds to it that a device has
  only inputs of devices from which sends and rotations have led there. Each operation takes data one hop
  at most (`MovesByHops`); a rotation does because it reads all buffers before it writes one.
  `QuietAgreement` drops the hypothesis about the inputs: a run may lack them on some devices and be told
  nothing but its warnings. `QuietInv` says that as long as there is no warning and every operation
  executed is one that warns when it skips (`Loud`), tensors of one name are alike wherever they are
  (`Consistent`) and what the program wrote is everywhere (`WrittenEverywhere`); an operation without a
  warning has found its inputs on every device, so its result is alike and everywhere again. It starts
  from `AsRegistered`, and needs that a name that is registered twice is registered alike
  (`RegisteredAlike`), without which the devices differ from the beginning.
  `TypeCorrect`: what an operation stores is a tensor, because the operations whose inputs do not fit
  raise first (`InsTyped`); a message in flight carries a tensor.
  `RingAttentionMeetsAll`: `ExpansionAt` computes the expansion, 4n - 2 operations for a ring of n, from
  its recursive definition. `RingInv` adds to `QuietInv` where a ring attention stands: what is left of
  it is the head of the queue (`Timeline`), and after m of its operations (`Progress`) the buffers that
  these have written carry what they should (`Met`): in round s device d has the keys and values of the
  device s places back (`Back`), and its sum those of all rounds so far. One lemma for each place says
  what the operation there adds and that it writes no buffer that is still needed (`RotationAll`,
  `FirstMet`, `StepMet`, `SumMet`, `KeysMet`, `ValuesMet`, `LastMet`). At the end the sum carries n
  devices, that is all of them. The inputs must not be written by the program (`OwnUnlessWritten`).
  `ExactSlicesTile`: the slices called exact are those of the tensor's placements (`SlicesRight`), because
  each rule that counts as right (`RuleIsRight`) finds the offsets that the result's placements have
  (`RulesAreRight`); a reset keeps old slices but no tensor that they are about. That such slices tile the
  tensor is arithmetic: a device's coordinates are the digits of its place in the mesh, strides divide each
  other (`StrideDivides`), so moving along one dimension changes one digit (`DigitMoves`) and every
  combination of digits has as many places (`PlacesEqual`). If all devices are on the mesh, places and
  devices correspond (`HoldersArePlaces`, by counting); an element is held where the digits of the
  dimensions that shard the tensor are its quotients (`HeldAt`). A product over mesh dimensions is a fold
  over a set; `ProductTakes` shows that its order does not matter.
  `ShapesFollowRun` compares two programs that see the same operations: the run, which computes a shape
  and may raise, and the solver, which adds a constraint for each operation and asks for models.
  `SolverInv` says of the states that the comparison is about that device 0 has what the operations so far
  computed (`Tracked`): each wrote a name that was not there, so what it read and its result are still in
  the tensors at the end; and if the last operation raised, it raises for what is there now (`Failed`).
  This takes the agreement of the devices (`Uniform`): the comparison looks at device 0, the exception
  may be another's. On the other side `ViewsAreSolutions` goes through the constraints: after each
  operation that ran there is one solution, the run's (`View`), since the sizes are not empty
  (`WholeNotEmpty`) and the encoding has the operation's rule (`HasRule`). A last operation that raised
  leaves no solution or one whose result does not divide (`RaisedFails`). That the executor divides by the
  product of the mesh sizes and the solver by one at a time is the same where only one is above 1
  (`DividesEach`, `PartsInLine`).
  Assumptions: a mesh has positive sizes and as many device ids as devices, as `__post_init__` checks
  (`MeshesAssumption`), setups register matrices with placements
  (`SetupsAssumption`), the operations are as the classes construct them, regions not nested
  (`MenuAssumption`), and no program uses a name that `expand` makes, which begin with an underscore
  (`NamesAssumption`; without it a program could overwrite a buffer of the ring).
* **`Autograd_proofs`.** The four properties are about the moment of `generate_backward` and everything
  after it, since operations may be run and recorded while the gradients are there. `Books` says what the
  tape and the tensors have to do with the program, `Kept` that what was saved is still what the tensors
  are if names are written once. `Walking` is the invariant of the walk, when the entries after `i` up to
  `g` have been visited: each gradient is the sum over the paths to its tensor (`Summed`), it is placed
  like its tensor if nothing passes another placement on (`PlacedLike`), and the backward program has the
  duals of the entries with a gradient (`InReverse`). A path can pass an entry only once and goes back on
  the tape (`PathGoesBack`), because what an operation reads was written before it and once
  (`WrittenBefore`); so when entry `i` is visited the paths to its output are complete (`PathEnds`), and
  no entry visited earlier gets a gradient later. `WalkKeeps` is the induction over the tape. `GradsRight`
  carries the result of the walk from the tape as it was to the longer ones after it (`WalkingStays`):
  later operations write other names. `ChainRuleHolds`: the paths and the ways are the same, and a way is
  not longer than the tape since it goes down (`GoesDown`). `PlacedGradients` needs that a Cast places its
  result like its tensor (`CastKeeps`), which the run established. `DualsAreFound`: two duals with one
  output are duals of collectives that read one tensor. `SendsComeFirst`: the dual of the receive comes
  before that of its send, which is earlier on the tape. Assumptions: inputs are registered with placements
  (`InputsAssumption`), operations have the fields and operands of their classes (`MenuAssumption`).
* **`TensorOps_proofs`** has what several modules need of the operations: the kinds are apart, and the
  placement rules return placements.

Model-checked only: liveness (`WalkCompletes`, `RunsToEnd`, `Ends`, the ending in `EndsWithNoneWasted`),
which the prover does not reach. Every other property of a passing run is a theorem. Recursive functions
over a program (runs, terms, costs) are reasoned about through a relation of their steps and an induction
over a set of naturals, as there.

## Not modelled

* Tensors of more than two dimensions, `Reshape`, the text of symbolic expressions, numerical content
  (scales, amax histories, load balance): nothing the verdicts depend on, except that `Shard(2)` and
  `Shard(1)` are one value to the solver (`solver.py:174`).
* `verify_pp_deadlock_free` (`solver.py:1713`): it looks for a send for each receive and compares no order,
  although a comment says so; there is no behaviour to model beyond `Matched`.
* `spmd_checking` and `ir/spmd.py`; the lifter and the common IR; prompts, mock and network clients;
  summaries, statistics, demos and benchmarks.
* The solver's encoding of MoE, ZeRO and precision operations.


## Running

    tlc -config ActivationTracker.cfg ActivationTracker.tla
    tlc -config ScheduleFull.cfg ScheduleFull.tla
    tlc -config TemporalSoundness.cfg MCTemporalSoundness.tla     (TemporalRace.cfg)
    tlc -config PipelineRun.cfg MCPipelineRun.tla
    tlc -config VerifiedRun.cfg MCVerifiedRun.tla                 (VerifiedRunViolation.cfg)
    tlc -config Executor.cfg MCExecutor.tla                       (ExecutorSlices.cfg)
    tlc -config Synthesis.cfg MCSynthesis.tla
    tlc -config Autograd.cfg MCAutograd.tla
    tlc -config FrontendLoop.cfg MCFrontendLoop.tla
    tlapm PipelineSchedule_proofs.tla
    tlapm TemporalSoundness_proofs.tla
    tlapm DeadlockChecker_proofs.tla
    tlapm TensorOps_proofs.tla
    tlapm VerifiedRun_proofs.tla
    tlapm Executor_proofs.tla
    tlapm Autograd_proofs.tla
    tlapm Rewriting_proofs.tla
