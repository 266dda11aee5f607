----------------------------- MODULE FrontendLoop -----------------------------
(***************************************************************************)
(* LLMVerificationLoop.verify_code (verifier/llm_frontend.py): a language  *)
(* model is asked for the program that some PyTorch code stands for, its   *)
(* answer is parsed, run and checked, and the errors are given back to it, *)
(* until an answer is right or max_iterations of them have been judged.    *)
(*                                                                         *)
(* The model may answer anything, or raise an exception (a timeout).  An   *)
(* answer is a record: json, whether there is JSON in it, fwd_ops and      *)
(* bwd_ops, sequences of functions from keys to values, and sharding.      *)
(* Their types are those of TensorOps, and others; Send, Recv and Reshape  *)
(* are left out.  A tensor is its shape and its placements, the same on all*)
(* devices.                                                                *)
(***************************************************************************)
EXTENDS DeviceMesh, Rewriting

CONSTANTS mesh,           \* the device mesh
          DefaultOutput,  \* the output's name, by type and inputs, if none is given
          Answers,        \* what the language model may answer
          TensorStates,   \* the tensor_states the caller may pass, << >> for None
          MaxIterations   \* max_iterations

ASSUME MaxIterationsAssumption == MaxIterations \in Nat

VARIABLES tensor_states, \* the argument
          response,      \* the last answer
          judgement,     \* what the loop found it to be
          iteration,     \* the loop variable
          errors,        \* errors_list: <<what, the number of the answer>>
          answers,       \* Len(call_history)
          caught,        \* the feedback is asked for where an exception is caught
          pc,            \* "extract", "judge", "judged", "ask", "done", "raised"
          result         \* LLMVerifyResult, once there is one

vars == <<tensor_states, response, judgement, iteration, errors, answers, caught, pc, result>>

NoProgram == NoDim   \* None
NoResult  == [success |-> FALSE, iterations |-> 0, final_program |-> NoProgram]

Init == /\ tensor_states \in TensorStates
        /\ response = NoProgram /\ judgement = "none" /\ iteration = 0 /\ errors = << >> /\ answers = 0
        /\ caught = FALSE /\ pc = "extract" /\ result = NoResult

-----------------------------------------------------------------------------
(***************************************************************************)
(* parse_op_dict and to_program: an operation of an unknown type is left   *)
(* out of the program, one that lacks an input raises an exception.        *)
(***************************************************************************)
InputKeys(d) == CASE d["type"] \in {"MatMul", "Add", "Multiply"} -> <<"a", "b">>
                  [] d["type"] = "FlashAttention" -> <<"q", "k", "v">>
                  [] d["type"] \in {"SiLU", "AllReduce", "AllGather", "ReduceScatter",
                                     "Transpose"} -> <<"x">>

KnownTypes == {"MatMul", "Add", "Multiply", "SiLU", "AllReduce", "AllGather", "ReduceScatter",
               "FlashAttention", "Transpose"}

Optional(d, key, default) == IF key \in DOMAIN d THEN d[key] ELSE default

\* Those of an attention have defaults.
Lacking(d) == d["type"] \in KnownTypes \ {"FlashAttention"} /\ ~(ToSet(InputKeys(d)) \subseteq DOMAIN d)

ParseOp(d) ==
  LET keys == InputKeys(d)
      ins  == [k \in DOMAIN keys |-> Optional(d, keys[k], keys[k])]
      kind == d["type"]
  IN  [kind |-> IF kind = "SiLU" THEN "Unary" ELSE kind,
       ins  |-> ins,
       out  |-> IF "output" \in DOMAIN d THEN d["output"]
                ELSE IF kind = "FlashAttention" THEN "o" ELSE DefaultOutput[<<kind, ins>>],
       dim  |-> IF kind = "AllGather" THEN Optional(d, "gather_dim", 0)
                ELSE IF kind = "ReduceScatter" THEN Optional(d, "scatter_dim", 0) ELSE 0,
       concat_dim |-> 0, mesh_dim |-> NoDim]

ToProgramRaises(ds) == \E i \in DOMAIN ds : Lacking(ds[i])

\* The program, and what it is when the entry d has been added to it.
Parsed(program, d) == IF d["type"] \in KnownTypes THEN Append(program, ParseOp(d)) ELSE program

ToProgram(ds) ==
  LET parsed[i \in 0 .. Len(ds)] == IF i = 0 THEN << >> ELSE Parsed(parsed[i - 1], ds[i])
  IN  parsed[Len(ds)]

Parses(a) == a.json /\ ~ToProgramRaises(a.fwd_ops)
Fwd(a)    == ToProgram(a.fwd_ops)

-----------------------------------------------------------------------------
(***************************************************************************)
(* What the loop thinks of an answer.                                      *)
(***************************************************************************)
\* _register_default_tensors: all tensors have the same shape.
DefaultTensors(a) == [n \in DOMAIN a.sharding |-> [shape |-> Rows(8, 16), pl |-> a.sharding[n]]]

Registered(a, given) == IF given = << >> THEN DefaultTensors(a) ELSE given

\* run_program with strict=True: r.read holds the placements each operation
\* has read so far.
RunStrictly(r, o) ==
  LET ins == [k \in DOMAIN o.ins |-> r.tensors[o.ins[k]]]
      pls == [k \in DOMAIN o.ins |-> ins[k].pl]
  IN  IF r.raised THEN r
      ELSE IF \/ ~(ToSet(o.ins) \subseteq DOMAIN r.tensors)
              \/ ShapesClash(o, ins) \/ Raises(o, pls)
              \/ ~Divides(mesh, OutShape(o, ins), Apply(o, pls))
      THEN [r EXCEPT !.raised = TRUE]
      ELSE [r EXCEPT !.tensors = [n \in DOMAIN @ \cup {o.out} |->
                                    IF n # o.out THEN @[n]
                                    ELSE [shape |-> OutShape(o, ins), pl |-> Apply(o, pls)]],
                     !.read = Append(@, pls)]

Started(tensors) == [tensors |-> tensors, raised |-> FALSE, read |-> << >>]

StrictRun(p, tensors) ==
  LET run[i \in 0 .. Len(p)] == IF i = 0 THEN Started(tensors) ELSE RunStrictly(run[i - 1], p[i])
  IN  run[Len(p)]

Executed(a, given) == StrictRun(Fwd(a), Registered(a, given))

PlacedIn(r) == [n \in DOMAIN r.tensors |-> r.tensors[n].pl]

\* verify_communication_legality, on a program, the final states and the live.
Check(p, states, live) ==
  INSTANCE DistributedVerifier
    WITH ops <- p, tensors <- states, live <- live, history <- << >>, phase <- "walk",
         results <- << >>, walked <- 0, Menu <- {}, Inputs <- {}, MaxOps <- 0

Seed(p, states) == Restrict(states, DOMAIN states \ Check(p, states, << >>)!ProducedByOther)

LegallyUsed(p, states) ==
  LET replay[i \in 0 .. Len(p)] == IF i = 0 THEN Seed(p, states)
                                   ELSE Check(p, states, replay[i - 1])!Replayed(p[i])
  IN  \A i \in 1 .. Len(p) : Check(p, states, replay[i - 1])!Legal(p[i])

\* Faulty: an answer that has been analyzed is not checked for legality.
JudgementAnalyzed(a, given) ==
  LET r == Executed(a, given)
  IN  IF ~Parses(a) THEN "unparsed"
      ELSE IF r.raised THEN "raises"
      ELSE IF Fwd(a) = << >> THEN "empty"
      ELSE IF ~AnalyzedCorrect(Fwd(a), PlacedIn(r)) THEN "incorrect"
      ELSE IF ToProgramRaises(a.bwd_ops) THEN "raises"
      ELSE "right"

Judgement(a, given) ==
  LET r == Executed(a, given)
  IN  IF ~Parses(a) THEN "unparsed"
      ELSE IF r.raised THEN "raises"
      ELSE IF Fwd(a) = << >> THEN "empty"
      ELSE IF ~AnalyzedCorrect(Fwd(a), PlacedIn(r)) THEN "incorrect"
      ELSE IF ~LegallyUsed(Fwd(a), PlacedIn(r)) THEN "illegal"
      ELSE IF ToProgramRaises(a.bwd_ops) THEN "raises"
      ELSE "right"

-----------------------------------------------------------------------------
LastIteration == iteration >= MaxIterations - 1

\* fwd_ops is a list, and None is no program.
ASSUME AnswersAssumption ==
  \A a \in Answers : /\ a.json => Len(a.fwd_ops) \in Nat
                     /\ Parses(a) => Fwd(a) # NoProgram

Failed(iterations, program) ==
  [success |-> FALSE, iterations |-> iterations, final_program |-> program]

\* The first question.  If there is no iteration the answer is not looked at.
Extract ==
  /\ pc = "extract"
  /\ response' \in Answers /\ answers' = 1
  /\ pc' = IF MaxIterations = 0 THEN "done" ELSE "judge"
  /\ UNCHANGED <<tensor_states, judgement, iteration, errors, caught, result>>

\* The answer is parsed, run, analyzed and checked.
Judge ==
  /\ pc = "judge"
  /\ judgement' = Judgement(response, tensor_states)
  /\ pc' = "judged"
  /\ UNCHANGED <<tensor_states, response, iteration, errors, answers, caught, result>>

\* Faulty: feedback is asked for after the last iteration, too.
GoOnAlways(program) ==
  /\ result' = IF LastIteration THEN Failed(iteration + 1, program) ELSE result
  /\ pc' = IF iteration >= MaxIterations THEN "done" ELSE "ask"

\* Another iteration, or the end.
GoOn(program) ==
  /\ result' = IF LastIteration THEN Failed(iteration + 1, program) ELSE result
  /\ pc' = IF LastIteration THEN "done" ELSE "ask"

ParseFails ==
  /\ pc = "judged" /\ judgement = "unparsed"
  /\ errors' = Append(errors, <<"unparsed", answers>>)
  /\ caught' = FALSE
  /\ GoOn(NoProgram)
  /\ UNCHANGED <<tensor_states, response, judgement, iteration, answers>>

ExecutionFails ==
  /\ pc = "judged" /\ judgement = "raises"
  /\ errors' = Append(errors, <<"raises", answers>>)
  /\ caught' = FALSE
  /\ GoOn(Fwd(response))
  /\ UNCHANGED <<tensor_states, response, judgement, iteration, answers>>

\* The errors of a program that is empty, lacks a collective, has one too many
\* or an illegal one replace all earlier errors.
Rejected ==
  /\ pc = "judged" /\ judgement \in {"empty", "incorrect", "illegal"}
  /\ errors' = <<<<judgement, answers>>>>
  /\ caught' = TRUE
  /\ GoOn(Fwd(response))
  /\ UNCHANGED <<tensor_states, response, judgement, iteration, answers>>

Accepted ==
  /\ pc = "judged" /\ judgement = "right"
  /\ result' = [success |-> TRUE, iterations |-> iteration + 1, final_program |-> Fwd(response)]
  /\ pc' = "done"
  /\ UNCHANGED <<tensor_states, response, judgement, iteration, errors, answers, caught>>

\* The feedback prompt is answered.
Feedback ==
  /\ pc = "ask"
  /\ response' \in Answers /\ answers' = answers + 1
  /\ iteration' = iteration + 1
  /\ pc' = "judge"
  /\ UNCHANGED <<tensor_states, judgement, errors, caught, result>>

\* The model raises an exception, which verify_code passes on; but after a
\* rejection it is taken for an execution error and the model asked once more.
ModelRaises ==
  \/ /\ pc = "extract" \/ (pc = "ask" /\ ~caught)
     /\ pc' = "raised"
     /\ UNCHANGED <<errors, caught>>
  \/ /\ pc = "ask" /\ caught
     /\ errors' = Append(errors, <<"raises", answers>>)
     /\ caught' = FALSE
     /\ UNCHANGED pc

Next == \/ Extract
        \/ Judge
        \/ ParseFails
        \/ ExecutionFails
        \/ Rejected
        \/ Accepted
        \/ Feedback
        \/ ModelRaises /\ UNCHANGED <<tensor_states, response, judgement, iteration, answers, result>>

Ended == pc \in {"done", "raised"}

\* The loop is sequential, and the model answers or raises an exception: there
\* is a next step until the loop has ended.
Fairness == []<>Ended \/ []<><<Next>>_vars

Spec == Init /\ [][Next]_vars /\ Fairness

-----------------------------------------------------------------------------
FrontendTypeOK ==
  /\ iteration \in Nat /\ answers \in Nat /\ caught \in BOOLEAN
  /\ pc \in {"extract", "judge", "judged", "ask", "done", "raised"}

WritesOnce(p) == /\ \A i, j \in DOMAIN p : p[i].out = p[j].out => i = j
                 /\ \A i \in DOMAIN p : p[i].out \notin ToSet(p[i].ins)

\* What an operation read in the run of the accepted program.
Read(i) == Executed(response, tensor_states).read[i]

(***************************************************************************)
(* The checks look at the final tensors and at a replay from them.  Still, *)
(* of an accepted program is true what was true in its run: every          *)
(* AllReduce read a partial tensor, every AllGather one that is sharded and*)
(* every ReduceScatter one that is not, in its dimension, and each partial *)
(* product is reduced later; if every name is written once, and not by an  *)
(* operation that reads it.                                                *)
(***************************************************************************)
AcceptedIsSound ==
  result.success /\ WritesOnce(Fwd(response)) =>
    LET p == Fwd(response)
    IN  /\ result.final_program = p /\ p # << >>
        /\ \A i \in DOMAIN p :
             LET x == Read(i)[1]
             IN  /\ p[i].kind = "AllReduce" => IsPartial(x)
                 /\ p[i].kind = "AllGather" => ShardedOn(x, p[i].dim)
                 /\ p[i].kind = "ReduceScatter" => ~ShardedOn(x, p[i].dim)
                 /\ p[i].kind = "MatMul" /\ IsPartial(Apply(p[i], Read(i))) =>
                      \E j \in DOMAIN p : j > i /\ p[j].kind = "AllReduce" /\ p[j].ins[1] = p[i].out

\* The model is not asked once more than it has to be, and no answer is lost:
\* when the loop has ended it has judged as many answers as it was given, and at
\* most max_iterations; it has a program if and only if it was successful or the
\* last answer could be parsed.
NoneWasted ==
  /\ MaxIterations > 0 => answers <= MaxIterations
  /\ pc = "done" /\ MaxIterations > 0 =>
       /\ result.iterations = answers
       /\ result.success <=> judgement = "right"
       /\ result.final_program = NoProgram <=> judgement = "unparsed"

(***************************************************************************)
(* The loop ends, whatever the model answers and however often it raises   *)
(* an exception, and none of its answers was wasted.                       *)
(***************************************************************************)
EndsWithNoneWasted == <>(Ended /\ NoneWasted)
=============================================================================
