------------------------------ MODULE Workflow ------------------------------
(***************************************************************************)
(* The workflow runtime: the steps of a directed acyclic graph, one after   *)
(* the other.  A step's agent proposes from the messages of the steps it    *)
(* depends on, its grader grades the proposal, and an action that was       *)
(* proposed goes to the execution controller through the gateway.  A step   *)
(* that could not be graded halts everything that depends on it.            *)
(*                                                                         *)
(* The controller behind the gateway is the subject of HeldExecution; here  *)
(* it is its gate, with the outcome it returns.                             *)
(***************************************************************************)
EXTENDS Policy, FiniteSetsExt

CONSTANTS
    Steps,      \* 1..n: the step ids, in their sorting order
    Graphs,     \* functions from a step to the set of steps it depends on
    Graders     \* [by, tier]: the graders a step may have

ASSUME StepsAssumption ==
    IsFiniteSet(Steps) /\ Steps \subseteq Nat /\ Graphs \subseteq [Steps -> SUBSET Steps]

VARIABLE workflow   \* the run: the graph, the step it is at and what became of each

\* What is kept of a step; of one whose action was approved also the grade, the
\* class of the action and the policy, for the properties.
NoStep == [state |-> "todo", outcome |-> "none", approved |-> None]

\* Workflow.order: of the steps that are ready, the first by name.  A graph with
\* a cycle leaves some out.
Order(depends) ==
    LET prefix[n \in 0..Cardinality(Steps)] ==
            IF n = 0 THEN <<>>
            ELSE LET done  == ToSet(prefix[n - 1])
                     ready == {s \in Steps \ done : depends[s] \subseteq done}
                 IN  IF ready = {} THEN prefix[n - 1] ELSE Append(prefix[n - 1], Min(ready))
    IN  prefix[Cardinality(Steps)]

NoWorkflow == [pc |-> "off", policy |-> None, depends |-> [s \in Steps |-> {}], order |-> <<>>,
               steps |-> [s \in Steps |-> NoStep], grade |-> None, class |-> None,
               assessment |-> None]

WorkflowInit(deployed) ==
    workflow = [NoWorkflow EXCEPT !.pc = IF deployed THEN "ready" ELSE "off"]

\* Workflow(...) refuses a cycle; run goes through the order it found.
StartWorkflow ==
    /\ workflow.pc = "ready"
    /\ \E depends \in Graphs :
          workflow' = [workflow EXCEPT
              !.pc = IF Len(Order(depends)) < Cardinality(Steps) THEN "refused" ELSE "next",
              !.policy = selected, !.depends = depends, !.order = Order(depends)]
    /\ UNCHANGED selected

Current == Head(workflow.order)

AtStep == workflow.pc = "next" /\ workflow.order # <<>>

\* Mutant: only the step that could not be graded is put down as halted.
HaltedOnlyItself == {s \in Steps : workflow.steps[s].state = "unavailable"}

\* The steps whose branch could not be graded.
Halted == {s \in Steps : workflow.steps[s].state \in {"unavailable", "halted"}}

\* The step is left with a row for it.
Leave(state, outcome) ==
    [workflow EXCEPT
        !.pc = "next", !.order = Tail(@), !.grade = None, !.class = None, !.assessment = None,
        !.steps[Current] =
           [state |-> state, outcome |-> outcome,
            approved |-> IF outcome # "approve" THEN None
                         ELSE [grade |-> workflow.grade, class |-> workflow.class,
                               policy |-> selected]]]

\* AgentMessage.graded: the message of a step that was graded goes out with it.
SendMessage(outcome) == Leave("graded", outcome)

\* A step behind one that could not be graded does not propose.
HaltStep ==
    /\ AtStep
    /\ workflow.depends[Current] \cap Halted # {}
    /\ workflow' = Leave("halted", "unavailable")
    /\ UNCHANGED selected

WorkflowTrust == [v \in {} |-> TrustStats("soft")]    \* a store of its own, empty

\* The agent proposes, with or without an action, the grader grades and the bank
\* judges that one outcome.  No judgment: halted, and no message.
GradeStep ==
    /\ AtStep
    /\ workflow.depends[Current] \cap Halted = {}
    /\ \E g \in Graders, says \in Verdicts \cup Faults,
          class \in {None} \cup {ClassOf(kind) : kind \in {"python_code", "git_delete_branch"}} :
          LET evidence == Outcome(g.by, g.tier, says)
              judgment == Judge(WorkflowTrust, <<evidence>>).outcome
          IN  workflow' =
                CASE judgment.kind = "unavailable" -> Leave("unavailable", "unavailable")
                  [] judgment.kind # "unavailable" /\ class = None -> SendMessage("none")
                  [] OTHER -> [workflow EXCEPT !.pc = "assess", !.grade = evidence,
                                               !.class = class]
    /\ UNCHANGED selected

StepAction ==
    [class |-> workflow.class, artifact |-> Current,
     target |-> "sandbox://workflow", attempt |-> Current]

StepSnapshot == Resolve(workflow.policy, StepAction)

\* _assess_action: the grade is bound as workflow.grade, whatever it was that the
\* policy requires.  Without a snapshot there is no assessment, and no action.
AssessStep ==
    LET grade      == workflow.grade
        assessment == Assess(WorkflowTrust, StepSnapshot,
                             <<Bound("workflow.grade", StepSnapshot, grade.by, grade)>>)
    IN  /\ workflow.pc = "assess"
        /\ workflow' =
              CASE StepSnapshot = None -> SendMessage("unavailable")
                [] StepSnapshot # None /\ assessment = None -> [workflow EXCEPT !.pc = "raised"]
                [] OTHER -> [workflow EXCEPT !.pc = "submit", !.assessment = assessment]
        /\ UNCHANGED selected

\* route_action, with the risk class the agent gave the action: the controller's
\* gate decides, and the message goes out whatever the verdict was.
SubmitStep ==
    /\ workflow.pc = "submit"
    /\ \E risk \in {"low", "medium", "high"} :
          LET decision == Decide([routeHighRisk |-> TRUE], workflow.assessment, StepAction, risk)
          IN  workflow' =
                IF decision.outcome = "raised" THEN [workflow EXCEPT !.pc = "raised"]
                ELSE SendMessage(decision.outcome)
    /\ UNCHANGED selected

WorkflowNext == StartWorkflow \/ HaltStep \/ GradeStep \/ AssessStep \/ SubmitStep
=============================================================================
