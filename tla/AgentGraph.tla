----------------------------- MODULE AgentGraph -----------------------------
(***************************************************************************)
(* One conversation of the customer-service agent: the graph that          *)
(* AgentRuntime.run executes for every message of the user.  Each action   *)
(* is one node; After* are the routers between the nodes.  `conv' is what  *)
(* the checkpoint keeps between messages (and what a crash leaves behind), *)
(* `turn' the fields that load_context resets for each message.  What the  *)
(* user writes, what the language model proposes, the clock, and the       *)
(* outcome of every service the nodes call are chosen freely.              *)
(***************************************************************************)
EXTENDS AgentDecisions

CONSTANTS
    Messages,     \* the messages the user may send
    Answers,      \* the proposals the language model may return
    Faults,       \* what may fail: subset of FaultKinds
    MaxActions,   \* bound: action identifiers generated in one conversation
    MaxWrites     \* bound: business writes committed in one conversation

FaultKinds == {"memory", "llm", "policy", "retrieval", "tool", "lost_reply", "crash"}

ASSUME GraphAssumption ==
    /\ Messages \subseteq MessageSpace /\ Answers \subseteq Proposals
    /\ Faults \subseteq FaultKinds /\ {MaxActions, MaxWrites} \subseteq Nat \ {0}

VARIABLES
    node,         \* the node that runs next; "idle" between two messages
    conv,         \* the persisted state of the conversation
    turn,         \* the state of the current message
    fresh,        \* the next action identifier
    effects,      \* committed business writes with their receipts: [id, tool, order]
    reply         \* the reply to the last message, and what operators are shown of it

vars == <<node, conv, turn, fresh, effects, reply>>

ActionIds == 0..MaxActions + 1                  \* 0 is no identifier
ActionStatuses == {"PENDING", "CONFIRMED", "REJECTED", "EXPIRED", "EXECUTED", "FAILED"}
PendingActions == [id : ActionIds, tool : Tools \cup {None}, order : Orders \cup {None},
                   status : ActionStatuses \cup {None}]
NoPending == [id |-> 0, tool |-> None, order |-> None, status |-> None]
NoProposal == [intent |-> None, target |-> None, details |-> None, writes |-> FALSE]
NotSuspended == [saved |-> FALSE, action |-> NoPending, decision |-> NoProposal, missing |-> {}]
NoTurn == [message |-> [kind |-> None, order |-> None, doubts |-> FALSE],
           offered |-> NoPending, asked |-> FALSE, confirmation |-> None, proposal |-> NoProposal,
           interrupts |-> FALSE, interruption |-> None, compiled |-> None,
           tool |-> None, order |-> None, retrieval |-> FALSE, knowledge |-> FALSE,
           unavailable |-> FALSE, status |-> None, unknown |-> FALSE, replay |-> FALSE,
           wrote |-> FALSE,
           signal |-> None, memory |-> None, error |-> None, failure |-> None]
NewConversation == [pending |-> NoPending, actionId |-> 0, suspended |-> NotSuspended,
                    decision |-> NoProposal, missing |-> {}, active |-> FALSE,
                    said |-> {}, doubted |-> FALSE]

NoView == [write |-> None, tool |-> None]
NoReply == [says |-> None, about |-> [id |-> 0, tool |-> None, order |-> None], shown |-> NoView]

IsAction(a) == a.status # None
What(a) == [id |-> a.id, tool |-> a.tool, order |-> a.order]
IntentOf(tool) == CHOOSE i \in Mutations : Tool(i) = tool
WithStatus(a, status) == [a EXCEPT !.status = status]

\* The intent of the workflow under way: the action that waits, or the decision
\* whose missing fields were asked for.
WorkflowIntent == IF conv.pending.status = "PENDING" THEN IntentOf(conv.pending.tool)
                  ELSE conv.decision.intent

Init ==
    /\ node = "idle"
    /\ conv = NewConversation
    /\ turn = NoTurn
    /\ fresh = 1
    /\ effects = {}
    /\ reply = NoReply

Business == <<fresh, effects>>

\* AgentRuntime.run with a new message, and load_context.  The turn remembers what it
\* found waiting, and whether the last reply had asked about it.
Receive(m) ==
    /\ node = "idle" /\ fresh <= MaxActions /\ Cardinality(effects) < MaxWrites
    /\ node' = "security_boundary"
    /\ conv' = [conv EXCEPT !.said = @ \cup ({m.order} \ {None}), !.doubted = @ \/ m.doubts]
    /\ turn' = [NoTurn EXCEPT !.message = m, !.offered = conv.pending,
                              !.asked = reply.says = "confirm?" /\ reply.about = What(conv.pending)]
    /\ reply' = NoReply
    /\ UNCHANGED Business

-----------------------------------------------------------------------------
(* Before the request is understood.                                       *)

SecurityBlock ==
    /\ conv' = [conv EXCEPT !.pending = IF @.status = "PENDING" THEN WithStatus(@, "REJECTED") ELSE @,
                            !.suspended = NotSuspended, !.decision = NoProposal,
                            !.missing = {}, !.active = FALSE]
    /\ turn' = [turn EXCEPT !.signal = "override", !.error = "policy_denied",
                            !.confirmation = IF IsAction(conv.pending) THEN "rejected" ELSE "blocked"]

OwnershipBlock ==
    /\ conv' = [conv EXCEPT !.pending = NoPending, !.active = FALSE]
    /\ turn' = [turn EXCEPT !.signal = "foreign", !.error = "ownership", !.confirmation = "blocked"]

SecurityBoundary ==
    /\ node = "security_boundary"
    /\ CASE turn.message.kind = "override" -> SecurityBlock /\ node' = "respond"
         [] turn.message.kind = "foreign" -> OwnershipBlock /\ node' = "respond"
         [] OTHER -> UNCHANGED <<conv, turn>> /\ node' = "retrieve_memory"
    /\ UNCHANGED <<Business, reply>>

\* Memory is optional: the run goes on without it, with a failure category.
RetrieveMemory ==
    /\ node = "retrieve_memory"
    /\ \/ UNCHANGED turn
       \/ /\ "memory" \in Faults
          /\ \E failure \in {"memory_failure", "circuit_open"} :
                turn' = [turn EXCEPT !.failure = failure]
    /\ node' = "check_pending_action"
    /\ UNCHANGED <<conv, Business, reply>>

\* Mutant: any answer that is not a refusal confirms.
ConfirmationOfAny(m, expired) ==
    IF expired THEN "expired"
    ELSE IF Rejects(m) THEN "rejected"
    ELSE IF IsInterruption(m) THEN "inspect_interruption" ELSE "confirmed"

\* What a message does to an action that waits for confirmation.
ConfirmationOf(m, expired) ==
    IF expired THEN "expired"
    ELSE IF Confirms(m) THEN "confirmed"
    ELSE IF Rejects(m) THEN "rejected"
    ELSE IF IsInterruption(m) THEN "inspect_interruption" ELSE "ambiguous"

StatusAfter(confirmation) ==
    CASE confirmation = "expired" -> "EXPIRED"
      [] confirmation = "confirmed" -> "CONFIRMED"
      [] confirmation = "rejected" -> "REJECTED"
      [] OTHER -> "PENDING"

AfterPending(confirmation, active) ==
    CASE confirmation = "resume_suspended" -> "restore_suspended_workflow"
      [] confirmation = "inspect_interruption" -> "understand_request"
      [] confirmation = "confirmed" -> "restore_pending_action"
      [] confirmation = "normal" -> IF active THEN "resume_workflow" ELSE "understand_request"
      [] OTHER -> "respond"

\* No action waits: the message may resume a suspended workflow.
NothingPending(m) ==
    IF IsResumeRequest(m)
    THEN IF conv.suspended.saved THEN "resume_suspended" ELSE "resume_unavailable"
    ELSE IF Confirms(m) \/ Rejects(m) THEN "no_pending" ELSE "normal"

CheckPending ==
    /\ node = "check_pending_action"
    /\ LET m == turn.message
           action == conv.pending
           Found(confirmation, pending) ==
               /\ conv' = [conv EXCEPT !.pending = pending]
               /\ turn' = [turn EXCEPT !.confirmation = confirmation,
                               !.interrupts = confirmation = "inspect_interruption",
                               !.replay = action.status = "EXECUTED" /\ confirmation = "no_pending"]
               /\ node' = AfterPending(confirmation, conv.active)
       IN \/ ~IsAction(action) /\ Found(NothingPending(m), action)
          \/ /\ action.status = "PENDING"
             /\ \E expired \in BOOLEAN :
                   LET confirmation == ConfirmationOf(m, expired)
                   IN Found(confirmation, WithStatus(action, StatusAfter(confirmation)))
          \/ /\ IsAction(action) /\ action.status # "PENDING"
             /\ IF Confirms(m) THEN Found("no_pending", action) ELSE Found("normal", NoPending)
    /\ UNCHANGED <<Business, reply>>

\* A follow-up fills in the order or the reason that was asked for; "reason" takes
\* any message that is not a number.
FollowUps(p, missing, m, supported) ==
    LET named == "order_id" \in missing
        told == "reason" \in missing /\ m.kind # "number"
    IN [decision |-> [p EXCEPT !.target = IF named THEN m.order ELSE @,
                               !.details = IF told THEN supported ELSE @],
        missing |-> missing \ ((IF named THEN {"order_id"} ELSE {})
                               \cup (IF told THEN {"reason"} ELSE {}))]

ResumeWorkflow ==
    /\ node = "resume_workflow"
    /\ LET m == turn.message
       IN IF conv.decision = NoProposal \/ conv.missing = {}
          THEN /\ conv' = [conv EXCEPT !.decision = NoProposal, !.missing = {}, !.active = FALSE]
               /\ node' = "understand_request"
               /\ UNCHANGED turn
          ELSE IF "order_id" \in conv.missing /\ m.kind # "number"
          THEN /\ turn' = [turn EXCEPT !.interrupts = IsInterruption(m)]
               /\ node' = IF IsInterruption(m) THEN "understand_request" ELSE "respond"
               /\ UNCHANGED conv
          ELSE \E supported \in {"given", "invented"} :
               LET filled == FollowUps(conv.decision, conv.missing, m, supported)
               IN /\ conv' = [conv EXCEPT !.missing = filled.missing,
                                          !.active = filled.missing # {},
                                          !.decision = IF filled.missing # {} THEN filled.decision ELSE @]
                  /\ turn' = [turn EXCEPT !.proposal = filled.decision]
                  /\ node' = IF filled.missing # {} THEN "respond" ELSE "compile_decision"
    /\ UNCHANGED <<Business, reply>>

\* The proposal in the payload that was saved with an action.
Restored(action) == [intent |-> IntentOf(action.tool), target |-> action.order,
                     details |-> "given", writes |-> TRUE]

\* The confirmed action is compiled again from its saved payload.
RestorePending ==
    /\ node = "restore_pending_action"
    /\ turn' = [turn EXCEPT !.proposal = Restored(conv.pending),
                            !.tool = conv.pending.tool, !.order = conv.pending.order]
    /\ node' = "compile_decision"
    /\ UNCHANGED <<conv, Business, reply>>

RestoreSuspended ==
    /\ node = "restore_suspended_workflow"
    /\ LET saved == conv.suspended
           waits == IsAction(saved.action)
       IN /\ conv' = [conv EXCEPT !.pending = saved.action,
                                  !.actionId = IF waits THEN saved.action.id ELSE @,
                                  !.decision = saved.decision, !.missing = saved.missing,
                                  !.active = ~waits, !.suspended = NotSuspended]
          /\ turn' = [turn EXCEPT !.confirmation = IF waits THEN "resumed" ELSE None,
                                  !.interruption = "resumed",
                                  !.tool = saved.action.tool, !.order = saved.action.order]
    /\ node' = "respond"
    /\ UNCHANGED <<Business, reply>>

-----------------------------------------------------------------------------
(* Understanding: the model proposes, the compiler disposes.               *)

\* Three kinds of message are understood by rule, the rest by the model.
Understood(m) ==
    CASE m.kind = "instead" /\ IsAction(conv.pending) ->
             {[intent |-> Opposite(IntentOf(conv.pending.tool)), target |-> conv.pending.order,
               details |-> "invented", writes |-> TRUE]}
      [] m.kind = "memory_question" ->
             {[NoProposal EXCEPT !.intent = "memory_summary"]}
      [] m.kind = "conflict" -> {[NoProposal EXCEPT !.intent = "unknown"]}
      [] OTHER -> Answers

ByRule(m) == m.kind \in {"memory_question", "conflict"} \/ (m.kind = "instead" /\ IsAction(conv.pending))

AfterUnderstanding == IF turn.interrupts THEN "handle_workflow_interruption" ELSE "compile_decision"

\* The model cannot be reached, or what it returns is not a decision of the contract.
ProviderFails ==
    /\ "llm" \in Faults /\ ~ByRule(turn.message)
    /\ turn' = [turn EXCEPT !.error = "llm", !.failure = "llm"]

UnderstandRequest ==
    /\ node = "understand_request"
    /\ \/ \E p \in Understood(turn.message) :
             /\ turn' = [turn EXCEPT !.proposal = p]
             /\ node' = AfterUnderstanding
       \/ ProviderFails /\ node' = "respond"
    /\ UNCHANGED <<conv, Business, reply>>

Suspended == [saved |-> TRUE, action |-> conv.pending,
              decision |-> IF IsAction(conv.pending) THEN NoProposal ELSE conv.decision,
              missing |-> IF IsAction(conv.pending) THEN {} ELSE conv.missing]

\* Mutant: what interrupts an action takes its identifier.
InterruptedKeepingKey(saved) ==
    [conv EXCEPT !.pending = NoPending, !.decision = NoProposal, !.missing = {},
                 !.active = FALSE, !.suspended = saved]

\* Mutant: the action that is set aside also stays pending.
InterruptedKeepingAction(saved) ==
    [conv EXCEPT !.decision = NoProposal, !.missing = {}, !.active = FALSE, !.suspended = saved]

Interrupted(saved) ==
    [conv EXCEPT !.pending = NoPending, !.actionId = 0, !.decision = NoProposal,
                 !.missing = {}, !.active = FALSE, !.suspended = saved]

HandleInterruption ==
    /\ node = "handle_workflow_interruption"
    /\ IF turn.proposal.intent \in {"unknown", WorkflowIntent}
       THEN /\ turn' = [turn EXCEPT !.proposal = NoProposal, !.interruption = "continued",
                            !.confirmation = IF IsAction(conv.pending) THEN "ambiguous" ELSE None]
            /\ node' = "respond"
            /\ UNCHANGED conv
       ELSE LET superseded == Supersedes(turn.proposal)
            IN /\ conv' = Interrupted(IF superseded THEN NotSuspended ELSE Suspended)
               /\ turn' = [turn EXCEPT !.confirmation = "interrupted",
                               !.interruption = IF superseded THEN "superseded" ELSE "suspended"]
               /\ node' = "compile_decision"
    /\ UNCHANGED <<Business, reply>>

AfterSelection(compiled, intent) ==
    IF compiled.status \in {"clarify", "rejected"} THEN "respond"
    ELSE IF intent \in MemoryIntents THEN "memory_action"
    ELSE IF compiled.status = "no_action"
    THEN (IF compiled.retrieval THEN "retrieve_knowledge" ELSE "respond")
    ELSE "validate_tool"

\* compile_decision and select_tool_or_response.  A decision that asks for nothing is
\* kept by the code as well, but never read.
CompileDecision ==
    /\ node = "compile_decision"
    /\ LET p == turn.proposal
           compiled == CompileProposal(p, conv.said, conv.doubted)
           asks == compiled.status = "clarify" /\ compiled.missing # {}
       IN /\ conv' = [conv EXCEPT !.decision = IF asks THEN p ELSE NoProposal,
                                  !.missing = compiled.missing, !.active = asks]
          /\ turn' = [turn EXCEPT !.compiled = compiled.status, !.tool = compiled.tool,
                                  !.order = compiled.order, !.retrieval = compiled.retrieval,
                                  !.error = IF compiled.status = "rejected"
                                            THEN "invalid_arguments" ELSE None]
          /\ node' = AfterSelection(compiled, p.intent)
    /\ UNCHANGED <<Business, reply>>

-----------------------------------------------------------------------------
(* Validation, policy, confirmation and execution.                         *)

AfterValidation == IF turn.confirmation = "confirmed" THEN "policy_revalidation" ELSE "evaluate_policy"

\* The argument model of the tool may refuse free text it did not refuse before.
ValidateTool ==
    /\ node = "validate_tool"
    /\ \/ node' = AfterValidation /\ UNCHANGED turn
       \/ /\ turn.tool \in WriteTools /\ turn.confirmation # "confirmed"
          /\ turn' = [turn EXCEPT !.error = "invalid_arguments"]
          /\ node' = "respond"
    /\ UNCHANGED <<conv, Business, reply>>

AfterPolicy(outcome) ==
    CASE outcome = "allow" -> "execute_tool"
      [] outcome = "require_confirmation" -> "create_pending_action"
      [] OTHER -> "execute_human_escalation"

\* Any tool, a lookup too, takes the action identifier of the conversation or
\* generates one; later actions of the conversation take it again.
EvaluatePolicy ==
    /\ node = "evaluate_policy"
    /\ \/ /\ conv' = [conv EXCEPT !.actionId = IF @ = 0 THEN fresh ELSE @]
          /\ fresh' = IF conv.actionId = 0 THEN fresh + 1 ELSE fresh
          /\ node' = AfterPolicy(Policy(turn.tool))
          /\ UNCHANGED turn
       \/ /\ "policy" \in Faults
          /\ turn' = [turn EXCEPT !.error = "internal", !.failure = "policy_failure"]
          /\ node' = "respond"
          /\ UNCHANGED <<conv, fresh>>
    /\ UNCHANGED <<effects, reply>>

CreatePending ==
    /\ node = "create_pending_action"
    /\ conv' = [conv EXCEPT !.pending = [id |-> conv.actionId, tool |-> turn.tool,
                                         order |-> turn.order, status |-> "PENDING"]]
    /\ turn' = [turn EXCEPT !.status = "pending"]
    /\ node' = "respond"
    /\ UNCHANGED <<Business, reply>>

\* The order may have moved on since the action was offered.
Revalidate ==
    /\ node = "policy_revalidation"
    /\ \/ /\ conv.pending.status = "CONFIRMED"
          /\ turn' = [turn EXCEPT !.tool = conv.pending.tool, !.order = conv.pending.order]
          /\ node' = "execute_confirmed_action"
          /\ UNCHANGED conv
       \/ /\ \E error \in {"business", "policy_denied"} : turn' = [turn EXCEPT !.error = error]
          /\ conv' = [conv EXCEPT !.pending = IF IsAction(@) THEN WithStatus(@, "FAILED") ELSE @]
          /\ node' = "respond"
    /\ UNCHANGED <<Business, reply>>

Requested == [id |-> conv.actionId, tool |-> turn.tool, order |-> turn.order]
Receipts == {e \in effects : e.id = conv.actionId /\ e.tool = turn.tool}

\* Mutant: whatever was attempted counts as executed.
FinishedAnyway(done) ==
    conv' = [conv EXCEPT !.pending = IF IsAction(@) THEN WithStatus(@, "EXECUTED") ELSE @]

\* Both execution nodes settle the pending action, if there is one.
Finished(done) ==
    conv' = [conv EXCEPT !.pending =
                IF IsAction(@) THEN WithStatus(@, IF done THEN "EXECUTED" ELSE "FAILED") ELSE @]

\* A lookup; or a write without a receipt; or one that a receipt of the very same
\* arguments answers.
Succeed ==
    /\ \/ turn.tool \notin WriteTools /\ UNCHANGED effects
       \/ turn.tool \in WriteTools /\ Receipts \subseteq {Requested}
          /\ effects' = effects \cup {Requested}
    /\ turn' = [turn EXCEPT !.status = "executed", !.error = None, !.wrote = effects' # effects]

\* The business refuses, the identifier is that of another request, or the call
\* is refused or fails before its commit.
FailTool ==
    /\ \/ turn' = [turn EXCEPT !.status = "failed", !.error = "business"]
       \/ /\ Receipts # {} /\ (turn.tool = "cancel_order" => Receipts # {Requested})
          /\ turn' = [turn EXCEPT !.status = "failed", !.error = "duplicate"]
       \/ /\ "tool" \in Faults
          /\ turn' = [turn EXCEPT !.status = "failed", !.error = "dependency", !.failure = "tool"]
    /\ UNCHANGED effects

\* The reply of the commit is lost: nobody knows whether it was done.
LoseOutcome ==
    /\ "lost_reply" \in Faults /\ turn.tool \in WriteTools /\ Receipts \subseteq {Requested}
    /\ effects' \in {effects, effects \cup {Requested}}
    /\ turn' = [turn EXCEPT !.status = "failed", !.error = "unknown_write", !.failure = "tool",
                            !.unknown = TRUE, !.wrote = effects' # effects]

AfterExecution == IF turn.retrieval THEN "retrieve_knowledge" ELSE "respond"

Execute ==
    /\ node \in {"execute_tool", "execute_confirmed_action"}
    /\ \/ /\ Succeed /\ Finished(TRUE)
          /\ node' = IF node = "execute_tool" THEN AfterExecution ELSE "respond"
       \/ /\ FailTool \/ LoseOutcome
          /\ Finished(FALSE)
          /\ node' = "respond"
    /\ UNCHANGED <<fresh, reply>>

EscalateToHuman ==
    /\ node = "execute_human_escalation"
    /\ Succeed \/ FailTool \/ LoseOutcome
    /\ node' = "respond"
    /\ UNCHANGED <<conv, fresh, reply>>

\* The policy refuses secrets, instructions and claims of authority, and asks for the
\* user's word for what lasts.
MemoryOutcomes == {"allow", "reject", "require_explicit"}

Remember ==
    \E outcome \in MemoryOutcomes :
        turn' = IF outcome = "allow" THEN [turn EXCEPT !.memory = "persisted"]
                ELSE [turn EXCEPT !.memory = outcome, !.error = "policy_denied"]

\* Forgetting what is not there is no error.
Forget == turn' = [turn EXCEPT !.memory = "forgotten"]

MemoryAction ==
    /\ node = "memory_action"
    /\ \/ turn.proposal.intent = "memory_remember" /\ Remember
       \/ turn.proposal.intent = "memory_forget" /\ Forget
       \/ /\ "memory" \in Faults
          /\ turn' = [turn EXCEPT !.memory = "failed", !.error = "internal",
                                  !.failure = "memory_failure"]
    /\ node' = "respond"
    /\ UNCHANGED <<conv, Business, reply>>

RetrieveKnowledge ==
    /\ node = "retrieve_knowledge"
    /\ \/ turn' = [turn EXCEPT !.knowledge = TRUE]
       \/ /\ "retrieval" \in Faults
          /\ turn' = [turn EXCEPT !.knowledge = turn.status = "executed", !.unavailable = TRUE,
                          !.failure = "retrieval",
                          !.error = IF turn.status = "executed" THEN @ ELSE "retrieval"]
    /\ node' = "respond"
    /\ UNCHANGED <<conv, Business, reply>>

-----------------------------------------------------------------------------
(* The reply.                                                              *)

HasSuspendedMutation == IsAction(conv.suspended.action)

SaysOf(action) ==
    CASE action.status = "PENDING" -> "confirm?"
      [] action.status = "REJECTED" -> "not_executed"
      [] action.status = "EXPIRED" -> "expired"
      [] action.status = "EXECUTED" -> "done"
      [] action.status = "FAILED" -> "error"
      [] OTHER -> "unavailable"

\* respond: the first of its branches that applies.
Branches ==
    << <<turn.signal = "override", "refused">>,
       <<HasSuspendedMutation /\ (turn.error = "retrieval" \/ turn.unavailable), "saved">>,
       <<turn.unknown, "unknown">>,
       <<HasSuspendedMutation /\ ~turn.knowledge /\ turn.interruption = "suspended", "saved">>,
       <<turn.proposal.intent = "memory_summary" /\ turn.error = None, "memory">>,
       <<turn.knowledge /\ turn.error = None, IF HasSuspendedMutation THEN "saved" ELSE "answer">>,
       <<turn.failure # None /\ ~(turn.failure = "memory_failure" /\ turn.memory = None), "degraded">>,
       <<turn.memory \in {"persisted", "forgotten", "reject", "require_explicit"}, "memory">>,
       <<turn.error # None, "error">>,
       <<turn.confirmation = "no_pending",
         IF conv.pending.status = "EXECUTED" THEN "already_done" ELSE "nothing_pending">>,
       <<turn.confirmation = "resume_unavailable", "nothing_suspended">>,
       <<IsAction(conv.pending), SaysOf(conv.pending)>>,
       <<conv.active /\ conv.missing # {}, "ask_field">>,
       <<turn.tool \in WriteTools, "done">>,
       <<turn.tool # None, "found">>,
       <<TRUE, "clarify">> >>

FirstBranch == CHOOSE i \in DOMAIN Branches :
                   Branches[i][1] /\ \A j \in 1..i - 1 : ~Branches[j][1]

About(says) ==
    IF says = "saved" THEN What(conv.suspended.action)
    ELSE IF IsAction(conv.pending) THEN What(conv.pending)
    ELSE IF says = "done" THEN Requested
    ELSE What(NoPending)

\* Mutant: the status of the execution is looked at before the doubt.
WriteOutcomeByStatus ==
    IF turn.signal # None \/ turn.error = "ownership" THEN "not_attempted"
    ELSE IF turn.replay THEN "not_repeated"
    ELSE IF turn.tool \notin WriteTools THEN "not_applicable"
    ELSE IF turn.status \in {"executed", "failed"} THEN turn.status
    ELSE IF turn.unknown THEN "unknown"
    ELSE IF conv.pending.status = "PENDING" THEN "pending_confirmation"
    ELSE "not_attempted"

\* What the operators are shown of the write of a run ...
WriteOutcome ==
    IF turn.signal # None THEN "not_attempted"
    ELSE IF turn.replay THEN "not_repeated"
    ELSE IF turn.error = "ownership" THEN "not_attempted"
    ELSE IF turn.unknown THEN "unknown"
    ELSE IF turn.tool \notin WriteTools THEN "not_applicable"
    ELSE IF turn.status \in {"executed", "failed"} THEN turn.status
    ELSE IF conv.pending.status = "PENDING" THEN "pending_confirmation"
    ELSE IF conv.pending.status \in {"REJECTED", "EXPIRED"} THEN "blocked"
    ELSE "not_attempted"

\* ... and of its tool: an escalation is recorded under another node's name.
ToolStatus ==
    IF turn.tool = None THEN None
    ELSE IF turn.status = "executed" THEN "completed"
    ELSE IF turn.status = "failed" /\ turn.tool # "escalate_to_human" THEN "failed_during_execution"
    ELSE "blocked_before_execution"

View == [write |-> WriteOutcome, tool |-> ToolStatus]

Respond ==
    /\ node = "respond"
    /\ LET says == Branches[FirstBranch][2]
       IN reply' = [says |-> says, about |-> About(says), shown |-> View]
    /\ turn' = NoTurn
    /\ node' = "idle"
    /\ UNCHANGED <<conv, Business>>

\* The run raises, or its process dies, at some node: the checkpoint of the nodes
\* before it is kept.  A write may have been committed all the same.
Crash ==
    /\ "crash" \in Faults /\ node # "idle"
    /\ \/ UNCHANGED effects
       \/ /\ node \in {"execute_tool", "execute_confirmed_action", "execute_human_escalation"}
          /\ turn.tool \in WriteTools /\ Receipts \subseteq {Requested}
          /\ effects' = effects \cup {Requested}
    /\ reply' = [NoReply EXCEPT !.says = "exception"]
    /\ turn' = NoTurn
    /\ node' = "idle"
    /\ UNCHANGED <<conv, fresh>>

Node == \/ SecurityBoundary \/ RetrieveMemory \/ CheckPending \/ ResumeWorkflow
        \/ RestorePending \/ RestoreSuspended \/ UnderstandRequest \/ HandleInterruption
        \/ CompileDecision \/ ValidateTool \/ EvaluatePolicy \/ CreatePending \/ Revalidate
        \/ Execute \/ EscalateToHuman \/ MemoryAction \/ RetrieveKnowledge \/ Respond

Next == Node \/ Crash \/ \E m \in Messages : Receive(m)

Spec == Init /\ [][Next]_vars

\* graph.invoke runs node after node until the graph ends.
FairSpec == Spec /\ WF_vars(Node)

-----------------------------------------------------------------------------
(* Correctness.                                                            *)

\* Type invariant: the checkpointed fields, the pending and the suspended action of
\* AgentState hold what their types declare.
TypeOK ==
    /\ fresh \in 1..MaxActions + 1
    /\ effects \subseteq [id : ActionIds \ {0}, tool : WriteTools, order : Orders \cup {None}]
    /\ conv.pending \in PendingActions /\ conv.suspended.action \in PendingActions
    /\ conv.pending.tool \in ConfirmedTools \cup {None}
    /\ conv.actionId \in ActionIds /\ conv.said \subseteq Orders
    /\ conv.missing \subseteq Fields /\ conv.suspended.missing \subseteq Fields
    /\ reply.about.id \in ActionIds

\* Action property: a cancellation or a refund is only ever carried out, by whichever
\* node, in the turn whose message said yes to this very action, identifier, tool and
\* order, while it was waiting when the message arrived; interruptions, replacements,
\* resumption and crashes in between included.
OnlyConfirmedActionsRun ==
    [][\A e \in effects' \ effects : e.tool \in ConfirmedTools =>
           /\ turn.offered.status = "PENDING" /\ What(turn.offered) = e
           /\ Confirms(turn.message)]_vars

\* While an action waits or is confirmed, the idempotency key the next write will use is
\* its own: setting aside and resuming must put the key back, and the key of an action
\* that is set aside must not be taken by what interrupts it.
PendingOwnsTheKey ==
    /\ conv.pending.status \in {"PENDING", "CONFIRMED"} => conv.actionId = conv.pending.id
    /\ IsAction(conv.suspended.action) =>
           conv.suspended.action.id \notin {conv.actionId, conv.pending.id}

\* Between two messages the last reply is true of what was saved and written: it says
\* done only of a committed write, asks for a confirmation only of the action the next
\* "yes" will run, and denies an action only when none waits.
RepliesAreTrue ==
    node = "idle" =>
        /\ reply.says \in {"done", "already_done"} => reply.about \in effects
        /\ reply.says = "confirm?" =>
               conv.pending.status = "PENDING" /\ reply.about = What(conv.pending)
        /\ reply.says = "nothing_pending" => conv.pending.status # "PENDING"
        /\ reply.says = "not_executed" =>
               conv.pending.status = "REJECTED" /\ conv.pending.id = reply.about.id

\* Action property: what operators are shown of a run agrees with the database, whichever
\* path the run took: a write shown as executed is there, no other run than one shown as
\* executed or in doubt has written, and a tool shown as blocked has not (but for an
\* escalation, which is shown as blocked whenever it fails).
ViewIsTrue ==
    [][node = "respond" /\ node' = "idle" /\ reply'.says # "exception" =>
           /\ reply'.shown.write = "executed" => Requested \in effects
           /\ turn.wrote =>
                  /\ reply'.shown.write \in {"executed", "unknown"}
                  /\ \/ turn.tool = "escalate_to_human"
                     \/ reply'.shown.tool # "blocked_before_execution"]_vars

\* The conversation implements ActionLifecycle: no path of the graph confirms, runs or
\* revives an action except as that lifecycle allows.
Lifecycle == INSTANCE ActionLifecycle WITH
    Actions <- PendingActions, live <- conv.pending, aside <- conv.suspended.action,
    done <- {e \in effects : e.tool \in ConfirmedTools}
LifecycleSpec == Lifecycle!Spec

\* The writes of the conversation are those of IdempotentWrites, whatever interrupts the
\* turn: a write tool is asked for once per turn, by the node that executes it, and until
\* the reply the turn keeps what it was told about the very request it made.
Calling == {"execute_tool", "execute_confirmed_action", "execute_human_escalation"}
AsReceipt(e) == [op |-> e.tool, key |-> e.id, order |-> e.order]
Told ==
    LET as(kind) == [kind |-> kind, of |-> AsReceipt(Requested)]
    IN  IF turn.tool \notin WriteTools THEN [kind |-> "nothing"]
        ELSE IF node \in Calling THEN as("asked")
        ELSE IF turn.unknown THEN as("unknown")
        ELSE IF turn.status = "executed" THEN as("done")
        ELSE IF turn.status = "failed" THEN as("failed") ELSE [kind |-> "nothing"]
Writes == INSTANCE IdempotentWrites WITH
    Callers <- {"conversation"},
    Requests <- [op : WriteTools, key : ActionIds \ {0}, order : Orders \cup {None}],
    stored <- {AsReceipt(e) : e \in effects},
    outcome <- [c \in {"conversation"} |-> Told]
WriteSpec == Writes!Spec

\* An action that waits carries an idempotency key under which nothing else was written:
\* "the identity of this business action, used as the key of idempotent writes".
KeyIsFresh ==
    conv.pending.status = "PENDING" =>
        \A e \in effects : <<e.id, e.tool>> = <<conv.pending.id, conv.pending.tool>>
                               => e = What(conv.pending)

\* An action that needs a confirmation runs only after the user was asked about it.
ConsentIsInformed ==
    [][\A e \in effects' \ effects : e.tool \in ConfirmedTools =>
           turn.asked /\ What(turn.offered) = e]_vars
=============================================================================
