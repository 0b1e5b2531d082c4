-------------------------- MODULE AgentReplies_proofs --------------------------
(***************************************************************************)
(* What the user is told and what operators are shown of a run agrees with *)
(* what was saved and written, for any orders, messages, proposals, faults *)
(* and bounds.                                                             *)
(***************************************************************************)
EXTENDS AgentGraph_proofs, WellFoundedInduction

\* What the fields of the current message are worth at each node.
OutcomeInv ==
    /\ node # "respond" => turn.signal = None /\ turn.replay = FALSE /\ turn.error # "ownership"
    /\ node \notin {"respond", "retrieve_knowledge"} =>
           turn.status = None /\ turn.unknown = FALSE /\ turn.wrote = FALSE
    /\ turn.status = "executed" /\ turn.tool \in WriteTools => Requested \in effects
    /\ turn.wrote # FALSE =>
           /\ turn.tool \in WriteTools /\ turn.signal = None /\ turn.replay = FALSE
           /\ turn.error # "ownership"
           /\ \/ turn.unknown = TRUE /\ turn.status = "failed"
              \/ turn.unknown = FALSE /\ turn.status = "executed"

\* A write tool that is named at the end of a run was called, or failed, or waits.
ToolInv ==
    /\ node \in {"security_boundary", "retrieve_memory", "check_pending_action",
                 "resume_workflow", "restore_suspended_workflow", "restore_pending_action",
                 "understand_request", "handle_workflow_interruption"} => turn.tool = None
    /\ node \in {"respond", "retrieve_knowledge", "memory_action"} /\ turn.tool \in WriteTools =>
           turn.status = "executed" \/ turn.error # None \/ IsAction(conv.pending)

\* An action saved as executed is written, and "no_pending" is said when nothing waits.
SavedInv ==
    /\ conv.pending.status = "EXECUTED" => What(conv.pending) \in effects
    /\ turn.confirmation = "no_pending" => node = "respond" /\ conv.pending.status # "PENDING"

AgreeInv == OutcomeInv /\ ToolInv /\ SavedInv

-----------------------------------------------------------------------------
(* Each node preserves the agreement.                                      *)

LEMMA NoTurnAgrees ==
    /\ NoTurn.signal = None /\ NoTurn.replay = FALSE /\ NoTurn.error = None
    /\ NoTurn.status = None /\ NoTurn.unknown = FALSE /\ NoTurn.wrote = FALSE
    /\ NoTurn.tool = None /\ NoTurn.confirmation = None /\ None \notin WriteTools
  BY DEF NoTurn, None, WriteTools, ConfirmedTools

LEMMA InitAgrees == Init => AgreeInv
<1> SUFFICES ASSUME Init PROVE AgreeInv
  OBVIOUS
<1>1. node = "idle" /\ turn = NoTurn /\ conv.pending = NoPending
  BY DEF Init, NewConversation
<1> QED
  BY <1>1, NoTurnAgrees, NothingSound DEF AgreeInv, OutcomeInv, ToolInv, SavedInv, None

\* A step that commits nothing and keeps what was called, before the reply: only the
\* failure, the error and the parts of the turn that say nothing of a write change.
LEMMA QuietAgrees ==
    ASSUME Inv, AgreeInv, UNCHANGED <<conv, effects>>,
           node' \notin {"respond", "retrieve_knowledge", "memory_action", "idle"},
           node \notin {"respond", "retrieve_knowledge", "idle"},
           \A f \in {"signal", "replay", "error", "status", "unknown", "wrote"} : turn'[f] = turn[f],
           turn'.confirmation # "no_pending",
           turn'.tool = None \/ node' \in {"compile_decision", "validate_tool", "evaluate_policy",
               "create_pending_action", "policy_revalidation", "execute_tool",
               "execute_confirmed_action", "execute_human_escalation"}
    PROVE  AgreeInv'
  BY DEF AgreeInv, OutcomeInv, ToolInv, SavedInv, None

LEMMA ReceiveAgrees ==
    ASSUME Inv, AgreeInv, NEW m \in Messages, Receive(m)
    PROVE  AgreeInv'
<1>1. /\ node = "idle" /\ node' = "security_boundary" /\ UNCHANGED effects
      /\ conv'.pending = conv.pending
  BY DEF Receive, Business, Inv, ShapeInv, ConvFields
<1>2. \A f \in TurnFields \ {"message", "offered", "asked"} : turn'[f] = NoTurn[f]
  BY DEF Receive, NoTurn, TurnFields
<1>3. /\ turn'.signal = None /\ turn'.replay = FALSE /\ turn'.error = None
      /\ turn'.status = None /\ turn'.unknown = FALSE /\ turn'.wrote = FALSE
      /\ turn'.tool = None /\ turn'.confirmation = None
  BY <1>2, NoTurnAgrees DEF TurnFields
<1> QED
  BY <1>1, <1>3 DEF AgreeInv, OutcomeInv, ToolInv, SavedInv, None

LEMMA SecurityAgrees ==
    ASSUME Inv, AgreeInv, SecurityBoundary
    PROVE  AgreeInv'
<1> node = "security_boundary" /\ UNCHANGED <<effects, reply>>
  BY DEF SecurityBoundary, Business
<1>1. CASE turn.message.kind = "override"
  <2>1. SecurityBlock /\ node' = "respond"
    BY <1>1 DEF SecurityBoundary
  <2>2. /\ conv'.pending = IF conv.pending.status = "PENDING" THEN WithStatus(conv.pending, "REJECTED") ELSE conv.pending
        /\ turn'.tool = turn.tool /\ turn'.status = turn.status /\ turn'.wrote = turn.wrote
        /\ turn'.confirmation \in {"rejected", "blocked"}
    BY <2>1 DEF SecurityBlock, Inv, ShapeInv, ConvFields, TurnFields
  <2>3. conv'.pending.status = "EXECUTED" => conv'.pending = conv.pending
    BY <2>2, StatusChanged DEF Inv, ShapeInv, IsAction, ActionStatuses, None
  <2> QED
    BY <2>1, <2>2, <2>3, NoTurnAgrees DEF AgreeInv, OutcomeInv, ToolInv, SavedInv, None
<1>2. CASE turn.message.kind = "foreign"
  <2>1. OwnershipBlock /\ node' = "respond"
    BY <1>2 DEF SecurityBoundary
  <2>2. /\ conv'.pending = NoPending /\ turn'.confirmation = "blocked"
        /\ turn'.tool = turn.tool /\ turn'.status = turn.status /\ turn'.wrote = turn.wrote
    BY <2>1 DEF OwnershipBlock, Inv, ShapeInv, ConvFields, TurnFields
  <2> QED
    BY <2>1, <2>2, NothingSound, NoTurnAgrees DEF AgreeInv, OutcomeInv, ToolInv, SavedInv, None
<1>3. CASE turn.message.kind \notin {"override", "foreign"}
  <2>1. UNCHANGED <<conv, turn>> /\ node' = "retrieve_memory"
    BY <1>3 DEF SecurityBoundary
  <2> QED
    BY <2>1, QuietAgrees DEF AgreeInv, SavedInv, ToolInv
<1> QED
  BY <1>1, <1>2, <1>3

LEMMA MemoryAgrees ==
    ASSUME Inv, AgreeInv, RetrieveMemory
    PROVE  AgreeInv'
<1>1. /\ node = "retrieve_memory" /\ node' = "check_pending_action" /\ UNCHANGED <<conv, effects>>
      /\ \A f \in TurnFields \ {"failure"} : turn'[f] = turn[f]
  BY DEF RetrieveMemory, Business, Inv, ShapeInv, TurnFields
<1>2. /\ \A f \in {"signal", "replay", "error", "status", "unknown", "wrote"} : turn'[f] = turn[f]
      /\ turn'.confirmation = turn.confirmation /\ turn'.tool = turn.tool
  BY <1>1 DEF TurnFields
<1> QED
  BY <1>1, <1>2, QuietAgrees DEF AgreeInv, SavedInv, ToolInv

LEMMA CheckAgrees ==
    ASSUME Inv, AgreeInv, CheckPending
    PROVE  AgreeInv'
<1> node = "check_pending_action" /\ UNCHANGED <<effects, reply>>
  BY DEF CheckPending, Business
<1>1. PICK confirmation, pending :
        /\ conv' = [conv EXCEPT !.pending = pending]
        /\ turn' = [turn EXCEPT !.confirmation = confirmation,
                        !.interrupts = confirmation = "inspect_interruption",
                        !.replay = conv.pending.status = "EXECUTED" /\ confirmation = "no_pending"]
        /\ node' = AfterPending(confirmation, conv.active)
        /\ \/ pending = conv.pending /\ conv.pending.status # "PENDING"
           \/ /\ conv.pending.status = "PENDING"
              /\ \E expired \in BOOLEAN : confirmation = ConfirmationOf(turn.message, expired)
              /\ pending = WithStatus(conv.pending, StatusAfter(confirmation))
           \/ confirmation = "normal" /\ pending = NoPending
  BY DEF CheckPending, IsAction, None
<1>2. /\ conv'.pending = pending /\ turn'.confirmation = confirmation
      /\ turn'.replay = (conv.pending.status = "EXECUTED" /\ confirmation = "no_pending")
      /\ \A f \in {"signal", "error", "status", "unknown", "wrote", "tool"} : turn'[f] = turn[f]
  BY <1>1 DEF Inv, ShapeInv, ConvFields, TurnFields
<1>3. pending.status = "EXECUTED" => pending = conv.pending
  <2>1. ASSUME conv.pending.status = "PENDING", pending = WithStatus(conv.pending, StatusAfter(confirmation))
        PROVE  pending.status # "EXECUTED"
    <3>1. StatusAfter(confirmation) \in ActionStatuses /\ StatusAfter(confirmation) # "EXECUTED"
      BY DEF StatusAfter, ActionStatuses
    <3>2. Sound(conv.pending, fresh) /\ IsAction(conv.pending)
      BY <2>1 DEF Inv, ShapeInv, IsAction, None
    <3> QED
      BY <2>1, <3>1, <3>2, StatusChanged
  <2> QED
    BY <1>1, <2>1, NothingSound DEF None
<1>4. confirmation = "no_pending" => node' = "respond" /\ pending.status # "PENDING"
  BY <1>1 DEF ConfirmationOf, AfterPending
<1>5. node' \in {"restore_suspended_workflow", "understand_request", "restore_pending_action",
                 "resume_workflow", "respond"}
  BY <1>1 DEF AfterPending
<1> QED
  BY <1>2, <1>3, <1>4, <1>5, NoTurnAgrees DEF AgreeInv, OutcomeInv, ToolInv, SavedInv, None

\* The nodes that neither call a tool nor find one named keep the tool unset.
LEMMA ResumeAgrees ==
    ASSUME Inv, AgreeInv, ResumeWorkflow
    PROVE  AgreeInv'
<1>1. /\ node = "resume_workflow" /\ node' \in {"understand_request", "respond", "compile_decision"}
      /\ UNCHANGED effects /\ conv'.pending = conv.pending
      /\ \A f \in {"signal", "replay", "error", "status", "unknown", "wrote", "tool", "confirmation"} :
            turn'[f] = turn[f]
  BY DEF ResumeWorkflow, Business, Inv, ShapeInv, ConvFields, TurnFields
<1> QED
  BY <1>1, NoTurnAgrees DEF AgreeInv, OutcomeInv, ToolInv, SavedInv

LEMMA RestorePendingAgrees ==
    ASSUME Inv, AgreeInv, RestorePending
    PROVE  AgreeInv'
<1>1. /\ node = "restore_pending_action" /\ node' = "compile_decision" /\ UNCHANGED <<conv, effects>>
      /\ \A f \in {"signal", "replay", "error", "status", "unknown", "wrote", "confirmation"} :
            turn'[f] = turn[f]
  BY DEF RestorePending, Business, Inv, ShapeInv, TurnFields
<1> QED
  BY <1>1, QuietAgrees DEF AgreeInv, SavedInv

LEMMA RestoreSuspendedAgrees ==
    ASSUME Inv, AgreeInv, RestoreSuspended
    PROVE  AgreeInv'
<1>1. /\ node = "restore_suspended_workflow" /\ node' = "respond" /\ UNCHANGED effects
      /\ conv'.pending = conv.suspended.action /\ turn'.tool = conv.suspended.action.tool
      /\ turn'.confirmation \in {"resumed", None}
      /\ \A f \in {"signal", "replay", "error", "status", "unknown", "wrote"} : turn'[f] = turn[f]
  BY DEF RestoreSuspended, Business, Inv, ShapeInv, ConvFields, TurnFields
<1>2. IF IsAction(conv.suspended.action) THEN conv.suspended.action.status = "PENDING"
      ELSE conv.suspended.action = NoPending
  BY DEF Inv, ShapeInv, KeyInv, Sound
<1>3. NoPending.tool = None
  BY DEF NoPending
<1> QED
  BY <1>1, <1>2, <1>3, NoTurnAgrees, NothingSound DEF AgreeInv, OutcomeInv, ToolInv, SavedInv, None

LEMMA UnderstandAgrees ==
    ASSUME Inv, AgreeInv, UnderstandRequest
    PROVE  AgreeInv'
<1>1. /\ node = "understand_request" /\ UNCHANGED <<conv, effects>>
      /\ node' \in {"handle_workflow_interruption", "compile_decision", "respond"}
      /\ turn'.error \in {turn.error, "llm"}
      /\ \A f \in {"signal", "replay", "status", "unknown", "wrote", "tool", "confirmation"} :
            turn'[f] = turn[f]
      /\ node' # "respond" => turn'.error = turn.error
  BY DEF UnderstandRequest, ProviderFails, AfterUnderstanding, Business, Inv, ShapeInv, TurnFields
<1> QED
  BY <1>1, NoTurnAgrees DEF AgreeInv, OutcomeInv, ToolInv, SavedInv

LEMMA InterruptionAgrees ==
    ASSUME Inv, AgreeInv, HandleInterruption
    PROVE  AgreeInv'
<1>1. /\ node = "handle_workflow_interruption" /\ node' \in {"respond", "compile_decision"}
      /\ UNCHANGED effects /\ conv'.pending \in {conv.pending, NoPending}
      /\ turn'.confirmation \in {"ambiguous", None, "interrupted"}
      /\ \A f \in {"signal", "replay", "error", "status", "unknown", "wrote", "tool"} :
            turn'[f] = turn[f]
  <2>1. DOMAIN turn = TurnFields /\ DOMAIN conv = ConvFields
    BY DEF Inv, ShapeInv
  <2>2. /\ node = "handle_workflow_interruption" /\ node' \in {"respond", "compile_decision"}
        /\ UNCHANGED effects
    BY DEF HandleInterruption, Business
  <2>3. CASE turn.proposal.intent \in {"unknown", WorkflowIntent}
    <3>1. /\ conv' = conv
          /\ \E mark \in {"ambiguous", None} :
                turn' = [turn EXCEPT !.proposal = NoProposal, !.interruption = "continued",
                                     !.confirmation = mark]
      BY <2>3 DEF HandleInterruption
    <3> QED
      BY <2>1, <2>2, <3>1 DEF TurnFields
  <2>4. CASE turn.proposal.intent \notin {"unknown", WorkflowIntent}
    <3>1. \E mark \in {"superseded", "suspended"} :
            turn' = [turn EXCEPT !.confirmation = "interrupted", !.interruption = mark]
      BY <2>4 DEF HandleInterruption
    <3>2. conv'.pending \in {conv.pending, NoPending}
      BY <2>1, <2>4 DEF HandleInterruption, Interrupted, ConvFields
    <3> QED
      BY <2>1, <2>2, <3>1, <3>2 DEF TurnFields
  <2> QED
    BY <2>3, <2>4
<1> QED
  BY <1>1, NoTurnAgrees, NothingSound DEF AgreeInv, OutcomeInv, ToolInv, SavedInv, None

\* A decision that runs nothing names no tool.
LEMMA CompiledTool ==
    ASSUME NEW p, NEW said, NEW doubted
    PROVE  LET c == CompileProposal(p, said, doubted)
           IN /\ c.status # "action" => c.tool = None
              /\ p.intent \in MemoryIntents => c.status # "action"
<1> DEFINE Named(c) == c.status # "action" => c.tool = None
<1>1. \A missing : Named(Clarify(missing)) /\ Clarify(missing).status = "clarify"
  BY DEF Clarify, Compiled
<1>2. Named(Rejected) /\ \A b : Named(NoAction(b)) /\ NoAction(b).status = "no_action"
  BY DEF Rejected, NoAction, Compiled
<1>3. \A o : Named(Action(p, o)) /\ Named([Action(p, o) EXCEPT !.retrieval = TRUE])
  BY DEF Action, Compiled
<1> HIDE DEF Named
<1>4. Named(CompileKnowledge(p))
  BY <1>1, <1>2 DEF CompileKnowledge
<1>5. Named(CompileMutation(p, doubted))
  BY <1>1, <1>2, <1>3 DEF CompileMutation
<1>6. Named(CompileRecord(p))
  BY <1>1, <1>2, <1>3 DEF CompileRecord
<1>7. Named(CompileRead(p))
  BY <1>1, <1>2, <1>3 DEF CompileRead
<1>8. Named(CompileMixed(p))
  BY <1>1, <1>2, <1>3 DEF CompileMixed
<1>9. Named(CompileProposal(p, said, doubted))
  BY <1>1, <1>2, <1>4, <1>5, <1>6, <1>7, <1>8 DEF CompileProposal
<1>10. p.intent \in MemoryIntents => CompileProposal(p, said, doubted).status # "action"
  BY <1>1, <1>2
  DEF CompileProposal, MemoryIntents, KnowledgeIntents, Mutations, ActionIntents, ReadIntents,
      MixedIntents
<1> QED
  BY <1>9, <1>10 DEF Named

LEMMA CompileAgrees ==
    ASSUME Inv, AgreeInv, CompileDecision
    PROVE  AgreeInv'
<1> DEFINE compiled == CompileProposal(turn.proposal, conv.said, conv.doubted)
<1>1. /\ node = "compile_decision" /\ UNCHANGED effects /\ conv'.pending = conv.pending
      /\ node' = AfterSelection(compiled, turn.proposal.intent)
      /\ turn'.tool = compiled.tool /\ turn'.error \in {"invalid_arguments", None}
      /\ \A f \in {"signal", "replay", "status", "unknown", "wrote", "confirmation"} :
            turn'[f] = turn[f]
  BY DEF CompileDecision, Business, Inv, ShapeInv, ConvFields, TurnFields
<1>2. /\ compiled.status # "action" => compiled.tool = None
      /\ turn.proposal.intent \in MemoryIntents => compiled.status # "action"
  BY CompiledTool
<1> HIDE DEF compiled
<1>3. /\ node' \in {"respond", "memory_action", "retrieve_knowledge", "validate_tool"}
      /\ node' # "validate_tool" => compiled.tool = None
  BY <1>1, <1>2 DEF AfterSelection
<1> QED
  BY <1>1, <1>3, NoTurnAgrees DEF AgreeInv, OutcomeInv, ToolInv, SavedInv, None

LEMMA ValidateAgrees ==
    ASSUME Inv, AgreeInv, ValidateTool
    PROVE  AgreeInv'
<1>1. /\ node = "validate_tool" /\ UNCHANGED <<conv, effects>>
      /\ \A f \in {"signal", "replay", "status", "unknown", "wrote", "tool", "confirmation"} :
            turn'[f] = turn[f]
      /\ \/ node' \in {"policy_revalidation", "evaluate_policy"} /\ turn'.error = turn.error
         \/ node' = "respond" /\ turn'.error = "invalid_arguments"
  BY DEF ValidateTool, AfterValidation, Business, Inv, ShapeInv, TurnFields
<1> QED
  BY <1>1, NoTurnAgrees DEF AgreeInv, OutcomeInv, ToolInv, SavedInv, None

LEMMA PolicyAgrees ==
    ASSUME Inv, AgreeInv, EvaluatePolicy
    PROVE  AgreeInv'
<1>1. /\ node = "evaluate_policy" /\ UNCHANGED effects /\ conv'.pending = conv.pending
      /\ \A f \in {"signal", "replay", "status", "unknown", "wrote", "tool", "confirmation"} :
            turn'[f] = turn[f]
      /\ \/ /\ node' \in {"execute_tool", "create_pending_action", "execute_human_escalation"}
            /\ turn'.error = turn.error
         \/ node' = "respond" /\ turn'.error = "internal"
  BY DEF EvaluatePolicy, AfterPolicy, Inv, ShapeInv, ConvFields, TurnFields
<1> QED
  BY <1>1, NoTurnAgrees DEF AgreeInv, OutcomeInv, ToolInv, SavedInv, None

LEMMA CreateAgrees ==
    ASSUME Inv, AgreeInv, CreatePending
    PROVE  AgreeInv'
<1>1. /\ node = "create_pending_action" /\ node' = "respond" /\ UNCHANGED effects
      /\ conv'.pending.status = "PENDING" /\ turn'.status = "pending"
      /\ \A f \in {"signal", "replay", "error", "unknown", "wrote", "tool", "confirmation"} :
            turn'[f] = turn[f]
  BY DEF CreatePending, Business, Inv, ShapeInv, ConvFields, TurnFields
<1> QED
  BY <1>1, NoTurnAgrees DEF AgreeInv, OutcomeInv, ToolInv, SavedInv, IsAction, None

LEMMA RevalidateAgrees ==
    ASSUME Inv, AgreeInv, Revalidate
    PROVE  AgreeInv'
<1>1. /\ node = "policy_revalidation" /\ UNCHANGED effects
      /\ \A f \in {"signal", "replay", "status", "unknown", "wrote", "confirmation"} :
            turn'[f] = turn[f]
      /\ \/ /\ node' = "execute_confirmed_action" /\ turn'.error = turn.error
            /\ conv' = conv
         \/ /\ node' = "respond" /\ turn'.error \in {"business", "policy_denied"}
            /\ conv'.pending = IF IsAction(conv.pending) THEN WithStatus(conv.pending, "FAILED")
                               ELSE conv.pending
  BY DEF Revalidate, Business, Inv, ShapeInv, ConvFields, TurnFields
<1>2. conv'.pending = conv.pending \/ conv'.pending.status = "FAILED"
  BY <1>1, StatusChanged DEF Inv, ShapeInv, ActionStatuses
<1> QED
  BY <1>1, <1>2, NoTurnAgrees DEF AgreeInv, OutcomeInv, ToolInv, SavedInv, None

\* A call of a tool says of the write what became of it.
LEMMA CallAgrees ==
    ASSUME Inv, AgreeInv, CallsTool, node \notin {"idle", "respond", "retrieve_knowledge"}
    PROVE  /\ effects \subseteq effects'
           /\ \A f \in {"signal", "replay", "tool", "order", "confirmation"} : turn'[f] = turn[f]
           /\ turn'.error # "ownership"
           /\ turn'.status = "executed" /\ turn.tool \in WriteTools => Requested \in effects'
           /\ turn'.wrote # FALSE =>
                  /\ turn.tool \in WriteTools
                  /\ \/ turn'.unknown = TRUE /\ turn'.status = "failed"
                     \/ turn'.unknown = FALSE /\ turn'.status = "executed"
           /\ turn'.status = "executed" \/ turn'.error # None
           /\ Succeed => turn'.status = "executed"
           /\ FailTool \/ LoseOutcome => turn'.status = "failed" /\ turn'.error # None
<1> DOMAIN turn = TurnFields
  BY DEF Inv, ShapeInv
<1> turn.unknown = FALSE /\ turn.wrote = FALSE
  BY DEF AgreeInv, OutcomeInv
<1>1. CASE Succeed
  <2>1. /\ turn'.status = "executed" /\ turn'.error = None /\ turn'.unknown = FALSE
        /\ turn'.wrote = (effects' # effects)
        /\ \A f \in {"signal", "replay", "tool", "order", "confirmation"} : turn'[f] = turn[f]
    BY <1>1 DEF Succeed, TurnFields
  <2>2. /\ effects \subseteq effects'
        /\ effects' # effects => turn.tool \in WriteTools
        /\ turn.tool \in WriteTools => Requested \in effects'
    BY <1>1 DEF Succeed
  <2>3. FailTool => turn'.status = "failed"
    BY DEF FailTool, TurnFields
  <2>4. LoseOutcome => turn'.status = "failed"
    BY DEF LoseOutcome, TurnFields
  <2> QED
    BY <2>1, <2>2, <2>3, <2>4 DEF None
<1>2. CASE FailTool
  <2>1. /\ turn'.status = "failed" /\ turn'.error \in {"business", "duplicate", "dependency"}
        /\ turn'.wrote = FALSE /\ effects' = effects
        /\ \A f \in {"signal", "replay", "tool", "order", "confirmation"} : turn'[f] = turn[f]
    BY <1>2 DEF FailTool, TurnFields
  <2>2. ~Succeed
    BY <2>1 DEF Succeed, TurnFields
  <2> QED
    BY <2>1, <2>2 DEF None
<1>3. CASE LoseOutcome
  <2>1. /\ turn'.status = "failed" /\ turn'.error = "unknown_write" /\ turn'.unknown = TRUE
        /\ turn.tool \in WriteTools /\ effects \subseteq effects'
        /\ \A f \in {"signal", "replay", "tool", "order", "confirmation"} : turn'[f] = turn[f]
    BY <1>3 DEF LoseOutcome, TurnFields
  <2>2. ~Succeed
    BY <2>1 DEF Succeed, TurnFields
  <2> QED
    BY <2>1, <2>2 DEF None
<1> QED
  BY <1>1, <1>2, <1>3 DEF CallsTool

LEMMA ExecuteAgrees ==
    ASSUME Inv, AgreeInv, Execute
    PROVE  AgreeInv'
<1>1. /\ node \in {"execute_tool", "execute_confirmed_action"}
      /\ CallsTool /\ node' \in {"retrieve_knowledge", "respond"}
      /\ \/ Succeed /\ Finished(TRUE)
         \/ (FailTool \/ LoseOutcome) /\ Finished(FALSE)
  BY DEF Execute, CallsTool, AfterExecution
<1>2. \E status \in {"EXECUTED", "FAILED"} :
        /\ status = "EXECUTED" => Succeed
        /\ conv' = [conv EXCEPT !.pending =
                       IF IsAction(@) THEN WithStatus(@, status) ELSE @]
  BY <1>1 DEF Finished
<1>3. PICK status \in {"EXECUTED", "FAILED"} :
        /\ status = "EXECUTED" => Succeed
        /\ conv'.actionId = conv.actionId
        /\ conv'.pending = IF IsAction(conv.pending) THEN WithStatus(conv.pending, status)
                          ELSE conv.pending
  BY <1>2 DEF Inv, ShapeInv, ConvFields
<1>4. conv'.pending.status = "EXECUTED" => What(conv'.pending) \in effects'
  <2>1. CASE ~IsAction(conv.pending)
    BY <1>3, <2>1 DEF IsAction, None
  <2>2. CASE IsAction(conv.pending)
    <3>1. node = "execute_confirmed_action"
      BY <1>1, <2>2 DEF Inv, FlowInv
    <3>2. /\ turn.tool = conv.pending.tool /\ turn.order = conv.pending.order
          /\ conv.actionId = conv.pending.id /\ conv.pending.tool \in ConfirmedTools
      BY <2>2, <3>1 DEF Inv, FlowInv, KeyInv, PendingOwnsTheKey, Approved, ShapeInv, Sound
    <3>3. Requested = What(conv.pending) /\ turn.tool \in WriteTools
      BY <3>2 DEF Requested, What, WriteTools
    <3>4. conv'.pending.status = status /\ What(conv'.pending) = What(conv.pending)
      BY <1>3, <2>2, StatusChanged DEF Inv, ShapeInv, ActionStatuses
    <3> QED
      BY <1>1, <1>3, <3>3, <3>4, CallAgrees
  <2> QED
    BY <2>1, <2>2
<1>5. turn'.tool = turn.tool /\ turn'.order = turn.order /\ Requested' = Requested
  BY <1>1, <1>3, CallAgrees DEF Requested
<1>6. turn'.confirmation # "no_pending"
  BY <1>1, CallAgrees DEF AgreeInv, SavedInv
<1>7. OutcomeInv'
  <2>1. turn'.signal = None /\ turn'.replay = FALSE /\ turn'.error # "ownership"
    BY <1>1, CallAgrees DEF AgreeInv, OutcomeInv
  <2> QED
    BY <1>1, <1>5, <2>1, CallAgrees DEF OutcomeInv
<1>8. ToolInv'
  BY <1>1, CallAgrees DEF ToolInv
<1> QED
  BY <1>4, <1>6, <1>7, <1>8 DEF AgreeInv, SavedInv

LEMMA EscalateAgrees ==
    ASSUME Inv, AgreeInv, EscalateToHuman
    PROVE  AgreeInv'
<1>1. /\ node = "execute_human_escalation" /\ node' = "respond" /\ conv' = conv
      /\ CallsTool
  BY DEF EscalateToHuman, CallsTool
<1>2. turn'.tool = turn.tool /\ Requested' = Requested
  BY <1>1, CallAgrees DEF Requested
<1>3. OutcomeInv'
  <2>1. turn'.signal = None /\ turn'.replay = FALSE /\ turn'.error # "ownership"
    BY <1>1, CallAgrees DEF AgreeInv, OutcomeInv
  <2> QED
    BY <1>1, <1>2, <2>1, CallAgrees DEF OutcomeInv
<1>4. ToolInv'
  BY <1>1, CallAgrees DEF ToolInv
<1>5. SavedInv'
  BY <1>1, CallAgrees DEF AgreeInv, SavedInv
<1> QED
  BY <1>3, <1>4, <1>5 DEF AgreeInv

LEMMA MemoryActionAgrees ==
    ASSUME Inv, AgreeInv, MemoryAction
    PROVE  AgreeInv'
<1>1. /\ node = "memory_action" /\ node' = "respond" /\ UNCHANGED <<conv, effects>>
      /\ turn'.error \in {turn.error, "policy_denied", "internal"}
      /\ \A f \in {"signal", "replay", "status", "unknown", "wrote", "tool", "order", "confirmation"} :
            turn'[f] = turn[f]
  BY DEF MemoryAction, Remember, Forget, Business, Inv, ShapeInv, TurnFields
<1> QED
  BY <1>1 DEF AgreeInv, OutcomeInv, ToolInv, SavedInv, None

LEMMA KnowledgeAgrees ==
    ASSUME Inv, AgreeInv, RetrieveKnowledge
    PROVE  AgreeInv'
<1>1. /\ node = "retrieve_knowledge" /\ node' = "respond" /\ UNCHANGED <<conv, effects>>
      /\ turn'.error \in {turn.error, "retrieval"}
      /\ \A f \in {"signal", "replay", "status", "unknown", "wrote", "tool", "order", "confirmation"} :
            turn'[f] = turn[f]
  BY DEF RetrieveKnowledge, Business, Inv, ShapeInv, TurnFields
<1>2. Requested' = Requested
  BY <1>1 DEF Requested
<1> QED
  BY <1>1, <1>2 DEF AgreeInv, OutcomeInv, ToolInv, SavedInv, None

LEMMA EndAgrees ==
    ASSUME Inv, AgreeInv, Respond \/ Crash
    PROVE  AgreeInv'
<1>1. node' = "idle" /\ turn' = NoTurn /\ conv' = conv /\ effects \subseteq effects'
  BY DEF Respond, Crash, Business
<1> QED
  BY <1>1, NoTurnAgrees DEF AgreeInv, OutcomeInv, ToolInv, SavedInv, None

LEMMA Agreement == Spec => []AgreeInv
<1>1. Inv /\ AgreeInv /\ [Next]_vars => AgreeInv'
  <2> SUFFICES ASSUME Inv, AgreeInv, [Next]_vars PROVE AgreeInv'
    OBVIOUS
  <2>1. CASE Node
    BY <2>1, SecurityAgrees, MemoryAgrees, CheckAgrees, ResumeAgrees, RestorePendingAgrees,
       RestoreSuspendedAgrees, UnderstandAgrees, InterruptionAgrees, CompileAgrees, ValidateAgrees,
       PolicyAgrees, CreateAgrees, RevalidateAgrees, ExecuteAgrees, EscalateAgrees,
       MemoryActionAgrees, KnowledgeAgrees, EndAgrees DEF Node
  <2>2. CASE Crash
    BY <2>2, EndAgrees
  <2>3. CASE \E m \in Messages : Receive(m)
    BY <2>3, ReceiveAgrees
  <2>4. CASE UNCHANGED vars
    BY <2>4 DEF vars, AgreeInv, OutcomeInv, ToolInv, SavedInv, Requested
  <2> QED
    BY <2>1, <2>2, <2>3, <2>4 DEF Next
<1> QED
  BY <1>1, InitAgrees, Invariant, PTL DEF Spec

-----------------------------------------------------------------------------
(* The reply.                                                              *)

\* A branch of the reply always applies, and the first of them is taken.
LEMMA FirstApplies ==
    /\ FirstBranch \in 1..16 /\ Branches[FirstBranch][1]
    /\ \A j \in 1..FirstBranch - 1 : ~Branches[j][1]
<1> DEFINE Applies == {i \in 1..16 : Branches[i][1]}
<1>1. DOMAIN Branches = 1..16 /\ Branches[16][1]
  <2>1. DOMAIN Branches = 1..16
    BY DEF Branches
  <2>2. Branches[16][1]
    BY DEF Branches
  <2> QED
    BY <2>1, <2>2
<1>2. PICK i \in Applies : \A j \in Applies : ~(<<j, i>> \in OpToRel(<, Nat))
  <2>1. Applies \subseteq Nat /\ Applies # {}
    BY <1>1
  <2> QED
    BY <2>1, NatLessThanWellFounded, WFMin
<1>3. \A j \in Applies : ~(j < i)
  <2>1. OpToRel(<, Nat) = {ss \in Nat \X Nat : ss[1] < ss[2]}
    BY DEF OpToRel
  <2>2. ASSUME NEW j \in Applies, j < i
        PROVE  FALSE
    <3>1. <<j, i>> \in {ss \in Nat \X Nat : ss[1] < ss[2]}
      BY <2>2
    <3> QED
      BY <1>2, <2>1, <3>1
  <2> QED
    BY <2>2
<1>4. Branches[i][1] /\ \A j \in 1..i - 1 : ~Branches[j][1]
  BY <1>3
<1> QED
  BY <1>1, <1>4 DEF FirstBranch

\* The branches that speak of the outcome of an action, and what they rest on.
LEMMA SaysWhat ==
    LET says == Branches[FirstBranch][2]
    IN /\ says = "already_done" =>
              turn.confirmation = "no_pending" /\ conv.pending.status = "EXECUTED"
       /\ says = "nothing_pending" => turn.confirmation = "no_pending"
       /\ says = "done" =>
              \/ conv.pending.status = "EXECUTED"
              \/ ~IsAction(conv.pending) /\ turn.tool \in WriteTools /\ turn.error = None
       /\ says = "confirm?" => conv.pending.status = "PENDING"
       /\ says = "not_executed" => conv.pending.status = "REJECTED"
<1> DEFINE says == Branches[FirstBranch][2]
<1>1. CASE FirstBranch \in 1..9
  <2>1. says \in {"refused", "saved", "unknown", "memory", "answer", "degraded", "error"}
    BY <1>1 DEF Branches
  <2> QED
    BY <2>1
<1>2. CASE FirstBranch = 10
  <2>1. /\ says = IF conv.pending.status = "EXECUTED" THEN "already_done" ELSE "nothing_pending"
        /\ turn.confirmation = "no_pending"
    BY <1>2, FirstApplies DEF Branches
  <2> QED
    BY <2>1
<1>3. CASE FirstBranch = 12
  <2>1. says = SaysOf(conv.pending)
    BY <1>3 DEF Branches
  <2> QED
    BY <2>1 DEF SaysOf
<1>4. CASE FirstBranch = 14
  <2>1. says = "done" /\ turn.tool \in WriteTools
    BY <1>4, FirstApplies DEF Branches
  <2>2. ~Branches[9][1] /\ ~Branches[12][1]
    BY <1>4, FirstApplies
  <2>3. turn.error = None /\ ~IsAction(conv.pending)
    BY <2>2 DEF Branches
  <2> QED
    BY <2>1, <2>3
<1>5. CASE FirstBranch \in {11, 13, 15, 16}
  <2>1. says \in {"nothing_suspended", "ask_field", "found", "clarify"}
    BY <1>5 DEF Branches
  <2> QED
    BY <2>1
<1> QED
  BY <1>1, <1>2, <1>3, <1>4, <1>5, FirstApplies

\* About speaks of the live action if there is one, and else of what was requested.
LEMMA RespondIsTrue ==
    ASSUME Inv, AgreeInv, Respond
    PROVE  RepliesAreTrue'
<1> DEFINE says == Branches[FirstBranch][2]
<1>1. /\ node = "respond" /\ reply' = [says |-> says, about |-> About(says), shown |-> View]
      /\ conv' = conv /\ effects' = effects
  BY DEF Respond, Business
<1>2. reply'.says = says /\ reply'.about = About(says)
  BY <1>1
<1>3. IsAction(conv.pending) /\ says # "saved" => About(says) = What(conv.pending)
  BY DEF About
<1>4. conv.pending.status \in ActionStatuses => IsAction(conv.pending)
  BY DEF IsAction, ActionStatuses, None
<1>5. /\ says = "already_done" => turn.confirmation = "no_pending" /\ conv.pending.status = "EXECUTED"
      /\ says = "nothing_pending" => turn.confirmation = "no_pending"
      /\ says = "done" =>
              \/ conv.pending.status = "EXECUTED"
              \/ ~IsAction(conv.pending) /\ turn.tool \in WriteTools /\ turn.error = None
      /\ says = "confirm?" => conv.pending.status = "PENDING"
      /\ says = "not_executed" => conv.pending.status = "REJECTED"
  BY SaysWhat
<1> HIDE DEF says
<1>6. ASSUME says \in {"done", "already_done"}
      PROVE  About(says) \in effects
  <2>1. CASE conv.pending.status = "EXECUTED"
    <3>1. About(says) = What(conv.pending)
      BY <1>3, <1>4, <1>6, <2>1 DEF ActionStatuses
    <3> QED
      BY <2>1, <3>1 DEF AgreeInv, SavedInv
  <2>2. CASE conv.pending.status # "EXECUTED"
    <3>1. says = "done" /\ ~IsAction(conv.pending) /\ turn.tool \in WriteTools /\ turn.error = None
      BY <1>5, <1>6, <2>2
    <3>2. About(says) = Requested
      BY <3>1 DEF About
    <3>3. turn.status = "executed"
      BY <1>1, <3>1 DEF AgreeInv, ToolInv
    <3> QED
      BY <3>1, <3>2, <3>3 DEF AgreeInv, OutcomeInv
  <2> QED
    BY <2>1, <2>2
<1>7. says = "confirm?" => conv.pending.status = "PENDING" /\ About(says) = What(conv.pending)
  BY <1>3, <1>4, <1>5 DEF ActionStatuses
<1>8. says = "nothing_pending" => conv.pending.status # "PENDING"
  BY <1>5 DEF AgreeInv, SavedInv
<1>9. says = "not_executed" => conv.pending.status = "REJECTED" /\ conv.pending.id = About(says).id
  BY <1>3, <1>4, <1>5 DEF ActionStatuses, What
<1> QED
  BY <1>1, <1>2, <1>6, <1>7, <1>8, <1>9 DEF RepliesAreTrue

\* Whatever was interrupted, lost or refused on the way, the last reply says done only of
\* a committed write, asks about the action the next "yes" will run, and denies an action
\* only when none waits.
THEOREM RepliesCorrect == Spec => []RepliesAreTrue
<1>1. Init => RepliesAreTrue
  BY DEF Init, RepliesAreTrue, NoReply, None
<1>2. Inv /\ AgreeInv /\ RepliesAreTrue /\ [Next]_vars => RepliesAreTrue'
  <2> SUFFICES ASSUME Inv, AgreeInv, RepliesAreTrue, [Next]_vars PROVE RepliesAreTrue'
    OBVIOUS
  <2>1. CASE Respond
    BY <2>1, RespondIsTrue
  <2>2. CASE Crash
    <3>1. reply'.says = "exception"
      BY <2>2 DEF Crash, NoReply
    <3> QED
      BY <3>1 DEF RepliesAreTrue
  <2>3. CASE UNCHANGED vars
    BY <2>3 DEF vars, RepliesAreTrue
  <2>4. ASSUME Next, ~Respond, ~Crash
        PROVE  node' # "idle"
    BY <2>4 DEF Next, Node, Receive, SecurityBoundary, RetrieveMemory, CheckPending, AfterPending,
                ResumeWorkflow, RestorePending, RestoreSuspended, UnderstandRequest,
                AfterUnderstanding, HandleInterruption, CompileDecision, AfterSelection,
                ValidateTool, AfterValidation, EvaluatePolicy, AfterPolicy, CreatePending,
                Revalidate, Execute, AfterExecution, EscalateToHuman, MemoryAction,
                RetrieveKnowledge
  <2> QED
    BY <2>1, <2>2, <2>3, <2>4 DEF RepliesAreTrue
<1> QED
  BY <1>1, <1>2, Invariant, Agreement, PTL DEF Spec

\* What operators are shown at the end of a run never denies a write and never makes one up.
THEOREM ViewCorrect == Spec => ViewIsTrue
<1>1. ASSUME AgreeInv, [Next]_vars, node = "respond", node' = "idle", reply'.says # "exception"
      PROVE  /\ reply'.shown.write = "executed" => Requested \in effects
             /\ turn.wrote =>
                    /\ reply'.shown.write \in {"executed", "unknown"}
                    /\ \/ turn.tool = "escalate_to_human"
                       \/ reply'.shown.tool # "blocked_before_execution"
  <2>1. reply'.shown.write = WriteOutcome /\ reply'.shown.tool = ToolStatus
    <3>1. ~Crash
      BY <1>1 DEF Crash, NoReply
    <3>2. Respond
      BY <1>1, <3>1 DEF Next, Node, Receive, SecurityBoundary, RetrieveMemory, CheckPending,
                        ResumeWorkflow, RestorePending, RestoreSuspended, UnderstandRequest,
                        HandleInterruption, CompileDecision, ValidateTool, EvaluatePolicy,
                        CreatePending, Revalidate, Execute, EscalateToHuman, MemoryAction,
                        RetrieveKnowledge, vars
    <3> QED
      BY <3>2 DEF Respond, View
  <2>2. WriteOutcome = "executed" => Requested \in effects
    BY <1>1 DEF WriteOutcome, AgreeInv, OutcomeInv
  <2>3. ASSUME turn.wrote
        PROVE  /\ WriteOutcome \in {"executed", "unknown"}
               /\ turn.tool = "escalate_to_human" \/ ToolStatus # "blocked_before_execution"
    <3>1. turn.wrote # FALSE
      BY <2>3
    <3>2. /\ turn.tool \in WriteTools /\ turn.signal = None /\ turn.replay = FALSE
          /\ turn.error # "ownership"
          /\ \/ turn.unknown = TRUE /\ turn.status = "failed"
             \/ turn.unknown = FALSE /\ turn.status = "executed"
      BY <1>1, <3>1 DEF AgreeInv, OutcomeInv
    <3>3. WriteOutcome \in {"executed", "unknown"}
      BY <3>2 DEF WriteOutcome
    <3>4. turn.tool = "escalate_to_human" \/ ToolStatus # "blocked_before_execution"
      BY <3>2, NoTurnAgrees DEF ToolStatus
    <3> QED
      BY <3>3, <3>4
  <2> QED
    BY <2>1, <2>2, <2>3
<1>2. AgreeInv /\ [Next]_vars =>
        [node = "respond" /\ node' = "idle" /\ reply'.says # "exception" =>
           /\ reply'.shown.write = "executed" => Requested \in effects
           /\ turn.wrote =>
                  /\ reply'.shown.write \in {"executed", "unknown"}
                  /\ \/ turn.tool = "escalate_to_human"
                     \/ reply'.shown.tool # "blocked_before_execution"]_vars
  BY <1>1
<1> QED
  BY <1>2, Agreement, PTL DEF Spec, ViewIsTrue

-----------------------------------------------------------------------------
(* AgentGraph implements IdempotentWrites.                                 *)

ReceiptsOf(written) == {AsReceipt(e) : e \in written}

\* Before the tool is called nothing is said of a write.
LEMMA NothingTold ==
    ASSUME turn.status \notin {"executed", "failed"}, turn.unknown = FALSE, node \notin Calling
    PROVE  Told = Writes!Nothing
  BY DEF Told, Writes!Nothing

\* The nodes before the call keep what is known of a write, which is nothing.
LEMMA StatusKept ==
    ASSUME Inv, AgreeInv, Node,
           node \notin Calling \cup {"idle", "retrieve_knowledge", "respond"}
    PROVE  /\ effects' = effects /\ node' # "idle"
           /\ turn'.status \notin {"executed", "failed"} /\ turn'.unknown = FALSE
<1> DEFINE Kept == /\ effects' = effects /\ node' # "idle"
                   /\ turn'.status \in {turn.status, "pending"} /\ turn'.unknown = turn.unknown
<1> USE DEF Inv, ShapeInv, TurnFields, Business
<1>1. SecurityBoundary => Kept
  BY DEF SecurityBoundary, SecurityBlock, OwnershipBlock
<1>2. RetrieveMemory => Kept
  BY DEF RetrieveMemory
<1>3. CheckPending => Kept
  BY DEF CheckPending, AfterPending
<1>4. ResumeWorkflow => Kept
  BY DEF ResumeWorkflow
<1>5. RestorePending \/ RestoreSuspended => Kept
  BY DEF RestorePending, RestoreSuspended
<1>6. UnderstandRequest => Kept
  BY DEF UnderstandRequest, ProviderFails, AfterUnderstanding
<1>7. HandleInterruption => Kept
  BY DEF HandleInterruption
<1>8. CompileDecision => Kept
  BY DEF CompileDecision, AfterSelection
<1>9. ValidateTool \/ EvaluatePolicy => Kept
  BY DEF ValidateTool, AfterValidation, EvaluatePolicy, AfterPolicy
<1>10. CreatePending \/ Revalidate => Kept
  BY DEF CreatePending, Revalidate
<1>11. MemoryAction => Kept
  BY DEF MemoryAction, Remember, Forget
<1>12. ~Execute /\ ~EscalateToHuman /\ ~RetrieveKnowledge /\ ~Respond
  BY DEF Execute, EscalateToHuman, RetrieveKnowledge, Respond, Calling
<1>13. Kept
  BY <1>1, <1>2, <1>3, <1>4, <1>5, <1>6, <1>7, <1>8, <1>9, <1>10, <1>11, <1>12 DEF Node
<1>14. turn.status = None /\ turn.unknown = FALSE
  BY DEF AgreeInv, OutcomeInv, Calling
<1> QED
  BY <1>13, <1>14 DEF None

\* The request that the next node will make is well formed too.
LEMMA NextRequest ==
    (Inv /\ turn.tool \in WriteTools /\ node \in Calling
       => Requested \in [id : ActionIds \ {0}, tool : WriteTools, order : Orders \cup {None}])'
<1>1. Inv /\ turn.tool \in WriteTools /\ node \in Calling
        => Requested \in [id : ActionIds \ {0}, tool : WriteTools, order : Orders \cup {None}]
  BY RequestedShape DEF Calling
<1> QED
  BY <1>1, PTL

\* A receipt without another request under its key can be stored.
LEMMA KeyIsFree ==
    ASSUME Receipts \subseteq {Requested}
    PROVE  ~Writes!Taken(AsReceipt(Requested))
  BY DEF Receipts, Requested, AsReceipt, Writes!Taken

LEMMA StoreStep ==
    ASSUME effects' = effects \cup {Requested}
    PROVE  ReceiptsOf(effects') = ReceiptsOf(effects) \cup {AsReceipt(Requested)}
  BY DEF ReceiptsOf

\* A call of a write tool is one write, and the turn is told the truth of it.
LEMMA CallWrites ==
    ASSUME Inv, AgreeInv, node \in Calling, CallsTool, node' \notin Calling,
           turn.tool \in WriteTools, conv'.actionId = conv.actionId
    PROVE  Writes!Next
<1>1. turn'.tool = turn.tool /\ Requested' = Requested
  BY CallAgrees DEF Requested, Calling
<1>2. Told = Writes!Outcome("asked", AsReceipt(Requested))
  BY DEF Told, Writes!Outcome
<1>3. Writes!Waiting("conversation") /\ Writes!Asked("conversation") = AsReceipt(Requested)
  BY <1>2 DEF Writes!Waiting, Writes!Asked, Writes!Outcome
<1>4. ASSUME NEW x, Told' = x PROVE Writes!Tell("conversation", x)
  BY <1>4 DEF Writes!Tell
<1> DOMAIN turn = TurnFields /\ turn.unknown = FALSE
  BY DEF Inv, ShapeInv, AgreeInv, OutcomeInv, Calling
<1>5. CASE Succeed
  <2>1. turn'.status = "executed" /\ turn'.unknown = FALSE
    BY <1>5 DEF Succeed, TurnFields
  <2>2. Told' = Writes!Outcome("done", AsReceipt(Requested))
    BY <1>1, <2>1 DEF Told, Writes!Outcome, AsReceipt
  <2>3. Writes!Store(AsReceipt(Requested))
    BY <1>5, KeyIsFree, StoreStep DEF Succeed, Writes!Store, ReceiptsOf
  <2>4. Writes!Succeed("conversation")
    BY <1>3, <1>4, <2>2, <2>3 DEF Writes!Succeed
  <2> QED
    BY <2>4 DEF Writes!Next
<1>6. CASE FailTool
  <2>1. turn'.status = "failed" /\ turn'.unknown = FALSE /\ effects' = effects
    BY <1>6 DEF FailTool, TurnFields
  <2>2. Told' = Writes!Outcome("failed", AsReceipt(Requested))
    BY <1>1, <2>1 DEF Told, Writes!Outcome, AsReceipt
  <2>3. Writes!Fail("conversation")
    BY <1>3, <1>4, <2>1, <2>2 DEF Writes!Fail
  <2> QED
    BY <2>3 DEF Writes!Next
<1>7. CASE LoseOutcome
  <2>1. turn'.unknown = TRUE
    BY <1>7 DEF LoseOutcome, TurnFields
  <2>2. Told' = Writes!Outcome("unknown", AsReceipt(Requested))
    BY <1>1, <2>1 DEF Told, Writes!Outcome, AsReceipt
  <2>3. Writes!Store(AsReceipt(Requested)) \/ effects' = effects
    BY <1>7, KeyIsFree, StoreStep DEF LoseOutcome, Writes!Store, ReceiptsOf
  <2>4. Writes!Lose("conversation")
    BY <1>3, <1>4, <2>2, <2>3 DEF Writes!Lose
  <2> QED
    BY <2>4 DEF Writes!Next
<1> QED
  BY <1>5, <1>6, <1>7 DEF CallsTool

LEMMA CrashWrites ==
    ASSUME Inv, AgreeInv, Crash
    PROVE  Writes!Next
<1>1. Told' = Writes!Nothing /\ Writes!Tell("conversation", Writes!Nothing)
  <2>1. Told' = Writes!Nothing
    BY NoTurnAgrees DEF Crash, Told, Writes!Nothing
  <2> QED
    BY <2>1 DEF Writes!Tell
<1>2. CASE node \in Calling /\ turn.tool \in WriteTools
  <2>1. Told = Writes!Outcome("asked", AsReceipt(Requested))
    BY <1>2 DEF Told, Writes!Outcome
  <2>2. Writes!Waiting("conversation") /\ Writes!Asked("conversation") = AsReceipt(Requested)
    BY <2>1 DEF Writes!Waiting, Writes!Asked, Writes!Outcome
  <2>3. Writes!Store(AsReceipt(Requested)) \/ effects' = effects
    BY KeyIsFree, StoreStep DEF Crash, Writes!Store, ReceiptsOf
  <2>4. Writes!Lose("conversation")
    BY <1>1, <2>2, <2>3 DEF Writes!Lose
  <2> QED
    BY <2>4 DEF Writes!Next
<1>3. CASE ~(node \in Calling /\ turn.tool \in WriteTools)
  <2>1. effects' = effects
    BY <1>3 DEF Crash, Calling
  <2>2. Told.kind # "asked"
    BY <1>3 DEF Told
  <2>3. Writes!Forget("conversation")
    BY <1>1, <2>1, <2>2 DEF Writes!Forget, Writes!Waiting
  <2> QED
    BY <2>3 DEF Writes!Next
<1> QED
  BY <1>2, <1>3

\* The nodes that call no tool: the request is made at the last of them.
LEMMA NodeWrites ==
    ASSUME Inv, AgreeInv, Inv', Node, node \notin Calling
    PROVE  Writes!Next \/ (Told' = Told /\ effects' = effects)
<1>0. node # "idle"
  BY DEF Node, SecurityBoundary, RetrieveMemory, CheckPending, ResumeWorkflow, RestorePending,
         RestoreSuspended, UnderstandRequest, HandleInterruption, CompileDecision, ValidateTool,
         EvaluatePolicy, CreatePending, Revalidate, Execute, EscalateToHuman, MemoryAction,
         RetrieveKnowledge, Respond
<1>1. CASE node = "respond"
  <2>1. Respond
    BY <1>1 DEF Node, SecurityBoundary, RetrieveMemory, CheckPending, ResumeWorkflow, RestorePending,
         RestoreSuspended, UnderstandRequest, HandleInterruption, CompileDecision, ValidateTool,
         EvaluatePolicy, CreatePending, Revalidate, Execute, EscalateToHuman, MemoryAction,
         RetrieveKnowledge
  <2>2. turn' = NoTurn /\ effects' = effects
    BY <2>1 DEF Respond, Business
  <2>3. Told' = Writes!Nothing
    BY <2>2, NoTurnAgrees DEF Told, Writes!Nothing
  <2>4. Told.kind # "asked"
    BY <1>1 DEF Told, Calling
  <2>5. Writes!Forget("conversation")
    BY <2>2, <2>3, <2>4 DEF Writes!Forget, Writes!Waiting, Writes!Tell
  <2> QED
    BY <2>5 DEF Writes!Next
<1>2. CASE node = "retrieve_knowledge"
  <2>1. RetrieveKnowledge
    BY <1>2 DEF Node, SecurityBoundary, RetrieveMemory, CheckPending, ResumeWorkflow, RestorePending,
         RestoreSuspended, UnderstandRequest, HandleInterruption, CompileDecision, ValidateTool,
         EvaluatePolicy, CreatePending, Revalidate, Execute, EscalateToHuman, MemoryAction, Respond
  <2>2. /\ node' = "respond" /\ UNCHANGED <<conv, effects>>
        /\ turn'.tool = turn.tool /\ turn'.order = turn.order /\ turn'.status = turn.status
        /\ turn'.unknown = turn.unknown
    BY <2>1 DEF RetrieveKnowledge, Business, Inv, ShapeInv, TurnFields
  <2> QED
    BY <1>2, <2>2 DEF Told, Requested, AsReceipt, Calling
<1>3. CASE node \notin {"respond", "retrieve_knowledge"}
  <2>1. /\ effects' = effects /\ node' # "idle"
        /\ turn'.status \notin {"executed", "failed"} /\ turn'.unknown = FALSE
    BY <1>0, <1>3, StatusKept
  <2>2. Told = Writes!Nothing
    <3>1. turn.status = None /\ turn.unknown = FALSE
      BY <1>3 DEF AgreeInv, OutcomeInv
    <3> QED
      BY <3>1, NothingTold DEF None
  <2>3. CASE node' \in Calling /\ turn'.tool \in WriteTools
    <3>1. Requested' \in [id : ActionIds \ {0}, tool : WriteTools, order : Orders \cup {None}]
      BY <2>3, NextRequest
    <3>2. AsReceipt(Requested)' \in [op : WriteTools, key : ActionIds \ {0}, order : Orders \cup {None}]
      BY <3>1 DEF AsReceipt
    <3>3. Told' = Writes!Outcome("asked", AsReceipt(Requested)')
      BY <2>3 DEF Told, Writes!Outcome
    <3>4. Writes!Ask("conversation", AsReceipt(Requested)')
      BY <2>1, <2>2, <3>3 DEF Writes!Ask, Writes!Waiting, Writes!Tell, Writes!Nothing
    <3> QED
      BY <3>2, <3>4 DEF Writes!Next
  <2>4. CASE ~(node' \in Calling /\ turn'.tool \in WriteTools)
    <3>1. Told' = Writes!Nothing
      BY <2>1, <2>4 DEF Told, Writes!Nothing
    <3> QED
      BY <2>1, <2>2, <3>1
  <2> QED
    BY <2>3, <2>4
<1> QED
  BY <1>1, <1>2, <1>3

LEMMA WriteStep ==
    ASSUME Inv, AgreeInv, Inv', [Next]_vars
    PROVE  Writes!Next \/ (Told' = Told /\ effects' = effects)
<1>1. CASE Node /\ node \notin Calling
  BY <1>1, NodeWrites
<1>2. CASE Node /\ node \in Calling
  <2>1. Execute \/ EscalateToHuman
    BY <1>2 DEF Node, Calling, SecurityBoundary, RetrieveMemory, CheckPending, ResumeWorkflow,
         RestorePending, RestoreSuspended, UnderstandRequest, HandleInterruption, CompileDecision,
         ValidateTool, EvaluatePolicy, CreatePending, Revalidate, MemoryAction, RetrieveKnowledge, Respond
  <2>2. CallsTool /\ node' \in {"retrieve_knowledge", "respond"} /\ conv'.actionId = conv.actionId
    BY <2>1 DEF Execute, EscalateToHuman, CallsTool, AfterExecution, Finished, Inv, ShapeInv, ConvFields
  <2>3. CASE turn.tool \in WriteTools
    BY <1>2, <2>2, <2>3, CallWrites DEF Calling
  <2>4. CASE turn.tool \notin WriteTools
    <3>1. turn'.tool = turn.tool
      BY <1>2, <2>2, CallAgrees DEF Calling
    <3>2. effects' = effects
      BY <2>2, <2>4 DEF CallsTool, Succeed, FailTool, LoseOutcome
    <3> QED
      BY <2>4, <3>1, <3>2 DEF Told
  <2> QED
    BY <2>3, <2>4
<1>3. CASE Crash
  BY <1>3, CrashWrites
<1>4. CASE \E m \in Messages : Receive(m)
  <2>1. PICK m \in Messages : Receive(m)
    BY <1>4
  <2>2. node = "idle" /\ node' = "security_boundary" /\ effects' = effects
    BY <2>1 DEF Receive, Business
  <2>3. turn'.tool = None
    BY <2>1, NoTurnAgrees DEF Receive, NoTurn
  <2>4. turn.status = None /\ turn.unknown = FALSE
    BY <2>2 DEF AgreeInv, OutcomeInv
  <2>5. Told = Writes!Nothing
    BY <2>2, <2>4, NothingTold DEF None, Calling
  <2>6. Told' = Writes!Nothing
    BY <2>3, NoTurnAgrees DEF Told, Writes!Nothing
  <2> QED
    BY <2>2, <2>5, <2>6
<1>5. CASE UNCHANGED vars
  BY <1>5 DEF vars, Told, Requested, AsReceipt
<1> QED
  BY <1>1, <1>2, <1>3, <1>4, <1>5 DEF Next

\* The graph asks for a write at most once per turn and keeps what it is told about it:
\* a conversation uses execute_tool as the interface of IdempotentWrites offers it.
THEOREM ImplementsWrites == Spec => WriteSpec
<1>1. Init => Writes!Init
  <2> SUFFICES ASSUME Init PROVE Writes!Init
    OBVIOUS
  <2>1. Told = Writes!Nothing
    BY NoTurnAgrees DEF Init, Told, Writes!Nothing
  <2> QED
    BY <2>1 DEF Init, Writes!Init
<1>2. Inv /\ AgreeInv /\ Inv' /\ [Next]_vars => [Writes!Next]_Writes!vars
  BY WriteStep DEF Writes!vars
<1> QED
  BY <1>1, <1>2, Invariant, Agreement, PTL DEF Spec, WriteSpec, Writes!Spec
=============================================================================
