-------------------------- MODULE AgentGraph_proofs --------------------------
(***************************************************************************)
(* What the graph of a conversation guarantees about the actions that need *)
(* the user's consent, for any orders, messages, proposals, faults and     *)
(* bounds.                                                                 *)
(***************************************************************************)
EXTENDS AgentGraph, TLAPS

ConvFields == {"pending", "actionId", "suspended", "decision", "missing", "active", "said", "doubted"}
TurnFields == {"message", "offered", "asked", "confirmation", "proposal", "interrupts",
               "interruption", "compiled", "tool", "order", "retrieval", "knowledge",
               "unavailable", "status", "unknown", "replay", "wrote", "signal", "memory",
               "error", "failure"}

\* An action of the conversation, live or set aside, when the next identifier is n.
Sound(a, n) == /\ a \in PendingActions
               /\ IsAction(a) => a.tool \in ConfirmedTools /\ a.id \in 1..n - 1
               /\ ~IsAction(a) => a = NoPending

ShapeInv ==
    /\ DOMAIN conv = ConvFields /\ DOMAIN turn = TurnFields
    /\ turn.order \in Orders \cup {None}
    /\ turn.message \in Messages \/ node = "idle"
    /\ Sound(conv.pending, fresh) /\ Sound(conv.suspended.action, fresh)
    /\ conv.actionId \in 0..fresh - 1
    /\ conv.said \subseteq Orders
    /\ conv.missing \subseteq Fields /\ conv.suspended.missing \subseteq Fields
    /\ reply.about.id \in ActionIds
    /\ fresh \in 1..MaxActions + 1
    /\ effects \subseteq [id : ActionIds \ {0}, tool : WriteTools, order : Orders \cup {None}]

\* The action that waited when the message arrived, and that the message confirmed.
Approved ==
    /\ conv.pending.status = "CONFIRMED"
    /\ turn.offered.status = "PENDING" /\ What(turn.offered) = What(conv.pending)
    /\ Confirms(turn.message)

BeforePolicy == {"security_boundary", "retrieve_memory", "check_pending_action", "resume_workflow",
                 "restore_suspended_workflow", "understand_request", "handle_workflow_interruption",
                 "restore_pending_action", "compile_decision", "validate_tool", "evaluate_policy"}

\* What is known at each node.
FlowInv ==
    /\ node \in BeforePolicy => fresh <= MaxActions
    /\ node \in {"security_boundary", "retrieve_memory", "check_pending_action"}
          => turn.offered = conv.pending /\ turn.confirmation = None
    /\ node \in {"restore_pending_action", "policy_revalidation", "execute_confirmed_action"}
          => Approved
    /\ node = "restore_pending_action" => turn.confirmation = "confirmed"
    /\ node \in {"compile_decision", "validate_tool"}
          => IF turn.confirmation = "confirmed" THEN Approved ELSE ~IsAction(conv.pending)
    /\ node \in {"understand_request", "handle_workflow_interruption"}
          => /\ turn.confirmation # "confirmed"
             /\ IsAction(conv.pending) => conv.pending.status = "PENDING" /\ turn.interrupts = TRUE
    /\ node = "resume_workflow" => turn.confirmation # "confirmed"
    /\ node \in {"resume_workflow", "restore_suspended_workflow", "evaluate_policy",
                 "create_pending_action", "execute_tool", "execute_human_escalation"}
          => ~IsAction(conv.pending)
    /\ node \in {"create_pending_action", "execute_tool", "execute_human_escalation"}
          => conv.actionId # 0
    /\ node = "create_pending_action" => turn.tool \in ConfirmedTools
    /\ node = "execute_tool" => turn.tool \notin ConfirmedTools
    /\ node = "execute_human_escalation" => turn.tool = "escalate_to_human"
    /\ node = "execute_confirmed_action"
          => turn.tool = conv.pending.tool /\ turn.order = conv.pending.order

\* The keys, and that an action set aside still waits.
KeyInv ==
    /\ PendingOwnsTheKey
    /\ IsAction(conv.suspended.action) => conv.suspended.action.status = "PENDING"

Inv == ShapeInv /\ FlowInv /\ KeyInv

-----------------------------------------------------------------------------

LEMMA NothingSound ==
    /\ \A n : Sound(NoPending, n)
    /\ ~IsAction(NoPending) /\ NoPending.id = 0 /\ NoPending.status = None
    /\ NotSuspended.action = NoPending /\ NotSuspended.missing \subseteq Fields
  BY GraphAssumption DEF Sound, NoPending, NotSuspended, IsAction, PendingActions, ActionIds, None

LEMMA StatusChanged ==
    ASSUME NEW a, NEW n, Sound(a, n), IsAction(a), NEW status \in ActionStatuses
    PROVE  /\ Sound(WithStatus(a, status), n)
           /\ What(WithStatus(a, status)) = What(a) /\ WithStatus(a, status).id = a.id
           /\ WithStatus(a, status).tool = a.tool /\ WithStatus(a, status).order = a.order
           /\ WithStatus(a, status).status = status
           /\ IsAction(WithStatus(a, status))
  BY DEF Sound, WithStatus, What, IsAction, PendingActions, ActionStatuses, None

LEMMA InitInv == Init => Inv
<1>1. DOMAIN NewConversation = ConvFields /\ DOMAIN NoTurn = TurnFields
  BY DEF NewConversation, NoTurn, ConvFields, TurnFields
<1> QED
  BY <1>1, GraphAssumption, NothingSound
     DEF Init, Inv, ShapeInv, FlowInv, KeyInv, PendingOwnsTheKey, NewConversation, NoTurn, NoReply,
         ActionIds, BeforePolicy, None

\* What the compiler makes of a proposal names an order the user may have meant.
LEMMA CompiledShape ==
    ASSUME NEW p, NEW said, NEW doubted
    PROVE  /\ CompileProposal(p, said, doubted).order \in Orders \cup {None}
           /\ CompileProposal(p, said, doubted).missing \subseteq Fields
<1> DEFINE Good(c) == c.order \in Orders \cup {None} /\ c.missing \subseteq Fields
<1>1. \A missing \in SUBSET Fields : Good(Clarify(missing))
  BY DEF Clarify, Compiled
<1>2. Good(Rejected) /\ \A b : Good(NoAction(b))
  BY DEF Rejected, NoAction, Compiled
<1>3. \A target : OrderTarget(target) \in Orders \cup {None}
  BY OrdersAssumption DEF OrderTarget
<1>4. \A o \in Orders \cup {None} : Good(Action(p, o)) /\ Good([Action(p, o) EXCEPT !.retrieval = TRUE])
  BY DEF Action, Compiled
<1>5. {} \subseteq Fields /\ {"reason"} \subseteq Fields /\ {"order_id"} \subseteq Fields /\ {"ticket_id"} \subseteq Fields
      /\ {"category", "description"} \subseteq Fields /\ {"reason", "priority", "summary"} \subseteq Fields
  BY DEF Fields
<1> HIDE DEF Good
<1>6. Good(CompileKnowledge(p))
  BY <1>1, <1>2, <1>5 DEF CompileKnowledge
<1>7. Good(CompileMutation(p, doubted))
  BY <1>1, <1>2, <1>3, <1>4, <1>5 DEF CompileMutation
<1>8. Good(CompileRecord(p))
  BY <1>1, <1>2, <1>3, <1>4, <1>5 DEF CompileRecord
<1>9. Good(CompileRead(p))
  <2>1. Good(Action(p, None))
    BY <1>4
  <2> QED
    BY <2>1, <1>1, <1>2, <1>3, <1>4, <1>5 DEF CompileRead
<1>10. Good(CompileMixed(p))
  BY <1>1, <1>2, <1>3, <1>4, <1>5 DEF CompileMixed
<1>11. Good(CompileProposal(p, said, doubted))
  BY <1>1, <1>2, <1>5, <1>6, <1>7, <1>8, <1>9, <1>10 DEF CompileProposal
<1> QED
  BY <1>11 DEF Good

-----------------------------------------------------------------------------
(* Each node preserves the invariant.                                      *)

LEMMA ReceiveInv ==
    ASSUME Inv, NEW m \in Messages, Receive(m)
    PROVE  Inv'
<1>1. m.order \in Orders \cup {None}
  BY GraphAssumption DEF MessageSpace
<1>2. ShapeInv'
  BY <1>1, GraphAssumption DEF Receive, Inv, ShapeInv, Business, NoTurn, NoReply, TurnFields, ConvFields, ActionIds,
              Sound, IsAction
<1>3. FlowInv' /\ KeyInv'
  BY DEF Receive, Inv, ShapeInv, FlowInv, KeyInv, PendingOwnsTheKey, Business, NoTurn, ConvFields,
         BeforePolicy, IsAction
<1> QED
  BY <1>2, <1>3 DEF Inv

\* A step that leaves the conversation, the identifiers and the writes alone.
LEMMA QuietShape ==
    ASSUME Inv, UNCHANGED <<conv, Business, reply>>, turn'.order \in Orders \cup {None},
           turn'.message = turn.message, DOMAIN turn' = TurnFields, node # "idle"
    PROVE  ShapeInv'
  BY DEF Inv, ShapeInv, Business

LEMMA SecurityInv ==
    ASSUME Inv, SecurityBoundary
    PROVE  Inv'
<1> node = "security_boundary" /\ UNCHANGED <<Business, reply>>
  BY DEF SecurityBoundary
<1>1. CASE turn.message.kind = "override"
  <2>1. SecurityBlock /\ node' = "respond"
    BY <1>1 DEF SecurityBoundary
  <2>2. /\ conv'.pending = IF conv.pending.status = "PENDING" THEN WithStatus(conv.pending, "REJECTED") ELSE conv.pending
        /\ conv'.suspended = NotSuspended /\ conv'.missing = {}
        /\ conv'.actionId = conv.actionId /\ conv'.said = conv.said /\ DOMAIN conv' = ConvFields
    BY <2>1 DEF SecurityBlock, Inv, ShapeInv, ConvFields
  <2>3. DOMAIN turn' = TurnFields /\ turn'.order = turn.order /\ turn'.message = turn.message
    BY <2>1 DEF SecurityBlock, Inv, ShapeInv, TurnFields
  <2>4. Sound(conv'.pending, fresh) /\ conv'.pending.status \in {conv.pending.status, "REJECTED"}
        /\ (conv'.pending.status \in {"PENDING", "CONFIRMED"} => conv'.pending = conv.pending)
    BY <2>2, StatusChanged DEF Inv, ShapeInv, IsAction, ActionStatuses, None
  <2>5. ShapeInv'
    BY <2>2, <2>3, <2>4, NothingSound DEF Inv, ShapeInv, Business
  <2>6. FlowInv' /\ KeyInv'
    BY <2>1, <2>2, <2>4, NothingSound DEF Inv, FlowInv, KeyInv, PendingOwnsTheKey, BeforePolicy
  <2> QED
    BY <2>5, <2>6 DEF Inv
<1>2. CASE turn.message.kind = "foreign"
  <2>1. OwnershipBlock /\ node' = "respond"
    BY <1>2 DEF SecurityBoundary
  <2>2. /\ conv'.pending = NoPending /\ DOMAIN conv' = ConvFields
        /\ conv'.actionId = conv.actionId /\ conv'.suspended = conv.suspended
        /\ conv'.said = conv.said /\ conv'.missing = conv.missing
    BY <2>1 DEF OwnershipBlock, Inv, ShapeInv, ConvFields
  <2>3. DOMAIN turn' = TurnFields /\ turn'.order = turn.order /\ turn'.message = turn.message
    BY <2>1 DEF OwnershipBlock, Inv, ShapeInv, TurnFields
  <2>4. ShapeInv'
    BY <2>2, <2>3, NothingSound DEF Inv, ShapeInv, Business
  <2>5. IsAction(conv.suspended.action) => conv.suspended.action.id # 0
    BY DEF Inv, ShapeInv, Sound
  <2>6. FlowInv' /\ KeyInv'
    BY <2>1, <2>2, <2>5, NothingSound DEF Inv, FlowInv, KeyInv, PendingOwnsTheKey, BeforePolicy, None
  <2> QED
    BY <2>4, <2>6 DEF Inv
<1>3. CASE turn.message.kind \notin {"override", "foreign"}
  <2>1. UNCHANGED <<conv, turn>> /\ node' = "retrieve_memory"
    BY <1>3 DEF SecurityBoundary
  <2> QED
    BY <2>1 DEF Inv, ShapeInv, FlowInv, KeyInv, PendingOwnsTheKey, Business, BeforePolicy
<1> QED
  BY <1>1, <1>2, <1>3

LEMMA MemoryInv ==
    ASSUME Inv, RetrieveMemory
    PROVE  Inv'
<1>1. /\ node = "retrieve_memory" /\ node' = "check_pending_action" /\ UNCHANGED <<conv, Business, reply>>
      /\ DOMAIN turn' = TurnFields
      /\ \A f \in {"order", "message", "offered", "confirmation"} : turn'[f] = turn[f]
  BY DEF RetrieveMemory, Inv, ShapeInv, TurnFields
<1>2. ShapeInv'
  BY <1>1, QuietShape DEF Inv, ShapeInv
<1>3. FlowInv' /\ KeyInv'
  BY <1>1 DEF Inv, FlowInv, KeyInv, PendingOwnsTheKey, Business, BeforePolicy
<1> QED
  BY <1>2, <1>3 DEF Inv

\* What check_pending_action finds is passed on; only a waiting action is decided.
LEMMA CheckInv ==
    ASSUME Inv, CheckPending
    PROVE  Inv'
<1> node = "check_pending_action" /\ UNCHANGED <<Business, reply>>
  BY DEF CheckPending
<1>1. PICK confirmation, pending :
        /\ conv' = [conv EXCEPT !.pending = pending]
        /\ turn'.confirmation = confirmation /\ DOMAIN turn' = TurnFields
        /\ turn'.interrupts = (confirmation = "inspect_interruption")
        /\ turn'.order = turn.order /\ turn'.message = turn.message /\ turn'.offered = turn.offered
        /\ node' = AfterPending(confirmation, conv.active)
        /\ \/ /\ ~IsAction(conv.pending) /\ confirmation = NothingPending(turn.message)
              /\ pending = conv.pending
           \/ /\ conv.pending.status = "PENDING"
              /\ \E expired \in BOOLEAN : confirmation = ConfirmationOf(turn.message, expired)
              /\ pending = WithStatus(conv.pending, StatusAfter(confirmation))
           \/ /\ IsAction(conv.pending) /\ conv.pending.status # "PENDING"
              /\ \/ confirmation = "no_pending" /\ pending = conv.pending
                 \/ confirmation = "normal" /\ pending = NoPending
  <2> DEFINE Found(confirmation, pending) ==
               /\ conv' = [conv EXCEPT !.pending = pending]
               /\ turn' = [turn EXCEPT !.confirmation = confirmation,
                               !.interrupts = confirmation = "inspect_interruption",
                               !.replay = conv.pending.status = "EXECUTED"
                                          /\ confirmation = "no_pending"]
               /\ node' = AfterPending(confirmation, conv.active)
             Fits(confirmation, pending) ==
               \/ /\ ~IsAction(conv.pending) /\ confirmation = NothingPending(turn.message)
                  /\ pending = conv.pending
               \/ /\ conv.pending.status = "PENDING"
                  /\ \E expired \in BOOLEAN : confirmation = ConfirmationOf(turn.message, expired)
                  /\ pending = WithStatus(conv.pending, StatusAfter(confirmation))
               \/ /\ IsAction(conv.pending) /\ conv.pending.status # "PENDING"
                  /\ \/ confirmation = "no_pending" /\ pending = conv.pending
                     \/ confirmation = "normal" /\ pending = NoPending
  <2>1. \/ ~IsAction(conv.pending) /\ Found(NothingPending(turn.message), conv.pending)
        \/ /\ conv.pending.status = "PENDING"
           /\ \E expired \in BOOLEAN :
                LET c == ConfirmationOf(turn.message, expired)
                IN Found(c, WithStatus(conv.pending, StatusAfter(c)))
        \/ /\ IsAction(conv.pending) /\ conv.pending.status # "PENDING"
           /\ Found("no_pending", conv.pending) \/ Found("normal", NoPending)
    BY DEF CheckPending
  <2> HIDE DEF Found
  <2>2. PICK confirmation, pending : Found(confirmation, pending) /\ Fits(confirmation, pending)
    BY <2>1
  <2>3. DOMAIN turn = TurnFields
    BY DEF Inv, ShapeInv
  <2>4. /\ turn'.confirmation = confirmation /\ DOMAIN turn' = TurnFields
        /\ turn'.interrupts = (confirmation = "inspect_interruption")
        /\ turn'.order = turn.order /\ turn'.message = turn.message
        /\ turn'.offered = turn.offered
    BY <2>2, <2>3 DEF Found, TurnFields
  <2> QED
    BY <2>2, <2>4 DEF Found
<1>2. /\ conv'.pending = pending /\ DOMAIN conv' = ConvFields
      /\ conv'.actionId = conv.actionId /\ conv'.suspended = conv.suspended
      /\ conv'.said = conv.said /\ conv'.missing = conv.missing
  BY <1>1 DEF Inv, ShapeInv, ConvFields
<1>3. /\ conv.pending.status = "PENDING" => IsAction(conv.pending)
      /\ StatusAfter(confirmation) \in ActionStatuses
  BY DEF IsAction, StatusAfter, ActionStatuses, None
<1>4. /\ Sound(pending, fresh)
      /\ pending.status \in {"PENDING", "CONFIRMED"} => What(pending) = What(conv.pending)
      /\ pending.id \in {conv.pending.id, 0}
  BY <1>1, <1>3, StatusChanged, NothingSound DEF Inv, ShapeInv, None
<1>5. ShapeInv'
  BY <1>1, <1>2, <1>4 DEF Inv, ShapeInv, Business
<1>6. KeyInv'
  <2>1. pending.status \in {"PENDING", "CONFIRMED"} => conv.pending.status \in {"PENDING", "CONFIRMED"} /\ pending.id = conv.pending.id
    BY <1>1, <1>3, StatusChanged, NothingSound DEF Inv, ShapeInv, IsAction, None
  <2>2. IsAction(conv.suspended.action) => conv.suspended.action.id # 0
    BY DEF Inv, ShapeInv, Sound
  <2> QED
    BY <1>2, <1>4, <2>1, <2>2 DEF Inv, KeyInv, PendingOwnsTheKey
<1>7. FlowInv'
  <2>1. /\ turn.offered = conv.pending /\ fresh <= MaxActions /\ fresh' = fresh
        /\ turn'.offered = conv.pending
    BY <1>1 DEF Inv, FlowInv, BeforePolicy, Business
  <2>2. CASE confirmation = "confirmed"
    <3>1. /\ conv.pending.status = "PENDING" /\ Confirms(turn.message)
          /\ pending = WithStatus(conv.pending, "CONFIRMED")
      BY <2>2, <1>1 DEF NothingPending, ConfirmationOf, StatusAfter
    <3>2. Sound(conv.pending, fresh) /\ IsAction(conv.pending) /\ "CONFIRMED" \in ActionStatuses
      BY <3>1, <1>3 DEF Inv, ShapeInv, ActionStatuses
    <3>3. pending.status = "CONFIRMED" /\ What(pending) = What(conv.pending)
      BY <3>1, <3>2, StatusChanged
    <3>4. turn'.offered.status = "PENDING" /\ What(turn.offered) = What(conv.pending)
      BY <3>1, <2>1
    <3>5. Approved'
      BY <3>1, <3>3, <3>4, <1>1, <1>2 DEF Approved, What, Confirms
    <3>6. node' = "restore_pending_action"
      BY <2>2, <1>1 DEF AfterPending
    <3> QED
      BY <1>1, <2>1, <2>2, <3>5, <3>6 DEF FlowInv
  <2>3. CASE confirmation = "inspect_interruption"
    <3>1. conv.pending.status = "PENDING" /\ pending = WithStatus(conv.pending, "PENDING")
      BY <2>3, <1>1 DEF NothingPending, StatusAfter
    <3>2. Sound(conv.pending, fresh) /\ IsAction(conv.pending) /\ "PENDING" \in ActionStatuses
      BY <3>1, <1>3 DEF Inv, ShapeInv, ActionStatuses
    <3>3. pending.status = "PENDING"
      BY <3>1, <3>2, StatusChanged
    <3>4. node' = "understand_request" /\ turn'.interrupts = TRUE
      BY <2>3, <1>1 DEF AfterPending
    <3> QED
      BY <1>1, <1>2, <2>1, <2>3, <3>3, <3>4 DEF FlowInv
  <2>4. CASE confirmation \in {"normal", "resume_suspended"}
    <3>1. ~IsAction(pending)
      BY <2>4, <1>1, NothingSound DEF ConfirmationOf
    <3>2. node' \in {"resume_workflow", "understand_request", "restore_suspended_workflow"}
      BY <2>4, <1>1 DEF AfterPending
    <3> QED
      BY <1>1, <1>2, <2>1, <2>4, <3>1, <3>2 DEF FlowInv
  <2>5. CASE confirmation \notin {"confirmed", "inspect_interruption", "normal", "resume_suspended"}
    <3>1. node' = "respond"
      BY <2>5, <1>1 DEF AfterPending
    <3> QED
      BY <3>1 DEF FlowInv, BeforePolicy
  <2> QED
    BY <2>2, <2>3, <2>4, <2>5
<1> QED
  BY <1>5, <1>6, <1>7 DEF Inv

LEMMA ResumeInv ==
    ASSUME Inv, ResumeWorkflow
    PROVE  Inv'
<1> node = "resume_workflow" /\ UNCHANGED <<Business, reply>>
  BY DEF ResumeWorkflow
<1>1. /\ conv'.pending = conv.pending /\ DOMAIN conv' = ConvFields
      /\ conv'.actionId = conv.actionId /\ conv'.suspended = conv.suspended
      /\ conv'.said = conv.said /\ conv'.missing \subseteq conv.missing
  <2>1. CASE conv.decision = NoProposal \/ conv.missing = {}
    BY <2>1 DEF ResumeWorkflow, Inv, ShapeInv, ConvFields
  <2>2. CASE /\ ~(conv.decision = NoProposal \/ conv.missing = {})
             /\ "order_id" \in conv.missing /\ turn.message.kind # "number"
    BY <2>2 DEF ResumeWorkflow, Inv, ShapeInv
  <2>3. CASE /\ ~(conv.decision = NoProposal \/ conv.missing = {})
             /\ ~("order_id" \in conv.missing /\ turn.message.kind # "number")
    <3>1. PICK filled, decision :
            /\ filled \subseteq conv.missing
            /\ conv' = [conv EXCEPT !.missing = filled, !.active = filled # {}, !.decision = decision]
      <4>1. PICK supported \in {"given", "invented"} :
              LET f == FollowUps(conv.decision, conv.missing, turn.message, supported)
              IN conv' = [conv EXCEPT !.missing = f.missing, !.active = f.missing # {},
                                      !.decision = IF f.missing # {} THEN f.decision ELSE @]
        BY <2>3 DEF ResumeWorkflow
      <4>2. FollowUps(conv.decision, conv.missing, turn.message, supported).missing
              \subseteq conv.missing
        BY DEF FollowUps
      <4> QED
        BY <4>1, <4>2
    <3> QED
      BY <3>1 DEF Inv, ShapeInv, ConvFields
  <2> QED
    BY <2>1, <2>2, <2>3
<1>2. /\ DOMAIN turn' = TurnFields /\ turn'.order = turn.order /\ turn'.message = turn.message
      /\ turn'.confirmation = turn.confirmation
  BY DEF ResumeWorkflow, Inv, ShapeInv, TurnFields
<1>3. node' \in {"understand_request", "respond", "compile_decision"}
  BY DEF ResumeWorkflow
<1>4. ShapeInv'
  BY <1>1, <1>2 DEF Inv, ShapeInv, Business
<1>5. FlowInv' /\ KeyInv'
  BY <1>1, <1>2, <1>3 DEF Inv, FlowInv, KeyInv, PendingOwnsTheKey, BeforePolicy, Business
<1> QED
  BY <1>4, <1>5 DEF Inv

LEMMA RestorePendingInv ==
    ASSUME Inv, RestorePending
    PROVE  Inv'
<1>1. /\ node = "restore_pending_action" /\ node' = "compile_decision"
      /\ UNCHANGED <<conv, Business, reply>>
      /\ DOMAIN turn' = TurnFields /\ turn'.order = conv.pending.order
      /\ turn'.message = turn.message /\ turn'.offered = turn.offered
      /\ turn'.confirmation = turn.confirmation
  BY DEF RestorePending, Inv, ShapeInv, TurnFields
<1>2. ShapeInv'
  BY <1>1, QuietShape DEF Inv, ShapeInv, Sound, PendingActions
<1>3. FlowInv' /\ KeyInv'
  BY <1>1 DEF Inv, FlowInv, KeyInv, PendingOwnsTheKey, Business, BeforePolicy, Approved
<1> QED
  BY <1>2, <1>3 DEF Inv

LEMMA RestoreSuspendedInv ==
    ASSUME Inv, RestoreSuspended
    PROVE  Inv'
<1>1. /\ node = "restore_suspended_workflow" /\ node' = "respond" /\ UNCHANGED <<Business, reply>>
      /\ conv'.pending = conv.suspended.action /\ conv'.suspended = NotSuspended
      /\ conv'.actionId = IF IsAction(conv.suspended.action) THEN conv.suspended.action.id
                          ELSE conv.actionId
      /\ conv'.missing = conv.suspended.missing /\ conv'.said = conv.said /\ DOMAIN conv' = ConvFields
  BY DEF RestoreSuspended, Inv, ShapeInv, ConvFields
<1>2. /\ DOMAIN turn' = TurnFields /\ turn'.order = conv.suspended.action.order
      /\ turn'.message = turn.message
  BY DEF RestoreSuspended, Inv, ShapeInv, TurnFields
<1>3. conv'.actionId \in 0..fresh - 1 /\ turn'.order \in Orders \cup {None}
  BY <1>1, <1>2 DEF Inv, ShapeInv, Sound, PendingActions
<1>4. ShapeInv'
  BY <1>1, <1>2, <1>3, NothingSound DEF Inv, ShapeInv, Business
<1>5. FlowInv' /\ KeyInv'
  BY <1>1, NothingSound DEF Inv, FlowInv, KeyInv, PendingOwnsTheKey, BeforePolicy, IsAction, None
<1> QED
  BY <1>4, <1>5 DEF Inv

LEMMA UnderstandInv ==
    ASSUME Inv, UnderstandRequest
    PROVE  Inv'
<1>1. /\ node = "understand_request" /\ UNCHANGED <<conv, Business, reply>>
      /\ node' \in {AfterUnderstanding, "respond"}
      /\ DOMAIN turn' = TurnFields /\ turn'.order = turn.order /\ turn'.message = turn.message
      /\ turn'.confirmation = turn.confirmation /\ turn'.interrupts = turn.interrupts
  BY DEF UnderstandRequest, ProviderFails, Inv, ShapeInv, TurnFields
<1>2. ShapeInv'
  BY <1>1, QuietShape DEF Inv, ShapeInv
<1>3. FlowInv' /\ KeyInv'
  BY <1>1 DEF Inv, FlowInv, KeyInv, PendingOwnsTheKey, Business, BeforePolicy, AfterUnderstanding
<1> QED
  BY <1>2, <1>3 DEF Inv

LEMMA InterruptionInv ==
    ASSUME Inv, HandleInterruption
    PROVE  Inv'
<1> node = "handle_workflow_interruption" /\ UNCHANGED <<Business, reply>>
  BY DEF HandleInterruption
<1>1. CASE UNCHANGED conv /\ node' = "respond"
  <2>1. DOMAIN turn' = TurnFields /\ turn'.order = turn.order /\ turn'.message = turn.message
    BY <1>1 DEF HandleInterruption, Inv, ShapeInv, TurnFields
  <2>2. ShapeInv'
    BY <1>1, <2>1, QuietShape DEF Inv, ShapeInv
  <2>3. FlowInv' /\ KeyInv'
    BY <1>1 DEF Inv, FlowInv, KeyInv, PendingOwnsTheKey, BeforePolicy
  <2> QED
    BY <2>2, <2>3 DEF Inv
<1>2. CASE ~(UNCHANGED conv /\ node' = "respond")
  <2>1. PICK saved \in {NotSuspended, Suspended} :
          conv' = Interrupted(saved) /\ node' = "compile_decision"
          /\ turn'.confirmation = "interrupted"
          /\ DOMAIN turn' = TurnFields /\ turn'.order = turn.order /\ turn'.message = turn.message
    BY <1>2 DEF HandleInterruption, Inv, ShapeInv, TurnFields
  <2>2. /\ conv'.pending = NoPending /\ conv'.actionId = 0 /\ conv'.missing = {}
        /\ conv'.suspended = saved /\ conv'.said = conv.said /\ DOMAIN conv' = ConvFields
    BY <2>1 DEF Interrupted, Inv, ShapeInv, ConvFields
  <2>3. /\ Sound(saved.action, fresh) /\ saved.missing \subseteq Fields
        /\ IsAction(saved.action) => saved.action.status = "PENDING" /\ saved.action.id # 0
    BY <2>1, NothingSound DEF Suspended, Inv, ShapeInv, FlowInv, Sound
  <2>4. ShapeInv'
    BY <2>1, <2>2, <2>3, NothingSound DEF Inv, ShapeInv, Business
  <2>5. FlowInv'
    BY <2>1, <2>2, NothingSound DEF Inv, FlowInv, BeforePolicy, Business
  <2>6. KeyInv'
    BY <2>2, <2>3, NothingSound DEF KeyInv, PendingOwnsTheKey, None
  <2> QED
    BY <2>4, <2>5, <2>6 DEF Inv
<1> QED
  BY <1>1, <1>2

LEMMA CompileInv ==
    ASSUME Inv, CompileDecision
    PROVE  Inv'
<1> DEFINE compiled == CompileProposal(turn.proposal, conv.said, conv.doubted)
<1>1. /\ node = "compile_decision" /\ UNCHANGED <<Business, reply>>
      /\ conv'.pending = conv.pending /\ conv'.actionId = conv.actionId
      /\ conv'.suspended = conv.suspended /\ conv'.said = conv.said
      /\ conv'.missing = compiled.missing /\ DOMAIN conv' = ConvFields
  BY DEF CompileDecision, Inv, ShapeInv, ConvFields
<1>2. /\ turn'.order = compiled.order /\ DOMAIN turn' = TurnFields
      /\ turn'.message = turn.message /\ turn'.offered = turn.offered
      /\ turn'.confirmation = turn.confirmation
  BY DEF CompileDecision, Inv, ShapeInv, TurnFields
<1>3. compiled.order \in Orders \cup {None} /\ compiled.missing \subseteq Fields
  BY CompiledShape
<1>4. node' \in {"respond", "memory_action", "retrieve_knowledge", "validate_tool"}
  BY DEF CompileDecision, AfterSelection
<1> HIDE DEF compiled
<1>5. ShapeInv'
  BY <1>1, <1>2, <1>3 DEF Inv, ShapeInv, Business
<1>6. FlowInv' /\ KeyInv'
  BY <1>1, <1>2, <1>4 DEF Inv, FlowInv, KeyInv, PendingOwnsTheKey, BeforePolicy, Business, Approved
<1> QED
  BY <1>5, <1>6 DEF Inv

LEMMA ValidateInv ==
    ASSUME Inv, ValidateTool
    PROVE  Inv'
<1>1. /\ node = "validate_tool" /\ UNCHANGED <<conv, Business, reply>>
      /\ DOMAIN turn' = TurnFields /\ turn'.order = turn.order /\ turn'.message = turn.message
      /\ turn'.offered = turn.offered /\ turn'.confirmation = turn.confirmation
      /\ node' \in {AfterValidation, "respond"}
  BY DEF ValidateTool, Inv, ShapeInv, TurnFields
<1>2. ShapeInv'
  BY <1>1, QuietShape DEF Inv, ShapeInv
<1>3. FlowInv' /\ KeyInv'
  BY <1>1 DEF Inv, FlowInv, KeyInv, PendingOwnsTheKey, BeforePolicy, Business, Approved, AfterValidation
<1> QED
  BY <1>2, <1>3 DEF Inv

\* The identifier that is generated is no action's: the one set aside has an earlier one.
LEMMA PolicyInv ==
    ASSUME Inv, EvaluatePolicy
    PROVE  Inv'
<1> node = "evaluate_policy" /\ UNCHANGED <<effects, reply>>
  BY DEF EvaluatePolicy
<1>1. /\ fresh \in 1..MaxActions /\ fresh' \in {fresh, fresh + 1} /\ MaxActions \in Nat
      /\ turn'.order = turn.order /\ turn'.message = turn.message /\ DOMAIN turn' = TurnFields
      /\ conv'.pending = conv.pending /\ conv'.suspended = conv.suspended
      /\ conv'.said = conv.said /\ conv'.missing = conv.missing /\ DOMAIN conv' = ConvFields
  <2>1. MaxActions \in Nat /\ fresh \in 1..MaxActions + 1 /\ fresh <= MaxActions
    BY GraphAssumption DEF Inv, ShapeInv, FlowInv, BeforePolicy
  <2>2. fresh' \in {fresh, fresh + 1}
    BY DEF EvaluatePolicy
  <2>3. turn'.order = turn.order /\ turn'.message = turn.message /\ DOMAIN turn' = TurnFields
    BY DEF EvaluatePolicy, Inv, ShapeInv, TurnFields
  <2>4. /\ conv'.pending = conv.pending /\ conv'.suspended = conv.suspended
        /\ conv'.said = conv.said /\ conv'.missing = conv.missing /\ DOMAIN conv' = ConvFields
    BY DEF EvaluatePolicy, Inv, ShapeInv, ConvFields
  <2> QED
    BY <2>1, <2>2, <2>3, <2>4
<1>2. \/ node' = "respond" /\ conv'.actionId = conv.actionId /\ fresh' = fresh
      \/ /\ node' = AfterPolicy(Policy(turn.tool)) /\ turn'.tool = turn.tool
         /\ conv'.actionId = IF conv.actionId = 0 THEN fresh ELSE conv.actionId
         /\ fresh' = IF conv.actionId = 0 THEN fresh + 1 ELSE fresh
  BY DEF EvaluatePolicy, Inv, ShapeInv, ConvFields
<1>3. conv'.actionId \in 0..fresh' - 1
  BY <1>1, <1>2 DEF Inv, ShapeInv
<1>4. \A a : Sound(a, fresh) => Sound(a, fresh')
  BY <1>1 DEF Sound
<1>5. ShapeInv'
  BY <1>1, <1>3, <1>4 DEF Inv, ShapeInv
<1>6. node' # "respond" => conv'.actionId # 0
  BY <1>1, <1>2
<1>7. FlowInv'
  BY <1>1, <1>2, <1>6
     DEF Inv, FlowInv, BeforePolicy, AfterPolicy, Policy, ConfirmedTools
<1>8. KeyInv'
  <2>1. IsAction(conv.suspended.action) => conv.suspended.action.id \in 1..fresh - 1
    BY DEF Inv, ShapeInv, Sound
  <2>2. conv.pending.status \notin {"PENDING", "CONFIRMED"}
    BY DEF Inv, FlowInv, IsAction, None
  <2> QED
    BY <1>1, <1>2, <2>1, <2>2 DEF Inv, KeyInv, PendingOwnsTheKey
<1> QED
  BY <1>5, <1>7, <1>8 DEF Inv

LEMMA CreateInv ==
    ASSUME Inv, CreatePending
    PROVE  Inv'
<1> DEFINE offered == [id |-> conv.actionId, tool |-> turn.tool, order |-> turn.order,
                       status |-> "PENDING"]
<1>1. /\ node = "create_pending_action" /\ node' = "respond" /\ UNCHANGED <<Business, reply>>
      /\ conv'.pending = offered /\ conv'.actionId = conv.actionId
      /\ conv'.suspended = conv.suspended /\ conv'.said = conv.said
      /\ conv'.missing = conv.missing /\ DOMAIN conv' = ConvFields
      /\ DOMAIN turn' = TurnFields /\ turn'.order = turn.order /\ turn'.message = turn.message
  BY DEF CreatePending, Inv, ShapeInv, ConvFields, TurnFields
<1>2. /\ turn.tool \in ConfirmedTools /\ conv.actionId \in 1..fresh - 1
      /\ fresh \in 1..MaxActions + 1 /\ MaxActions \in Nat
  BY <1>1, GraphAssumption DEF Inv, ShapeInv, FlowInv
<1>3. ConfirmedTools \subseteq Tools
  <2>1. Tool("order_cancel") = "cancel_order" /\ Tool("refund_request") = "request_refund"
    BY DEF Tool, MixedIntents
  <2>2. "order_cancel" \in ActionIntents /\ "refund_request" \in ActionIntents
    BY DEF ActionIntents, Mutations
  <2> QED
    BY <2>1, <2>2 DEF ConfirmedTools, Tools
<1>4. Sound(offered, fresh)
  BY <1>2, <1>3 DEF Inv, ShapeInv, Sound, IsAction, None, PendingActions, ActionIds, ActionStatuses
<1>5. ShapeInv'
  BY <1>1, <1>4 DEF Inv, ShapeInv, Business
<1>6. FlowInv' /\ KeyInv'
  BY <1>1 DEF Inv, FlowInv, KeyInv, PendingOwnsTheKey, BeforePolicy
<1> QED
  BY <1>5, <1>6 DEF Inv

LEMMA RevalidateInv ==
    ASSUME Inv, Revalidate
    PROVE  Inv'
<1> node = "policy_revalidation" /\ UNCHANGED <<Business, reply>>
  BY DEF Revalidate
<1>1. /\ Approved /\ Sound(conv.pending, fresh) /\ IsAction(conv.pending)
      /\ "FAILED" \in ActionStatuses
  BY DEF Inv, ShapeInv, FlowInv, Approved, IsAction, None, ActionStatuses
<1>2. CASE node' = "execute_confirmed_action"
  <2>1. /\ UNCHANGED conv /\ DOMAIN turn' = TurnFields
        /\ turn'.tool = conv.pending.tool /\ turn'.order = conv.pending.order
        /\ turn'.message = turn.message /\ turn'.offered = turn.offered
    BY <1>2 DEF Revalidate, Inv, ShapeInv, TurnFields
  <2>2. ShapeInv'
    BY <1>1, <2>1, QuietShape DEF Sound, PendingActions
  <2>3. FlowInv' /\ KeyInv'
    BY <1>1, <1>2, <2>1 DEF Inv, FlowInv, KeyInv, PendingOwnsTheKey, BeforePolicy, Approved
  <2> QED
    BY <2>2, <2>3 DEF Inv
<1>3. CASE node' # "execute_confirmed_action"
  <2>1. /\ node' = "respond" /\ conv'.pending = WithStatus(conv.pending, "FAILED")
        /\ conv'.actionId = conv.actionId /\ conv'.suspended = conv.suspended
        /\ conv'.said = conv.said /\ conv'.missing = conv.missing /\ DOMAIN conv' = ConvFields
        /\ DOMAIN turn' = TurnFields /\ turn'.order = turn.order /\ turn'.message = turn.message
    BY <1>1, <1>3 DEF Revalidate, Inv, ShapeInv, ConvFields, TurnFields
  <2>2. Sound(conv'.pending, fresh) /\ conv'.pending.status = "FAILED" /\ conv'.pending.id = conv.pending.id
    BY <1>1, <2>1, StatusChanged
  <2>3. ShapeInv'
    BY <2>1, <2>2 DEF Inv, ShapeInv, Business
  <2>4. FlowInv' /\ KeyInv'
    BY <2>1, <2>2 DEF Inv, FlowInv, KeyInv, PendingOwnsTheKey, BeforePolicy
  <2> QED
    BY <2>3, <2>4 DEF Inv
<1> QED
  BY <1>2, <1>3

-----------------------------------------------------------------------------
(* The nodes that write.                                                   *)

\* A call of a tool, whatever becomes of it: at most the requested write is committed.
CallsTool == Succeed \/ FailTool \/ LoseOutcome

LEMMA CallShape ==
    ASSUME Inv, CallsTool
    PROVE  /\ effects' \subseteq effects \cup {Requested}
           /\ effects' # effects => turn.tool \in WriteTools
           /\ DOMAIN turn' = TurnFields /\ turn'.order = turn.order /\ turn'.message = turn.message
<1>1. DOMAIN turn' = TurnFields /\ turn'.order = turn.order /\ turn'.message = turn.message
  BY DEF CallsTool, Succeed, FailTool, LoseOutcome, Inv, ShapeInv, TurnFields
<1>2. effects' \subseteq effects \cup {Requested} /\ (effects' # effects => turn.tool \in WriteTools)
  BY DEF CallsTool, Succeed, FailTool, LoseOutcome
<1> QED
  BY <1>1, <1>2

\* A node that calls a tool has a key, and what it asks for is well formed.
LEMMA RequestedShape ==
    ASSUME Inv, turn.tool \in WriteTools,
           node \in {"execute_tool", "execute_confirmed_action", "execute_human_escalation"}
    PROVE  Requested \in [id : ActionIds \ {0}, tool : WriteTools, order : Orders \cup {None}]
<1>1. conv.actionId # 0
  <2>1. CASE node = "execute_confirmed_action"
    <3>1. conv.pending.status = "CONFIRMED" /\ conv.actionId = conv.pending.id
      BY <2>1 DEF Inv, FlowInv, KeyInv, PendingOwnsTheKey, Approved
    <3> QED
      BY <3>1 DEF Inv, ShapeInv, Sound, IsAction, None
  <2> QED
    BY <2>1 DEF Inv, FlowInv
<1>2. conv.actionId \in ActionIds
  BY GraphAssumption DEF Inv, ShapeInv, ActionIds
<1> QED
  BY <1>1, <1>2 DEF Requested, Inv, ShapeInv

LEMMA ExecuteInv ==
    ASSUME Inv, Execute
    PROVE  Inv'
<1>1. /\ node \in {"execute_tool", "execute_confirmed_action"} /\ UNCHANGED <<fresh, reply>>
      /\ CallsTool /\ node' \in {"retrieve_knowledge", "respond"}
  BY DEF Execute, CallsTool, AfterExecution
<1>2. PICK done \in BOOLEAN : Finished(done)
  BY DEF Execute
<1> DEFINE status == IF done THEN "EXECUTED" ELSE "FAILED"
<1>3. /\ conv'.pending = IF IsAction(conv.pending) THEN WithStatus(conv.pending, status) ELSE conv.pending
      /\ conv'.actionId = conv.actionId /\ conv'.suspended = conv.suspended
      /\ conv'.said = conv.said /\ conv'.missing = conv.missing /\ DOMAIN conv' = ConvFields
  BY <1>2 DEF Finished, Inv, ShapeInv, ConvFields
<1>4. status \in ActionStatuses /\ status \notin {"PENDING", "CONFIRMED"}
  BY DEF ActionStatuses
<1> HIDE DEF status
<1>5. /\ Sound(conv'.pending, fresh) /\ conv'.pending.id = conv.pending.id
      /\ conv'.pending.status \notin {"PENDING", "CONFIRMED"}
  BY <1>3, <1>4, StatusChanged DEF Inv, ShapeInv, IsAction, None
<1>6. effects' \subseteq [id : ActionIds \ {0}, tool : WriteTools, order : Orders \cup {None}]
  BY <1>1, CallShape, RequestedShape DEF Inv, ShapeInv
<1>7. ShapeInv'
  BY <1>1, <1>3, <1>5, <1>6, CallShape DEF Inv, ShapeInv
<1>8. FlowInv' /\ KeyInv'
  BY <1>1, <1>3, <1>5 DEF Inv, FlowInv, KeyInv, PendingOwnsTheKey, BeforePolicy
<1> QED
  BY <1>7, <1>8 DEF Inv

LEMMA EscalateInv ==
    ASSUME Inv, EscalateToHuman
    PROVE  Inv'
<1>1. /\ node = "execute_human_escalation" /\ node' = "respond" /\ UNCHANGED <<conv, fresh, reply>>
      /\ CallsTool
  BY DEF EscalateToHuman, CallsTool
<1>2. effects' \subseteq [id : ActionIds \ {0}, tool : WriteTools, order : Orders \cup {None}]
  BY <1>1, CallShape, RequestedShape DEF Inv, ShapeInv
<1>3. ShapeInv'
  BY <1>1, <1>2, CallShape DEF Inv, ShapeInv
<1>4. FlowInv' /\ KeyInv'
  BY <1>1 DEF Inv, FlowInv, KeyInv, PendingOwnsTheKey, BeforePolicy
<1> QED
  BY <1>3, <1>4 DEF Inv

-----------------------------------------------------------------------------
(* The end of a run.                                                       *)

LEMMA MemoryActionInv ==
    ASSUME Inv, MemoryAction
    PROVE  Inv'
<1>1. /\ node = "memory_action" /\ node' = "respond" /\ UNCHANGED <<conv, Business, reply>>
      /\ DOMAIN turn' = TurnFields /\ turn'.order = turn.order /\ turn'.message = turn.message
  BY DEF MemoryAction, Remember, Forget, Inv, ShapeInv, TurnFields
<1>2. ShapeInv'
  BY <1>1, QuietShape DEF Inv, ShapeInv
<1>3. FlowInv' /\ KeyInv'
  BY <1>1 DEF Inv, FlowInv, KeyInv, PendingOwnsTheKey, BeforePolicy
<1> QED
  BY <1>2, <1>3 DEF Inv

LEMMA KnowledgeInv ==
    ASSUME Inv, RetrieveKnowledge
    PROVE  Inv'
<1>1. /\ node = "retrieve_knowledge" /\ node' = "respond" /\ UNCHANGED <<conv, Business, reply>>
      /\ DOMAIN turn' = TurnFields /\ turn'.order = turn.order /\ turn'.message = turn.message
  BY DEF RetrieveKnowledge, Inv, ShapeInv, TurnFields
<1>2. ShapeInv'
  BY <1>1, QuietShape DEF Inv, ShapeInv
<1>3. FlowInv' /\ KeyInv'
  BY <1>1 DEF Inv, FlowInv, KeyInv, PendingOwnsTheKey, BeforePolicy
<1> QED
  BY <1>2, <1>3 DEF Inv

LEMMA RespondInv ==
    ASSUME Inv, Respond
    PROVE  Inv'
<1>1. /\ node' = "idle" /\ turn' = NoTurn /\ UNCHANGED <<conv, Business>>
      /\ reply'.about = About(Branches[FirstBranch][2])
  BY DEF Respond
<1>2. DOMAIN NoTurn = TurnFields /\ NoTurn.order = None
  BY DEF NoTurn, TurnFields
<1>3. /\ conv.suspended.action.id \in ActionIds /\ conv.pending.id \in ActionIds
      /\ conv.actionId \in ActionIds /\ NoPending.id \in ActionIds
  BY GraphAssumption, NothingSound DEF Inv, ShapeInv, Sound, PendingActions, ActionIds
<1>4. \A says : About(says).id \in ActionIds
  BY <1>3 DEF About, What, Requested
<1>5. ShapeInv'
  BY <1>1, <1>2, <1>4 DEF Inv, ShapeInv, Business
<1>6. FlowInv' /\ KeyInv'
  BY <1>1 DEF Inv, FlowInv, KeyInv, PendingOwnsTheKey, BeforePolicy
<1> QED
  BY <1>5, <1>6 DEF Inv

LEMMA CrashInv ==
    ASSUME Inv, Crash
    PROVE  Inv'
<1>1. node' = "idle" /\ turn' = NoTurn /\ UNCHANGED <<conv, fresh>> /\ reply'.about.id = 0
  BY DEF Crash, NoReply
<1>2. DOMAIN NoTurn = TurnFields /\ NoTurn.order = None /\ 0 \in ActionIds
  BY GraphAssumption DEF NoTurn, TurnFields, ActionIds
<1>3. effects' \subseteq [id : ActionIds \ {0}, tool : WriteTools, order : Orders \cup {None}]
  BY RequestedShape DEF Crash, Inv, ShapeInv
<1>4. ShapeInv'
  BY <1>1, <1>2, <1>3 DEF Inv, ShapeInv
<1>5. FlowInv' /\ KeyInv'
  BY <1>1 DEF Inv, FlowInv, KeyInv, PendingOwnsTheKey, BeforePolicy
<1> QED
  BY <1>4, <1>5 DEF Inv

-----------------------------------------------------------------------------
(* The theorems.                                                           *)

LEMMA Invariance == Inv /\ [Next]_vars => Inv'
<1> SUFFICES ASSUME Inv, [Next]_vars PROVE Inv'
  OBVIOUS
<1>1. CASE Node
  <2>1. CASE SecurityBoundary
    BY <2>1, SecurityInv
  <2>2. CASE RetrieveMemory
    BY <2>2, MemoryInv
  <2>3. CASE CheckPending
    BY <2>3, CheckInv
  <2>4. CASE ResumeWorkflow
    BY <2>4, ResumeInv
  <2>5. CASE RestorePending
    BY <2>5, RestorePendingInv
  <2>6. CASE RestoreSuspended
    BY <2>6, RestoreSuspendedInv
  <2>7. CASE UnderstandRequest
    BY <2>7, UnderstandInv
  <2>8. CASE HandleInterruption
    BY <2>8, InterruptionInv
  <2>9. CASE CompileDecision
    BY <2>9, CompileInv
  <2>10. CASE ValidateTool
    BY <2>10, ValidateInv
  <2>11. CASE EvaluatePolicy
    BY <2>11, PolicyInv
  <2>12. CASE CreatePending
    BY <2>12, CreateInv
  <2>13. CASE Revalidate
    BY <2>13, RevalidateInv
  <2>14. CASE Execute
    BY <2>14, ExecuteInv
  <2>15. CASE EscalateToHuman
    BY <2>15, EscalateInv
  <2>16. CASE MemoryAction
    BY <2>16, MemoryActionInv
  <2>17. CASE RetrieveKnowledge
    BY <2>17, KnowledgeInv
  <2>18. CASE Respond
    BY <2>18, RespondInv
  <2> QED
    BY <1>1, <2>1, <2>2, <2>3, <2>4, <2>5, <2>6, <2>7, <2>8, <2>9, <2>10, <2>11, <2>12,
       <2>13, <2>14, <2>15, <2>16, <2>17, <2>18 DEF Node
<1>2. CASE Crash
  BY <1>2, CrashInv
<1>3. CASE \E m \in Messages : Receive(m)
  BY <1>3, ReceiveInv
<1>4. CASE UNCHANGED vars
  <2>1. UNCHANGED <<node, conv, turn, fresh, effects, reply>>
    BY <1>4 DEF vars
  <2>2. ShapeInv'
    BY <2>1 DEF Inv, ShapeInv
  <2>3. FlowInv'
    BY <2>1 DEF Inv, FlowInv, Approved
  <2>4. KeyInv'
    BY <2>1 DEF Inv, KeyInv, PendingOwnsTheKey
  <2> QED
    BY <2>2, <2>3, <2>4 DEF Inv
<1> QED
  BY <1>1, <1>2, <1>3, <1>4 DEF Next

LEMMA Invariant == Spec => []Inv
<1>1. Init => Inv
  BY InitInv
<1>2. Inv /\ [Next]_vars => Inv'
  BY Invariance
<1> QED
  BY <1>1, <1>2, PTL DEF Spec

\* Whatever is said, proposed and fails, the saved conversation, the identifiers and the
\* committed writes keep the shape AgentState declares.
THEOREM TypeCorrect == Spec => []TypeOK
<1>1. Inv => TypeOK
  <2> SUFFICES ASSUME Inv PROVE TypeOK
    OBVIOUS
  <2>1. conv.pending \in PendingActions /\ conv.suspended.action \in PendingActions
    BY DEF Inv, ShapeInv, Sound
  <2>2. conv.pending.tool \in ConfirmedTools \cup {None}
    BY DEF Inv, ShapeInv, Sound, NoPending
  <2>3. conv.actionId \in ActionIds
    BY GraphAssumption DEF Inv, ShapeInv, ActionIds
  <2> QED
    BY <2>1, <2>2, <2>3 DEF Inv, ShapeInv, TypeOK
<1> QED
  BY <1>1, Invariant, PTL

\* The idempotency key of the conversation is always that of the action that waits or is
\* confirmed, and never that of the action set aside.
THEOREM KeysOwned == Spec => []PendingOwnsTheKey
<1>1. Inv => PendingOwnsTheKey
  BY DEF Inv, KeyInv
<1> QED
  BY <1>1, Invariant, PTL

\* A cancellation or a refund that a step commits is the action that the message of this
\* run confirmed.
LEMMA CommitsApproved ==
    ASSUME Inv, Next, NEW e \in effects' \ effects, e.tool \in ConfirmedTools
    PROVE  /\ node = "execute_confirmed_action" /\ Approved
           /\ e = Requested /\ e = What(conv.pending)
<1>1. /\ node \in {"execute_tool", "execute_confirmed_action", "execute_human_escalation"}
      /\ e = Requested
  <2>1. CASE Execute \/ EscalateToHuman
    <3>1. CallsTool /\ node \in {"execute_tool", "execute_confirmed_action", "execute_human_escalation"}
      BY <2>1 DEF Execute, EscalateToHuman, CallsTool
    <3> QED
      BY <3>1, CallShape
  <2>2. CASE Crash
    BY <2>2 DEF Crash
  <2>3. CASE SecurityBoundary \/ RetrieveMemory \/ CheckPending \/ ResumeWorkflow \/ RestorePending
    BY <2>3 DEF SecurityBoundary, RetrieveMemory, CheckPending, ResumeWorkflow, RestorePending, Business
  <2>4. CASE RestoreSuspended \/ UnderstandRequest \/ HandleInterruption \/ CompileDecision
    BY <2>4 DEF RestoreSuspended, UnderstandRequest, HandleInterruption, CompileDecision, Business
  <2>5. CASE ValidateTool \/ EvaluatePolicy \/ CreatePending \/ Revalidate
    BY <2>5 DEF ValidateTool, EvaluatePolicy, CreatePending, Revalidate, Business
  <2>6. CASE MemoryAction \/ RetrieveKnowledge \/ Respond \/ \E m \in Messages : Receive(m)
    BY <2>6 DEF MemoryAction, RetrieveKnowledge, Respond, Receive, Business
  <2> QED
    BY <2>1, <2>2, <2>3, <2>4, <2>5, <2>6 DEF Next, Node
<1>2. e.tool = turn.tool /\ e.id = conv.actionId /\ e.order = turn.order
  BY <1>1 DEF Requested
<1>3. node = "execute_confirmed_action"
  BY <1>1, <1>2 DEF Inv, FlowInv, ConfirmedTools
<1>4. Approved /\ turn.tool = conv.pending.tool /\ turn.order = conv.pending.order
  BY <1>3 DEF Inv, FlowInv
<1>5. conv.actionId = conv.pending.id
  BY <1>4 DEF Inv, KeyInv, PendingOwnsTheKey, Approved
<1> QED
  BY <1>1, <1>3, <1>4, <1>5 DEF Requested, What

\* No path commits a cancellation or a refund but the run whose message confirmed it.
THEOREM ConfirmedOnly == Spec => OnlyConfirmedActionsRun
<1> DEFINE Step == \A e \in effects' \ effects : e.tool \in ConfirmedTools =>
                      /\ turn.offered.status = "PENDING" /\ What(turn.offered) = e
                      /\ Confirms(turn.message)
<1>1. Inv /\ [Next]_vars => [Step]_vars
  BY CommitsApproved DEF Approved
<1> QED
  BY <1>1, Invariant, PTL DEF Spec, OnlyConfirmedActionsRun

-----------------------------------------------------------------------------
(* The conversation implements the lifecycle.                              *)

CarriedOut(written) == {e \in written : e.tool \in ConfirmedTools}
LifecycleVars == <<conv.pending, conv.suspended.action, CarriedOut(effects)>>

LEMMA AbsentIsNothing == \A a : Lifecycle!Absent(a) <=> ~IsAction(a)
  BY DEF Lifecycle!Absent, IsAction, None

\* A step that keeps the live action, or drops or rejects it, and keeps or drops the one
\* set aside, is one of Forget.
LEMMA ForgetStep ==
    ASSUME Inv, CarriedOut(effects') = CarriedOut(effects),
           \/ conv'.pending = conv.pending
           \/ ~IsAction(conv'.pending)
           \/ conv.pending.status = "PENDING" /\ conv'.pending = WithStatus(conv.pending, "REJECTED"),
           conv'.suspended.action = conv.suspended.action \/ ~IsAction(conv'.suspended.action)
    PROVE  Lifecycle!Next
  BY AbsentIsNothing DEF CarriedOut, Lifecycle!Next, Lifecycle!Forget, Lifecycle!Becomes, WithStatus

LEMMA SecurityStep ==
    ASSUME Inv, SecurityBoundary
    PROVE  Lifecycle!Next
<1>1. /\ effects' = effects
      /\ \/ conv'.pending = conv.pending
         \/ conv'.pending = NoPending
         \/ conv.pending.status = "PENDING" /\ conv'.pending = WithStatus(conv.pending, "REJECTED")
      /\ conv'.suspended = conv.suspended \/ conv'.suspended = NotSuspended
  BY DEF SecurityBoundary, SecurityBlock, OwnershipBlock, Business, Inv, ShapeInv, ConvFields
<1> QED
  BY <1>1, ForgetStep, NothingSound

LEMMA CheckStep ==
    ASSUME Inv, CheckPending
    PROVE  Lifecycle!Next
<1>1. /\ effects' = effects /\ conv'.suspended = conv.suspended
      /\ \/ conv'.pending = conv.pending
         \/ conv'.pending = NoPending
         \/ /\ conv.pending.status = "PENDING"
            /\ \E confirmation : conv'.pending = WithStatus(conv.pending, StatusAfter(confirmation))
  BY DEF CheckPending, Business, Inv, ShapeInv, ConvFields
<1>2. CASE conv'.pending \in {conv.pending, NoPending}
  BY <1>1, <1>2, ForgetStep, NothingSound
<1>3. ASSUME NEW confirmation, conv.pending.status = "PENDING",
             conv'.pending = WithStatus(conv.pending, StatusAfter(confirmation))
      PROVE  Lifecycle!Next
  <2>1. CASE StatusAfter(confirmation) = "PENDING"
    <3>1. conv'.pending = conv.pending
      BY <1>3, <2>1 DEF WithStatus, Inv, ShapeInv, Sound, PendingActions
    <3> QED
      BY <1>1, <3>1, ForgetStep
  <2>2. CASE StatusAfter(confirmation) # "PENDING"
    <3>1. StatusAfter(confirmation) \in Lifecycle!Decisions
      BY <2>2 DEF StatusAfter, Lifecycle!Decisions
    <3> QED
      BY <1>1, <1>3, <3>1 DEF Lifecycle!Next, Lifecycle!Decide, Lifecycle!Becomes, WithStatus
  <2> QED
    BY <2>1, <2>2
<1> QED
  BY <1>1, <1>2, <1>3

LEMMA ResumeStep ==
    ASSUME Inv, RestoreSuspended
    PROVE  Lifecycle!Next
<1>1. /\ conv'.pending = conv.suspended.action /\ conv'.suspended.action = NoPending
      /\ effects' = effects /\ ~IsAction(conv.pending)
  BY NothingSound DEF RestoreSuspended, Business, Inv, ShapeInv, ConvFields, FlowInv
<1>2. CASE IsAction(conv.suspended.action)
  <2>1. conv.suspended.action.status = "PENDING"
    BY <1>2 DEF Inv, KeyInv
  <2> QED
    BY <1>1, <2>1, AbsentIsNothing, NothingSound DEF Lifecycle!Next, Lifecycle!Resume
<1>3. CASE ~IsAction(conv.suspended.action)
  BY <1>1, <1>3, ForgetStep, NothingSound
<1> QED
  BY <1>2, <1>3

LEMMA InterruptionStep ==
    ASSUME Inv, HandleInterruption
    PROVE  Lifecycle!Next
<1>1. /\ effects' = effects /\ node = "handle_workflow_interruption"
      /\ \/ UNCHANGED conv
         \/ \E saved \in {NotSuspended, Suspended} : conv' = Interrupted(saved)
  BY DEF HandleInterruption, Business
<1>2. CASE UNCHANGED conv
  BY <1>1, <1>2, ForgetStep
<1>3. CASE conv' = Interrupted(NotSuspended)
  <2>1. conv'.pending = NoPending /\ conv'.suspended.action = NoPending
    BY <1>3, NothingSound DEF Interrupted, Inv, ShapeInv, ConvFields
  <2> QED
    BY <1>1, <2>1, ForgetStep, NothingSound
<1>4. CASE conv' = Interrupted(Suspended)
  <2>1. conv'.pending = NoPending /\ conv'.suspended.action = conv.pending
    BY <1>4 DEF Interrupted, Suspended, Inv, ShapeInv, ConvFields
  <2>2. CASE IsAction(conv.pending)
    <3>1. conv.pending.status = "PENDING"
      BY <1>1, <2>2 DEF Inv, FlowInv
    <3> QED
      BY <1>1, <2>1, <3>1, AbsentIsNothing, NothingSound DEF Lifecycle!Next, Lifecycle!SetAside
  <2>3. CASE ~IsAction(conv.pending)
    BY <1>1, <2>1, <2>3, ForgetStep, NothingSound
  <2> QED
    BY <2>2, <2>3
<1> QED
  BY <1>1, <1>2, <1>3, <1>4

LEMMA OfferStep ==
    ASSUME Inv, CreatePending
    PROVE  Lifecycle!Next
<1>1. /\ ~IsAction(conv.pending) /\ conv'.pending.status = "PENDING"
      /\ conv'.suspended = conv.suspended /\ effects' = effects
  BY DEF CreatePending, Business, Inv, ShapeInv, ConvFields, FlowInv
<1>2. conv'.pending \in PendingActions
  BY CreateInv DEF Inv, ShapeInv, Sound
<1> QED
  BY <1>1, <1>2, AbsentIsNothing DEF Lifecycle!Next, Lifecycle!Offer

LEMMA RevalidateStep ==
    ASSUME Inv, Revalidate
    PROVE  Lifecycle!Next
<1>1. /\ conv.pending.status = "CONFIRMED" /\ IsAction(conv.pending) /\ effects' = effects
  BY DEF Revalidate, Business, Inv, FlowInv, Approved, IsAction, None
<1>2. CASE UNCHANGED conv
  BY <1>1, <1>2, ForgetStep
<1>3. CASE ~UNCHANGED conv
  <2>1. conv'.pending = WithStatus(conv.pending, "FAILED") /\ conv'.suspended = conv.suspended
    BY <1>1, <1>3 DEF Revalidate, Inv, ShapeInv, ConvFields
  <2> QED
    BY <1>1, <2>1 DEF Lifecycle!Next, Lifecycle!GiveUp, Lifecycle!Becomes, WithStatus
<1> QED
  BY <1>2, <1>3

\* What is committed besides the confirmed action needs no confirmation.
LEMMA NothingCarriedOut ==
    ASSUME Inv, Next, node # "execute_confirmed_action", effects \subseteq effects'
    PROVE  CarriedOut(effects') = CarriedOut(effects)
  BY CommitsApproved DEF CarriedOut

LEMMA CarryOutStep ==
    ASSUME Inv, node = "execute_confirmed_action",
           conv'.suspended.action = conv.suspended.action,
           \/ conv'.pending = conv.pending
           \/ \E done \in BOOLEAN :
                 conv'.pending = WithStatus(conv.pending, IF done THEN "EXECUTED" ELSE "FAILED"),
           effects' = effects \cup {Requested}
    PROVE  Lifecycle!Next
<1>1. /\ conv.pending.status = "CONFIRMED" /\ IsAction(conv.pending)
      /\ turn.tool = conv.pending.tool /\ turn.order = conv.pending.order
      /\ conv.actionId = conv.pending.id
  BY DEF Inv, FlowInv, Approved, KeyInv, PendingOwnsTheKey, IsAction, None
<1>2. Requested = Lifecycle!Body(conv.pending) /\ Requested.tool \in ConfirmedTools
  BY <1>1 DEF Requested, Lifecycle!Body, Inv, ShapeInv, Sound
<1>3. {e \in effects' : e.tool \in ConfirmedTools}
          = {e \in effects : e.tool \in ConfirmedTools} \cup {Lifecycle!Body(conv.pending)}
  BY <1>2
<1>4. conv'.pending = conv.pending \/ \E o \in Lifecycle!Outcomes : Lifecycle!Becomes(o)
  BY DEF Lifecycle!Outcomes, Lifecycle!Becomes, WithStatus
<1> QED
  BY <1>1, <1>3, <1>4 DEF Lifecycle!Next, Lifecycle!CarryOut

LEMMA ExecuteStep ==
    ASSUME Inv, Execute
    PROVE  Lifecycle!Next
<1>1. conv'.suspended = conv.suspended
  BY DEF Execute, Finished, Inv, ShapeInv, ConvFields
<1>2. /\ effects' \in {effects, effects \cup {Requested}}
      /\ node \in {"execute_tool", "execute_confirmed_action"}
  BY DEF Execute, Succeed, FailTool, LoseOutcome
<1>3. CASE node = "execute_tool"
  <2>1. conv'.pending = conv.pending
    BY <1>3 DEF Execute, Finished, Inv, ShapeInv, ConvFields, FlowInv
  <2>2. CarriedOut(effects') = CarriedOut(effects)
    BY <1>2, <1>3, NothingCarriedOut DEF Next, Node
  <2> QED
    BY <1>1, <2>1, <2>2, ForgetStep
<1>4. CASE node = "execute_confirmed_action"
  <2>1. /\ conv.pending.status = "CONFIRMED" /\ IsAction(conv.pending)
        /\ turn.tool \in ConfirmedTools
    BY <1>4 DEF Inv, ShapeInv, FlowInv, Approved, Sound, IsAction, None
  <2>2. \A done \in BOOLEAN : Finished(done) =>
            conv'.pending = WithStatus(conv.pending, IF done THEN "EXECUTED" ELSE "FAILED")
    BY <2>1 DEF Finished, Inv, ShapeInv, ConvFields
  <2>3. CASE effects' = effects \cup {Requested}
    <3>1. \E done \in BOOLEAN : Finished(done)
      BY DEF Execute
    <3> QED
      BY <1>1, <1>4, <2>2, <2>3, <3>1, CarryOutStep
  <2>4. CASE effects' # effects \cup {Requested}
    <3>1. effects' = effects /\ Finished(FALSE)
      BY <1>2, <2>1, <2>4 DEF Execute, Succeed, WriteTools
    <3>2. conv'.pending = WithStatus(conv.pending, "FAILED")
      BY <2>2, <3>1
    <3> QED
      BY <1>1, <2>1, <3>1, <3>2 DEF Lifecycle!Next, Lifecycle!GiveUp, Lifecycle!Becomes, WithStatus
  <2> QED
    BY <2>3, <2>4
<1> QED
  BY <1>2, <1>3, <1>4

LEMMA CrashStep ==
    ASSUME Inv, Crash
    PROVE  Lifecycle!Next
<1>1. conv' = conv /\ effects' \in {effects, effects \cup {Requested}}
  BY DEF Crash
<1>2. CASE node = "execute_confirmed_action" /\ effects' = effects \cup {Requested}
  BY <1>1, <1>2, CarryOutStep
<1>3. CASE node # "execute_confirmed_action"
  <2>1. CarriedOut(effects') = CarriedOut(effects)
    BY <1>1, <1>3, NothingCarriedOut DEF Next
  <2> QED
    BY <1>1, <2>1, ForgetStep
<1>4. CASE effects' = effects
  BY <1>1, <1>4, ForgetStep
<1> QED
  BY <1>1, <1>2, <1>3, <1>4

LEMMA LifecycleStep == Inv /\ [Next]_vars => [Lifecycle!Next]_LifecycleVars
<1> SUFFICES ASSUME Inv, [Next]_vars PROVE Lifecycle!Next
  OBVIOUS
<1> DEFINE Untouched == /\ conv'.pending = conv.pending
                        /\ conv'.suspended.action = conv.suspended.action
<1>1. Untouched /\ CarriedOut(effects') = CarriedOut(effects) => Lifecycle!Next
  BY ForgetStep
<1>2. CASE EscalateToHuman
  <2>1. effects \subseteq effects' /\ node # "execute_confirmed_action" /\ UNCHANGED conv
    BY <1>2 DEF EscalateToHuman, Succeed, FailTool, LoseOutcome
  <2>2. CarriedOut(effects') = CarriedOut(effects)
    BY <1>2, <2>1, NothingCarriedOut DEF Next, Node
  <2> QED
    BY <1>1, <2>1, <2>2
<1>3. CASE \/ RetrieveMemory \/ RestorePending \/ UnderstandRequest \/ ValidateTool
           \/ MemoryAction \/ RetrieveKnowledge \/ Respond \/ UNCHANGED vars
  <2>1. UNCHANGED <<conv, effects>>
    BY <1>3 DEF RetrieveMemory, RestorePending, UnderstandRequest, ValidateTool, MemoryAction,
                RetrieveKnowledge, Respond, Business, vars
  <2> QED
    BY <1>1, <2>1
<1>4. CASE ResumeWorkflow \/ CompileDecision \/ EvaluatePolicy \/ \E m \in Messages : Receive(m)
  <2>1. Untouched /\ effects' = effects
    BY <1>4 DEF ResumeWorkflow, CompileDecision, EvaluatePolicy, Receive, Business,
                Inv, ShapeInv, ConvFields
  <2> QED
    BY <1>1, <2>1
<1>5. CASE \/ SecurityBoundary \/ CheckPending \/ RestoreSuspended \/ HandleInterruption
           \/ CreatePending \/ Revalidate \/ Execute \/ Crash
  BY <1>5, SecurityStep, CheckStep, ResumeStep, InterruptionStep, OfferStep, RevalidateStep,
     ExecuteStep, CrashStep
<1> QED
  BY <1>2, <1>3, <1>4, <1>5 DEF Next, Node

\* No path of the graph confirms, carries out, sets aside or revives an action but as the
\* lifecycle of an action that needs consent allows.
THEOREM ImplementsLifecycle == Spec => LifecycleSpec
<1>1. Init => Lifecycle!Init
  BY NothingSound, AbsentIsNothing DEF Init, NewConversation, Lifecycle!Init
<1>2. Inv /\ [Next]_vars => [Lifecycle!Next]_(Lifecycle!vars)
  BY LifecycleStep DEF LifecycleVars, CarriedOut, Lifecycle!vars
<1> QED
  BY <1>1, <1>2, Invariant, PTL DEF Spec, LifecycleSpec, Lifecycle!Spec
=============================================================================
