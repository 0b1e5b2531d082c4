--------------------------- MODULE AgentDecisions ---------------------------
(***************************************************************************)
(* The pure decisions of the conversational agent: what a message is taken *)
(* for, what the decision compiler makes of a semantic proposal, and what  *)
(* the policy asks for before a tool runs.  A proposal comes from the      *)
(* language model and is not trusted: a target counts only when the user   *)
(* has named it, a reason only when it is in the user's words.             *)
(***************************************************************************)
EXTENDS Naturals, FiniteSets

CONSTANTS
    Orders,       \* orders the user or the model may name
    Latest        \* what "latest order" resolves to: one of Orders, or None

None == "none"

ASSUME OrdersAssumption ==
    /\ None \notin Orders /\ "latest" \notin Orders /\ "ticket" \notin Orders
    /\ Latest \in Orders \cup {None}

Mutations == {"order_cancel", "refund_request"}
ActionIntents == Mutations \cup {"ticket_create", "human_escalation"}
ReadIntents == {"order_lookup", "order_list", "ticket_lookup"}
MixedIntents == {"refund_eligibility"}        \* a lookup, then the policy on it
MemoryIntents == {"memory_remember", "memory_forget"}
KnowledgeIntents == {"policy", "memory_summary"}
Intents == ActionIntents \cup ReadIntents \cup MixedIntents \cup MemoryIntents
           \cup KnowledgeIntents \cup {"unknown"}

Opposite(intent) == CHOOSE other \in Mutations : other # intent

Tool(intent) == CASE intent = "order_cancel" -> "cancel_order"
                  [] intent = "refund_request" -> "request_refund"
                  [] intent = "ticket_create" -> "create_support_ticket"
                  [] intent = "human_escalation" -> "escalate_to_human"
                  [] intent \in MixedIntents \cup {"order_lookup"} -> "get_order"
                  [] intent = "ticket_lookup" -> "get_ticket"
                  [] OTHER -> "get_customer_orders"
ConfirmedTools == {"cancel_order", "request_refund"}
WriteTools == ConfirmedTools \cup {"create_support_ticket", "escalate_to_human"}
Tools == {Tool(i) : i \in ActionIntents \cup ReadIntents}

Fields == {"order_id", "reason", "category", "description", "priority", "summary", "ticket_id"}
Targets == Orders \cup {None, "latest", "ticket"}

\* details: the refund reason, the description of a ticket or of an escalation,
\* the memory to keep; "invented" when the user's words do not support it.
Proposals == [intent : Intents, target : Targets, details : {None, "given", "invented"},
              writes : BOOLEAN]

-----------------------------------------------------------------------------
(* Messages: a kind, the order it names, whether it doubts a cancellation. *)

MessageKinds == {"yes", "proceed", "no", "resume", "question", "instead", "number",
                 "text", "memory_question", "conflict", "override", "foreign"}
MessageSpace == [kind : MessageKinds, order : Orders \cup {None}, doubts : BOOLEAN]

\* Some phrases both confirm and resume: "proceed", "go ahead", "please continue".
Confirms(m) == m.kind \in {"yes", "proceed"}
Rejects(m) == m.kind = "no"
IsResumeRequest(m) == m.kind \in {"resume", "proceed"}
IsInterruption(m) == m.kind \in {"question", "instead", "memory_question", "conflict"}

-----------------------------------------------------------------------------
(* The decision compiler.                                                  *)

Grounded(target, said) == target \in Orders => target \in said

\* A destructive action needs an order the user has named; "the latest" is not one.
Admissible(p, said) ==
    /\ p.intent \in Mutations => p.target \notin {None, "latest"}
    /\ Grounded(p.target, said)

OrderTarget(target) == IF target = "latest" THEN Latest
                       ELSE IF target \in Orders THEN target ELSE None

Compiled == [status |-> "action", tool |-> None, order |-> None,
             missing |-> {}, retrieval |-> FALSE]
Clarify(missing) == [Compiled EXCEPT !.status = "clarify", !.missing = missing]
Rejected == [Compiled EXCEPT !.status = "rejected"]
NoAction(retrieval) == [Compiled EXCEPT !.status = "no_action", !.retrieval = retrieval]
Action(p, order) == [Compiled EXCEPT !.tool = Tool(p.intent), !.order = order]

\* A question needs no target; "given" details are a query for the knowledge base.
CompileKnowledge(p) ==
    IF p.intent = "policy" /\ p.details = "invented" THEN Clarify({})
    ELSE NoAction(p.intent = "policy" /\ p.details = "given")

CompileMutation(p, doubted) ==
    IF p.intent = "order_cancel" /\ doubted THEN Clarify({})
    ELSE IF p.target = "ticket" THEN Rejected
    ELSE IF p.intent = "refund_request" /\ p.details # "given" THEN Clarify({"reason"})
    ELSE Action(p, OrderTarget(p.target))

\* A ticket or an escalation may refer to an order; without details it asks for
\* fields that no follow-up message can fill in.
CompileRecord(p) ==
    IF p.details = None
    THEN Clarify(IF p.intent = "ticket_create" THEN {"category", "description"}
                 ELSE {"reason", "priority", "summary"})
    ELSE IF p.intent = "ticket_create" /\ p.details = "invented" THEN Clarify({})
    ELSE IF p.intent = "ticket_create" /\ p.target = "ticket" THEN Rejected
    ELSE IF p.target \in Orders \cup {"latest"} /\ OrderTarget(p.target) = None THEN Clarify({})
    ELSE Action(p, OrderTarget(p.target))

CompileRead(p) ==
    IF p.intent = "order_list"
    THEN (IF p.target = None THEN Action(p, None) ELSE Rejected)
    ELSE IF p.intent = "ticket_lookup"
    THEN (IF p.target = "ticket" THEN Action(p, None)
          ELSE IF p.target = None THEN Clarify({"ticket_id"}) ELSE Rejected)
    ELSE IF p.target = "ticket" THEN Rejected
    ELSE IF p.target = "latest" /\ p.details # "given" THEN Clarify({})
    ELSE IF OrderTarget(p.target) = None THEN Clarify({"order_id"})
    ELSE Action(p, OrderTarget(p.target))

CompileMixed(p) ==
    IF p.target = "ticket" THEN Rejected
    ELSE IF OrderTarget(p.target) = None THEN Clarify({})
    ELSE [Action(p, OrderTarget(p.target)) EXCEPT !.retrieval = TRUE]

\* DecisionCompiler.compile, with _missing_required_fields.
CompileProposal(p, said, doubted) ==
    IF p.intent \in KnowledgeIntents THEN CompileKnowledge(p)
    ELSE IF ~Admissible(p, said)
    THEN Clarify(IF p.intent \in Mutations \cup {"order_lookup"} THEN {"order_id"} ELSE {})
    ELSE IF p.intent \in Mutations THEN CompileMutation(p, doubted)
    ELSE IF p.intent \in ActionIntents THEN CompileRecord(p)
    ELSE IF p.intent \in ReadIntents THEN CompileRead(p)
    ELSE IF p.intent \in MixedIntents THEN CompileMixed(p)
    ELSE IF p.intent \in MemoryIntents
    THEN (IF p.details = None THEN Clarify({}) ELSE NoAction(FALSE))
    ELSE Clarify({})

-----------------------------------------------------------------------------
(* The policy, by the risk level of the tool.                              *)

\* Mutant: whatever writes waits for a confirmation.
PolicyOfWrites(tool) == IF tool \in WriteTools THEN "require_confirmation" ELSE "allow"

Policy(tool) == IF tool \in ConfirmedTools THEN "require_confirmation"
                ELSE IF tool = "escalate_to_human" THEN "require_human"
                ELSE "allow"

\* A request for another action replaces the one under way; a question, a lookup
\* or a memory only sets it aside.
Supersedes(p) == p.writes /\ p.intent \notin KnowledgeIntents \cup MixedIntents
=============================================================================
