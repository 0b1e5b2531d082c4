---------------------------- MODULE MCAgentGraph ----------------------------
EXTENDS AgentGraph

CONSTANTS o1, o2

Message(kind, order) == [kind |-> kind, order |-> order, doubts |-> FALSE]
Answer(intent, target, details, writes) ==
    [intent |-> intent, target |-> target, details |-> details, writes |-> writes]

\* Every kind of message, one of them with doubts, two orders to confuse.
MCMessages ==
    {Message(kind, None) : kind \in MessageKinds \ {"number", "question", "text"}}
    \cup {Message("number", o2), Message("question", o1),
          [Message("text", o1) EXCEPT !.doubts = TRUE]}

\* Actions with and without what they need, a made-up reason, lookups, records without
\* confirmation, a memory and a question.
MCAnswers ==
    {Answer("order_cancel", o1, None, TRUE), Answer("order_cancel", None, None, TRUE),
     Answer("refund_request", o2, "given", TRUE), Answer("refund_request", o2, "invented", TRUE),
     Answer("order_lookup", o1, None, FALSE), Answer("order_list", o1, None, FALSE),
     Answer("refund_eligibility", "latest", None, FALSE),
     Answer("ticket_create", None, "given", TRUE), Answer("ticket_create", None, None, TRUE),
     Answer("human_escalation", o1, "given", TRUE),
     Answer("memory_remember", None, "given", FALSE), Answer("memory_forget", None, "given", FALSE),
     Answer("policy", None, "given", FALSE),
     Answer("unknown", None, None, FALSE)}
=============================================================================
