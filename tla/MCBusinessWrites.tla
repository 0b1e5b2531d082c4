-------------------------- MODULE MCBusinessWrites --------------------------
EXTENDS BusinessWrites

CONSTANTS r1, r2, r3, o1, k1, k2

Ask(via, op, key, reason) ==
    [via |-> via, op |-> op, order |-> o1, key |-> key, reason |-> reason]

\* One order: refunds under one key (the same and another reason) and under two,
\* a cancellation that races the shop, and records without a natural key.
MCRequests == {Ask("agent", "request_refund", k1, "broken"),
               Ask("http", "request_refund", k1, "late"),
               Ask("http", "request_refund", k2, "broken"),
               Ask("agent", "cancel_order", k1, ""),
               Ask("http", "create_support_ticket", k1, "broken")}

=============================================================================
