--------------------------- MODULE BusinessWrites ---------------------------
(***************************************************************************)
(* Business writes of the agent service: cancellations, refund requests,   *)
(* support tickets and escalations, requested by agent runs (after policy  *)
(* and confirmation) and by the HTTP routes, against one READ COMMITTED    *)
(* database.  A run is one attempt at one request: it revalidates, records *)
(* the attempt in the audit, looks its receipt up, performs the change and *)
(* the receipt in one transaction, commits, and records the outcome.  Two  *)
(* runs may carry the same idempotency key: a double confirmation, a       *)
(* client retry, or the same action replayed after a crash.                *)
(***************************************************************************)
EXTENDS Naturals, FiniteSets

CONSTANTS
    Runs,         \* attempts to execute a write: graph runs and HTTP requests
    Orders,       \* orders of the one customer and tenant of the model
    Keys,         \* idempotency keys: action ids, Idempotency-Key headers
    Requests      \* what runs may ask: [via, op, order, key, reason]

VARIABLES
    request,      \* run -> the request it executes
    pc,           \* run -> the step it is at, or how it ended
    tx,           \* run -> what its open transaction holds, not yet committed
    orderStatus,  \* committed orders.status
    rows,         \* committed business changes: [op, order, key, run]
    receipts,     \* committed business_action_receipts: [op, key, order, reason]
    audit         \* committed execution audit events: [key, status]

vars == <<request, pc, tx, orderStatus, rows, receipts, audit>>

OrderOps == {"cancel_order", "request_refund"}
Operations == OrderOps \cup {"create_support_ticket", "escalate_to_human"}
OrderStatuses == {"pending", "processing", "shipped", "delivered", "cancelled"}
AuditStatuses == {"attempted", "success", "failure", "unknown"}

ASSUME RequestsAssumption ==
    Requests \subseteq [via : {"agent", "http"}, op : Operations, order : Orders,
                        key : Keys, reason : STRING]

Ended == {"executed", "failed", "unknown", "raised", "crashed"}
Steps == {"revalidate", "attempted", "call", "lookup", "perform", "insert", "receipt",
          "commit", "success", "failure", "audit_unknown"}

NoTx == [row |-> FALSE, lock |-> FALSE, receipt |-> FALSE]
Transactions == [row : BOOLEAN, lock : BOOLEAN, receipt : BOOLEAN]

Row(r) == [op |-> request[r].op, order |-> request[r].order, key |-> request[r].key, run |-> r]
Receipt(r) == [op |-> request[r].op, key |-> request[r].key,
               order |-> request[r].order, reason |-> request[r].reason]
SameReceiptKey(r, x) == x.op = request[r].op /\ x.key = request[r].key
HasReceipt(r) == \E x \in receipts : SameReceiptKey(r, x)
Audited(r) == request[r].via = "agent"

(***************************************************************************)
(* A statement waits for every other transaction that holds what it needs: *)
(* FOR UPDATE the row of an order, which an open insert that references    *)
(* the order shares; a referencing insert that row, and the slot of the    *)
(* unique index on active refunds; the insert of a receipt its unique key. *)
(***************************************************************************)
OrderLocked(o) == \E q \in Runs : tx[q].lock /\ request[q].order = o
SameOrder(q, r) == request[q].order = request[r].order
References(r) == pc[r] = "insert" \/ (pc[r] = "perform" /\ request[r].op \notin OrderOps)
WaitsFor(r, q) ==
    \/ /\ pc[r] = "perform" /\ request[r].op = "cancel_order"
       /\ (tx[q].lock \/ tx[q].row) /\ SameOrder(q, r)
    \/ References(r) /\ tx[q].lock /\ SameOrder(q, r)
    \/ pc[r] = "insert" /\ tx[q].row /\ request[q].op = "request_refund" /\ SameOrder(q, r)
    \/ pc[r] = "receipt" /\ tx[q].receipt /\ SameReceiptKey(r, request[q])
Waits(r) == \E q \in Runs \ {r} : WaitsFor(r, q)

ActiveRefund(o) == \E e \in rows : e.op = "request_refund" /\ e.order = o

Cancellable(o) == orderStatus[o] \in {"pending", "processing", "cancelled"}
Refundable(o) == orderStatus[o] = "delivered" /\ ~ActiveRefund(o)

Entry(q) == IF q.via = "http" THEN "lookup"
            ELSE IF q.op \in OrderOps THEN "revalidate" ELSE "attempted"

Init ==
    /\ request \in [Runs -> Requests]
    /\ pc = [r \in Runs |-> Entry(request[r])]
    /\ tx = [r \in Runs |-> NoTx]
    /\ orderStatus \in [Orders -> {"processing", "delivered"}]
    /\ rows = {}
    /\ receipts = {}
    /\ audit = {}

Goto(r, step) == pc' = [pc EXCEPT ![r] = step]
Holds(r, held) == tx' = [tx EXCEPT ![r] = held]
Durable == <<orderStatus, rows, receipts, audit>>

\* Mutant: the failed transaction is left open.
FailLeavingOpen(r) ==
    /\ UNCHANGED tx
    /\ Goto(r, IF Audited(r) THEN "failure" ELSE "failed")

\* The operation failed before its commit: the transaction is rolled back, and
\* an agent run goes on to record the failure.
Fail(r) ==
    /\ Holds(r, NoTx)
    /\ Goto(r, IF Audited(r) THEN "failure" ELSE "failed")

-----------------------------------------------------------------------------
(* Before the tool is called.                                              *)

\* Mutant: the tool is called without the audit of the attempt.
RevalidateUnaudited(r) ==
    /\ pc[r] = "revalidate"
    /\ Goto(r, IF \/ request[r].op = "cancel_order" /\ Cancellable(request[r].order)
                  \/ request[r].op = "request_refund" /\ Refundable(request[r].order)
               THEN "call" ELSE "failed")
    /\ UNCHANGED <<request, tx, Durable>>

\* After the user's confirmation the order is read again, without a lock.
Revalidate(r) ==
    /\ pc[r] = "revalidate"
    /\ Goto(r, IF \/ request[r].op = "cancel_order" /\ Cancellable(request[r].order)
                  \/ request[r].op = "request_refund" /\ Refundable(request[r].order)
               THEN "attempted" ELSE "failed")
    /\ UNCHANGED <<request, tx, Durable>>

\* record_execution_event: an event that is already stored is not stored again.
RecordEvent(r, step, status, next) ==
    /\ pc[r] = step
    /\ audit' = audit \cup {[key |-> request[r].key, status |-> status]}
    /\ Goto(r, next)
    /\ UNCHANGED <<request, tx, orderStatus, rows, receipts>>

RecordAttempted(r) == RecordEvent(r, "attempted", "attempted", "call")

\* run_with_retry: a write is called once, or refused by an open circuit, a full
\* bulkhead or a rate limit before it is called.
Call(r) ==
    /\ pc[r] = "call"
    /\ Goto(r, "lookup")
    /\ UNCHANGED <<request, tx, Durable>>

Refuse(r) ==
    /\ pc[r] = "call"
    /\ Fail(r)
    /\ UNCHANGED <<request, Durable>>

-----------------------------------------------------------------------------
(* execute_idempotent.                                                     *)

\* _validate_receipt, then load_result: the receipt of the same request answers
\* with its result; that of another request refuses the key.
Replay(r) ==
    /\ IF Receipt(r) \in receipts
       THEN Holds(r, NoTx) /\ Goto(r, "commit")
       ELSE Fail(r)
    /\ UNCHANGED <<request, Durable>>

Lookup(r) ==
    /\ pc[r] = "lookup"
    /\ \/ HasReceipt(r) /\ Replay(r)
       \/ /\ ~HasReceipt(r)
          /\ Goto(r, "perform")
          /\ UNCHANGED <<request, tx, Durable>>

\* Mutant: the order is read without FOR UPDATE.
PerformCancelUnlocked(r) ==
    /\ pc[r] = "perform" /\ request[r].op = "cancel_order"
    /\ IF Cancellable(request[r].order)
       THEN /\ Holds(r, [row |-> orderStatus[request[r].order] # "cancelled",
                         lock |-> FALSE, receipt |-> FALSE])
            /\ Goto(r, "receipt")
       ELSE Fail(r)
    /\ UNCHANGED <<request, Durable>>

\* perform() of cancel_order: the status is checked under the row lock; an order
\* that is already cancelled is left as it is.
PerformCancel(r) ==
    /\ pc[r] = "perform" /\ request[r].op = "cancel_order"
    /\ ~Waits(r)
    /\ IF Cancellable(request[r].order)
       THEN /\ Holds(r, [row |-> orderStatus[request[r].order] # "cancelled",
                         lock |-> TRUE, receipt |-> FALSE])
            /\ Goto(r, "receipt")
       ELSE Fail(r)
    /\ UNCHANGED <<request, Durable>>

\* perform() of request_refund: the order and the active refunds are read
\* without a lock, then the refund is inserted.
CheckRefund(r) ==
    /\ pc[r] = "perform" /\ request[r].op = "request_refund"
    /\ IF Refundable(request[r].order)
       THEN Goto(r, "insert") /\ UNCHANGED tx
       ELSE Fail(r)
    /\ UNCHANGED <<request, Durable>>

\* An IntegrityError ends the savepoint; the receipt that may explain it is read
\* again.
Conflict(r) ==
    \/ HasReceipt(r) /\ Replay(r)
    \/ ~HasReceipt(r) /\ Fail(r) /\ UNCHANGED <<request, Durable>>

\* Mutant: no unique index on the active refunds of an order.
InsertRefundUnindexed(r) ==
    /\ pc[r] = "insert"
    /\ Holds(r, [tx[r] EXCEPT !.row = TRUE])
    /\ Goto(r, "receipt")
    /\ UNCHANGED <<request, Durable>>

InsertRefund(r) ==
    /\ pc[r] = "insert"
    /\ ~Waits(r)
    /\ IF ActiveRefund(request[r].order)
       THEN Conflict(r)
       ELSE /\ Holds(r, [tx[r] EXCEPT !.row = TRUE])
            /\ Goto(r, "receipt")
            /\ UNCHANGED <<request, Durable>>

\* perform() of create_support_ticket and of escalate_to_human: nothing but the
\* receipt keeps a second row out.
PerformRecord(r) ==
    /\ pc[r] = "perform" /\ request[r].op \notin OrderOps
    /\ ~Waits(r)
    /\ Holds(r, [tx[r] EXCEPT !.row = TRUE])
    /\ Goto(r, "receipt")
    /\ UNCHANGED <<request, Durable>>

\* Mutant: no unique constraint on the receipts.
InsertReceiptUnconstrained(r) ==
    /\ pc[r] = "receipt"
    /\ Holds(r, [tx[r] EXCEPT !.receipt = TRUE])
    /\ Goto(r, "commit")
    /\ UNCHANGED <<request, Durable>>

\* Mutant: a receipt that cannot be stored does not stop the write.
InsertReceiptBestEffort(r) ==
    /\ pc[r] = "receipt"
    /\ \E stored \in BOOLEAN : Holds(r, [tx[r] EXCEPT !.receipt = stored])
    /\ Goto(r, "commit")
    /\ UNCHANGED <<request, Durable>>

InsertReceipt(r) ==
    /\ pc[r] = "receipt"
    /\ ~Waits(r)
    /\ IF HasReceipt(r)
       THEN Conflict(r)
       ELSE /\ Holds(r, [tx[r] EXCEPT !.receipt = TRUE])
            /\ Goto(r, "commit")
            /\ UNCHANGED <<request, Durable>>

\* A statement before the commit fails: statement timeout, deadlock, connection.
StatementError(r) ==
    /\ pc[r] \in {"lookup", "perform", "insert", "receipt"}
    /\ Fail(r)
    /\ UNCHANGED <<request, Durable>>

-----------------------------------------------------------------------------
(* commit_business_write and the audit of the outcome.                     *)

Apply(r) ==
    /\ rows' = IF tx[r].row THEN rows \cup {Row(r)} ELSE rows
    /\ receipts' = IF tx[r].receipt THEN receipts \cup {Receipt(r)} ELSE receipts
    /\ orderStatus' = IF tx[r].row /\ request[r].op = "cancel_order"
                      THEN [orderStatus EXCEPT ![request[r].order] = "cancelled"]
                      ELSE orderStatus
    /\ Holds(r, NoTx)
    /\ UNCHANGED <<request, audit>>

Commit(r) ==
    /\ pc[r] = "commit"
    /\ Apply(r)
    /\ Goto(r, IF Audited(r) THEN "success" ELSE "executed")

\* Mutant: a lost commit reply is taken for a failure.
CommitReplyLostAsFailure(r) ==
    /\ pc[r] = "commit"
    /\ \/ Apply(r)
       \/ Holds(r, NoTx) /\ UNCHANGED <<request, Durable>>
    /\ Goto(r, IF Audited(r) THEN "failure" ELSE "failed")

\* The connection is lost or times out in the commit, which may have been done.
CommitReplyLost(r) ==
    /\ pc[r] = "commit"
    /\ \/ Apply(r)
       \/ Holds(r, NoTx) /\ UNCHANGED <<request, Durable>>
    /\ Goto(r, IF Audited(r) THEN "audit_unknown" ELSE "unknown")

\* Any other database error of the commit: it was not done.
CommitRefused(r) ==
    /\ pc[r] = "commit"
    /\ Fail(r)
    /\ UNCHANGED <<request, Durable>>

RecordOutcome(r) ==
    \/ RecordEvent(r, "success", "success", "executed")
    \/ RecordEvent(r, "failure", "failure", "failed")
    \/ RecordEvent(r, "audit_unknown", "unknown", "unknown")

\* The audit cannot be stored: AuditPersistenceError leaves the node.
AuditError(r) ==
    /\ pc[r] \in {"attempted", "success", "failure", "audit_unknown"}
    /\ Goto(r, "raised")
    /\ UNCHANGED <<request, tx, Durable>>

\* The process dies; the database rolls its transaction back.
Crash(r) ==
    /\ pc[r] \notin Ended
    /\ Goto(r, "crashed")
    /\ Holds(r, NoTx)
    /\ UNCHANGED <<request, Durable>>

\* The shop moves an order on; the update waits for the row lock.
Fulfil(o) ==
    /\ ~OrderLocked(o)
    /\ orderStatus[o] \in {"pending", "processing", "shipped"}
    /\ orderStatus' = [orderStatus EXCEPT ![o] =
                           CASE @ = "pending" -> "processing"
                             [] @ = "processing" -> "shipped"
                             [] OTHER -> "delivered"]
    /\ UNCHANGED <<request, pc, tx, rows, receipts, audit>>

Perform(r) == PerformCancel(r) \/ CheckRefund(r) \/ InsertRefund(r) \/ PerformRecord(r)
Progress(r) == \/ Revalidate(r) \/ RecordAttempted(r) \/ Call(r) \/ Lookup(r)
               \/ Perform(r) \/ InsertReceipt(r) \/ Commit(r) \/ RecordOutcome(r)
Fault(r) == \/ Refuse(r) \/ StatementError(r) \/ CommitReplyLost(r) \/ CommitRefused(r)
            \/ AuditError(r) \/ Crash(r)

Next == \/ \E r \in Runs : Progress(r) \/ Fault(r)
        \/ \E o \in Orders : Fulfil(o)

\* Every run is executed by a thread of the server, which keeps running it.
Fairness == \A r \in Runs : WF_vars(Progress(r))

Spec == Init /\ [][Next]_vars
FairSpec == Spec /\ Fairness

-----------------------------------------------------------------------------
(* Properties.                                                             *)

\* Types of the variables; a row has its receipt key's operation.
TypeOK ==
    /\ request \in [Runs -> Requests]
    /\ pc \in [Runs -> Steps \cup Ended]
    /\ tx \in [Runs -> Transactions]
    /\ orderStatus \in [Orders -> OrderStatuses]
    /\ rows \subseteq [op : Operations, order : Orders, key : Keys, run : Runs]
    /\ receipts \subseteq [op : Operations, key : Keys, order : Orders, reason : STRING]
    /\ audit \subseteq [key : Keys, status : AuditStatuses]

\* execute_idempotent: however many runs carry one key, one of them changes the
\* database; the unique receipt rolls the others back.
OneChangePerAction ==
    \A e, f \in rows : e.op = f.op /\ e.key = f.key => e = f

\* The change and its receipt are one transaction: whoever finds a change finds
\* the receipt that keeps it from being repeated, and a key has one receipt.
ChangesAreReceipted ==
    /\ \A e \in rows : \E x \in receipts : x.op = e.op /\ x.key = e.key /\ x.order = e.order
    /\ \A x, y \in receipts : x.op = y.op /\ x.key = y.key => x = y

\* uq_refund_requests_active_order: concurrent actions never leave an order with
\* two refunds under way, whatever each of them read before.
OneRefundPerOrder ==
    \A e, f \in rows : e.op = "request_refund" /\ f.op = e.op /\ e.order = f.order => e = f

\* What a run reports is true: a success left the receipt of exactly this request,
\* and a failure left nothing of its own behind; doubt is reported as unknown.
ReportsAreTrue ==
    \A r \in Runs :
        /\ pc[r] \in {"success", "executed"} => Receipt(r) \in receipts
        /\ pc[r] \in {"failure", "failed"} => \A e \in rows : e.run # r

\* The audit is ahead of the agent's writes, and never claims a write that is not
\* there.
AuditIsAhead ==
    /\ \A e \in rows : Audited(e.run) => [key |-> e.key, status |-> "attempted"] \in audit
    /\ \A a \in audit : a.status = "success" => \E x \in receipts : x.key = a.key

\* cancel_order checks under the row lock: an order that left the warehouse while
\* the user was confirming is never cancelled.
ShippedStaysShipped ==
    [][\A o \in Orders : orderStatus'[o] = "cancelled"
           => orderStatus[o] \in {"pending", "processing", "cancelled"}]_vars

\* Row locks, index slots and receipt keys are taken in one order: whoever is waited
\* for has not ended, and of any runs one waits for no other of them.
NoCircularWait ==
    /\ \A r \in Runs : \A q \in Runs \ {r} : WaitsFor(r, q) => pc[q] \notin Ended
    /\ \A S \in (SUBSET Runs) \ {{}} : \E r \in S : \A q \in S \ {r} : ~WaitsFor(r, q)

\* The abstract promise: one business change per action.
Effects == INSTANCE ActionEffects WITH
    Actions <- Operations \X Keys,
    changes <- [a \in Operations \X Keys |->
                    Cardinality({e \in rows : <<e.op, e.key>> = a})]
EffectSpec == Effects!Spec

\* The interface of a write: what the transactions of concurrent runs do is one step of
\* each, a receipt stored or not, and what a run is told agrees with that step; a key
\* taken by another request is never reported as done.
Told(r) ==
    CASE pc[r] \in {"success", "executed"} -> [kind |-> "done", of |-> Receipt(r)]
      [] pc[r] \in {"failure", "failed"} -> [kind |-> "failed", of |-> Receipt(r)]
      [] pc[r] \in {"audit_unknown", "unknown"} -> [kind |-> "unknown", of |-> Receipt(r)]
      [] pc[r] \in {"raised", "crashed"} -> [kind |-> "nothing"]
      [] OTHER -> [kind |-> "asked", of |-> Receipt(r)]
Writes == INSTANCE IdempotentWrites WITH
    Callers <- Runs,
    Requests <- {[op |-> q.op, key |-> q.key, order |-> q.order, reason |-> q.reason] : q \in Requests},
    stored <- receipts,
    outcome <- [r \in Runs |-> Told(r)]
WriteSpec == Writes!Spec

\* No run waits for ever for a lock or an index slot of another.
EveryRunEnds == \A r \in Runs : <>(pc[r] \in Ended)
=============================================================================
