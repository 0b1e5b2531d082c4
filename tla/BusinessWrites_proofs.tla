------------------------ MODULE BusinessWrites_proofs ------------------------
(***************************************************************************)
(* The safety of the business writes for any number of runs, orders, keys  *)
(* and requests.  A step of a run is of one of three kinds (StepKinds): it *)
(* stores nothing, it takes something into its open transaction, or it     *)
(* applies that transaction.  Each part of the invariant is then shown for *)
(* the three kinds and for the shop's own step.                            *)
(***************************************************************************)
EXTENDS BusinessWrites, FiniteSetTheorems, TLAPS

Calling == {"call", "lookup", "perform", "insert", "receipt", "commit"}
Stored == {"success", "executed", "audit_unknown", "unknown", "raised", "crashed"}
Attempted(r) == [key |-> request[r].key, status |-> "attempted"]

-----------------------------------------------------------------------------
(* The inductive invariant.                                                *)

RefundInFlight(r) == \E q \in Runs \ {r} :
    tx[q].row /\ request[q].op = "request_refund" /\ request[q].order = request[r].order
ReceiptInFlight(r) == \E q \in Runs \ {r} : tx[q].receipt /\ SameReceiptKey(r, request[q])

\* A receipt under way excludes every other of its key, stored or under way, and a
\* transaction about to commit a change holds one.
ReceiptInv ==
    /\ \A r \in Runs : tx[r].receipt => ~HasReceipt(r) /\ ~ReceiptInFlight(r)
    /\ \A r \in Runs : pc[r] = "commit" /\ tx[r].row => tx[r].receipt
    /\ ChangesAreReceipted
    /\ OneChangePerAction

\* A refund under way excludes every other of its order, stored or under way.
RefundInv ==
    /\ \A r \in Runs : tx[r].row /\ request[r].op = "request_refund"
                          => ~ActiveRefund(request[r].order) /\ ~RefundInFlight(r)
    /\ OneRefundPerOrder

\* A cancellation under way holds the lock of an order that may be cancelled.
LockInv ==
    /\ \A r \in Runs : pc[r] = "insert" => request[r].op = "request_refund"
    /\ \A r \in Runs : tx[r].row /\ request[r].op = "cancel_order"
                          => tx[r].lock /\ Cancellable(request[r].order)

\* A run about to commit, or that reports success, has its receipt; only a run that
\* has got past its commit has changed anything.
ReportInv ==
    /\ \A r \in Runs : pc[r] = "commit" => tx[r].receipt \/ Receipt(r) \in receipts
    /\ \A r \in Runs : pc[r] \in {"success", "executed"} => Receipt(r) \in receipts
    /\ \A e \in rows : pc[e.run] \in Stored

\* The attempt is audited before the tool is called.
AuditInv ==
    /\ \A r \in Runs : Audited(r) /\ pc[r] \in Calling => Attempted(r) \in audit
    /\ AuditIsAhead

\* Only a run past its change holds anything, and only one at its commit the receipt:
\* the order in which everything is taken.
HoldInv ==
    /\ \A r \in Runs : tx[r].lock \/ tx[r].row => pc[r] \in {"receipt", "commit"}
    /\ \A r \in Runs : tx[r].receipt => pc[r] = "commit"

Inv == TypeOK /\ ReceiptInv /\ RefundInv /\ LockInv /\ ReportInv /\ AuditInv /\ HoldInv

-----------------------------------------------------------------------------
(* The kinds of step.                                                      *)

Unanswered == Steps \ {"success", "failure", "audit_unknown"}
Gone == {"raised", "crashed"}

\* What a step that stores nothing may tell the caller.
Follows(before, after) ==
    \/ before \in Unanswered /\ after \in Unanswered \cup Gone \cup {"failure", "failed", "audit_unknown", "unknown"}
    \/ before = "success" /\ after \in {"executed"} \cup Gone
    \/ before = "failure" /\ after \in {"failed"} \cup Gone
    \/ before = "audit_unknown" /\ after \in {"unknown"} \cup Gone

StoresNothing(r) ==
    /\ UNCHANGED <<request, orderStatus, rows, receipts>>
    /\ tx' = tx \/ Holds(r, NoTx)
    /\ pc[r] \in {"receipt", "commit"} => Holds(r, NoTx)
    /\ audit \subseteq audit'
    /\ \A a \in audit' : a \in audit \/ (a.status = "success" => pc[r] = "success" /\ a.key = request[r].key)
    /\ \E step \in Steps \cup Ended :
          /\ Goto(r, step)
          /\ step = "commit" => tx'[r] = NoTx /\ Receipt(r) \in receipts
          /\ step = "insert" => request[r].op = "request_refund"
          /\ step \in {"success", "executed"} => pc[r] = "success"
          /\ step \in Calling => pc[r] \in Calling \/ Attempted(r) \in audit'
          /\ pc[r] \in Stored => step \in Stored
          /\ Follows(pc[r], step)

TakesRow(r) ==
    /\ pc[r] \in {"perform", "insert"} /\ Goto(r, "receipt")
    /\ \E held \in Transactions :
          /\ Holds(r, held)
          /\ held.receipt => tx[r].receipt
          /\ held.row /\ request[r].op = "cancel_order" => held.lock /\ Cancellable(request[r].order)
          /\ held.row /\ request[r].op = "request_refund"
                => ~ActiveRefund(request[r].order) /\ ~RefundInFlight(r)
    /\ UNCHANGED <<request, Durable>>

TakesReceipt(r) ==
    /\ pc[r] = "receipt" /\ Goto(r, "commit")
    /\ ~HasReceipt(r) /\ ~ReceiptInFlight(r)
    /\ Holds(r, [tx[r] EXCEPT !.receipt = TRUE])
    /\ UNCHANGED <<request, Durable>>

Applies(r) ==
    /\ pc[r] = "commit" /\ Apply(r)
    /\ \E step \in {"success", "executed", "audit_unknown", "unknown"} : Goto(r, step)

StepKind(r) == StoresNothing(r) \/ TakesRow(r) \/ TakesReceipt(r) \/ Applies(r)

LEMMA FailKind ==
    ASSUME TypeOK, NEW r \in Runs, pc[r] \in Calling, Fail(r),
           UNCHANGED <<request, Durable>>
    PROVE  StoresNothing(r)
<1> DEFINE step == IF Audited(r) THEN "failure" ELSE "failed"
<1>1. step \in Steps \cup Ended /\ Goto(r, step)
  BY DEF Fail, Steps, Ended
<1>2. Holds(r, NoTx)
  BY DEF Fail
<1>3. step \notin {"commit", "insert", "success", "executed"} \cup Calling /\ pc[r] \notin Stored
  BY DEF Calling, Stored
<1>4. Follows(pc[r], step)
  BY DEF Follows, Unanswered, Calling, Steps
<1> QED
  BY <1>1, <1>2, <1>3, <1>4 DEF StoresNothing, Durable

LEMMA ReplayKind ==
    ASSUME TypeOK, NEW r \in Runs, pc[r] \in Calling, Replay(r)
    PROVE  StoresNothing(r)
<1>1. CASE Receipt(r) \in receipts
  <2>1. Holds(r, NoTx) /\ Goto(r, "commit") /\ UNCHANGED <<request, Durable>>
    BY <1>1 DEF Replay
  <2>2. tx'[r] = NoTx
    BY <2>1 DEF Holds, TypeOK
  <2>3. pc[r] \notin Stored /\ "commit" \in Steps /\ Follows(pc[r], "commit")
    BY DEF Calling, Stored, Steps, Follows, Unanswered
  <2> QED
    BY <1>1, <2>1, <2>2, <2>3 DEF StoresNothing, Durable
<1>2. CASE Receipt(r) \notin receipts
  BY <1>2, FailKind DEF Replay
<1> QED
  BY <1>1, <1>2

LEMMA ConflictKind ==
    ASSUME TypeOK, NEW r \in Runs, pc[r] \in Calling, Conflict(r)
    PROVE  StoresNothing(r)
  BY ReplayKind, FailKind DEF Conflict

LEMMA EventKind ==
    ASSUME TypeOK, NEW r \in Runs, RecordAttempted(r) \/ RecordOutcome(r)
    PROVE  StoresNothing(r)
<1>1. CASE RecordAttempted(r)
  BY <1>1 DEF RecordAttempted, RecordEvent, StoresNothing, Calling, Stored, Follows, Unanswered, Gone, Steps, Attempted
<1>2. CASE RecordOutcome(r)
  BY <1>2 DEF RecordOutcome, RecordEvent, StoresNothing, Calling, Stored, Follows, Unanswered, Gone, Ended
<1> QED
  BY <1>1, <1>2

\* Every step of a run, whatever its operation, is of one kind.
LEMMA StepKinds ==
    ASSUME TypeOK, LockInv, NEW r \in Runs, Progress(r) \/ Fault(r)
    PROVE  StepKind(r)
<1> USE DEF StepKind
<1>1. CASE Revalidate(r)
  <2>1. \E step \in {"attempted", "failed"} : Goto(r, step)
    BY <1>1 DEF Revalidate
  <2>2. \A step \in {"attempted", "failed"} : Follows("revalidate", step)
    BY DEF Follows, Unanswered, Steps
  <2> QED
    BY <1>1, <2>1, <2>2 DEF Revalidate, StoresNothing, Calling, Stored, Steps, Ended, Durable
<1>2. CASE RecordAttempted(r) \/ RecordOutcome(r)
  BY <1>2, EventKind
<1>3. CASE Call(r)
  BY <1>3 DEF Call, StoresNothing, Calling, Stored, Follows, Unanswered, Gone, Steps, Durable
<1>4. CASE Lookup(r)
  <2>1. CASE HasReceipt(r) /\ Replay(r)
    BY <1>4, <2>1, ReplayKind DEF Lookup, Calling
  <2>2. CASE Goto(r, "perform") /\ UNCHANGED <<request, tx, Durable>>
    BY <1>4, <2>2 DEF Lookup, StoresNothing, Calling, Stored, Follows, Unanswered, Gone, Steps, Durable
  <2> QED
    BY <1>4, <2>1, <2>2 DEF Lookup
<1>5. CASE PerformCancel(r)
  <2>1. CASE Cancellable(request[r].order)
    <3> DEFINE held == [row |-> orderStatus[request[r].order] # "cancelled",
                        lock |-> TRUE, receipt |-> FALSE]
    <3>1. Holds(r, held) /\ Goto(r, "receipt") /\ UNCHANGED <<request, Durable>>
      BY <1>5, <2>1 DEF PerformCancel
    <3>2. held \in Transactions /\ held.lock /\ ~held.receipt
      BY DEF Transactions
    <3>3. request[r].op = "cancel_order" /\ pc[r] = "perform"
      BY <1>5 DEF PerformCancel
    <3> QED
      BY <2>1, <3>1, <3>2, <3>3 DEF TakesRow
  <2>2. CASE ~Cancellable(request[r].order)
    BY <1>5, <2>2, FailKind DEF PerformCancel, Calling
  <2> QED
    BY <2>1, <2>2
<1>6. CASE CheckRefund(r)
  <2>1. CASE Refundable(request[r].order)
    BY <1>6, <2>1 DEF CheckRefund, StoresNothing, Calling, Stored, Follows, Unanswered, Gone, Steps, Durable
  <2>2. CASE ~Refundable(request[r].order)
    BY <1>6, <2>2, FailKind DEF CheckRefund, Calling
  <2> QED
    BY <2>1, <2>2
<1>7. CASE InsertRefund(r)
  <2>1. CASE ActiveRefund(request[r].order)
    BY <1>7, <2>1, ConflictKind DEF InsertRefund, Calling
  <2>2. CASE ~ActiveRefund(request[r].order)
    <3> DEFINE held == [tx[r] EXCEPT !.row = TRUE]
    <3>1. /\ Holds(r, held) /\ Goto(r, "receipt") /\ UNCHANGED <<request, Durable>>
          /\ pc[r] = "insert" /\ ~RefundInFlight(r)
      BY <1>7, <2>2 DEF InsertRefund, Waits, WaitsFor, SameOrder, RefundInFlight
    <3>2. tx[r] \in Transactions
      BY DEF TypeOK
    <3>3. held \in Transactions /\ (held.receipt => tx[r].receipt)
      BY <3>2 DEF Transactions
    <3>4. request[r].op = "request_refund"
      BY <3>1 DEF LockInv
    <3> QED
      BY <2>2, <3>1, <3>3, <3>4 DEF TakesRow
  <2> QED
    BY <2>1, <2>2
<1>8. CASE PerformRecord(r)
  <2> DEFINE held == [tx[r] EXCEPT !.row = TRUE]
  <2>1. /\ Holds(r, held) /\ Goto(r, "receipt") /\ UNCHANGED <<request, Durable>>
        /\ pc[r] = "perform" /\ request[r].op \notin OrderOps
    BY <1>8 DEF PerformRecord
  <2>2. tx[r] \in Transactions
    BY DEF TypeOK
  <2>3. held \in Transactions /\ (held.receipt => tx[r].receipt)
    BY <2>2 DEF Transactions
  <2> QED
    BY <2>1, <2>3 DEF TakesRow, OrderOps
<1>9. CASE InsertReceipt(r)
  <2>1. CASE HasReceipt(r)
    BY <1>9, <2>1, ConflictKind DEF InsertReceipt, Calling
  <2>2. CASE ~HasReceipt(r)
    BY <1>9, <2>2 DEF InsertReceipt, TakesReceipt, Waits, WaitsFor, ReceiptInFlight
  <2> QED
    BY <2>1, <2>2
<1>10. CASE Commit(r)
  BY <1>10 DEF Commit, Applies
<1>11. CASE Refuse(r) \/ StatementError(r) \/ CommitRefused(r)
  BY <1>11, FailKind DEF Refuse, StatementError, CommitRefused, Calling
<1>12. CASE CommitReplyLost(r)
  <2>1. CASE Apply(r)
    BY <1>12, <2>1 DEF CommitReplyLost, Applies
  <2>2. CASE Holds(r, NoTx) /\ UNCHANGED <<request, Durable>>
    BY <1>12, <2>2 DEF CommitReplyLost, StoresNothing, Calling, Stored, Follows, Unanswered, Gone, Steps, Ended, Durable
  <2> QED
    BY <1>12, <2>1, <2>2 DEF CommitReplyLost
<1>13. CASE AuditError(r)
  BY <1>13 DEF AuditError, StoresNothing, Calling, Stored, Follows, Unanswered, Gone, Steps, Ended, Durable
<1>14. CASE Crash(r)
  <2>1. pc[r] \in Steps /\ Follows(pc[r], "crashed")
    BY <1>14 DEF Crash, TypeOK, Follows, Unanswered, Gone, Steps
  <2> QED
    BY <1>14, <2>1 DEF Crash, StoresNothing, Calling, Stored, Ended, Durable
<1> QED
  BY <1>1, <1>2, <1>3, <1>4, <1>5, <1>6, <1>7, <1>8, <1>9, <1>10, <1>11, <1>12, <1>13, <1>14
     DEF Progress, Fault, Perform

\* What the next-state relation may do, in kinds.
LEMMA NextKinds ==
    ASSUME TypeOK, LockInv, [Next]_vars
    PROVE  UNCHANGED vars \/ (\E r \in Runs : StepKind(r)) \/ (\E o \in Orders : Fulfil(o))
  BY StepKinds DEF Next

-----------------------------------------------------------------------------
(* Types.                                                                  *)

LEMMA InitInv == Init => Inv
<1> SUFFICES ASSUME Init PROVE Inv
  OBVIOUS
<1>1. \A r \in Runs : pc[r] \in {"lookup", "revalidate", "attempted"}
  BY DEF Init, Entry
<1>2. \A r \in Runs : Audited(r) => pc[r] \notin Calling
  BY DEF Init, Entry, Audited, Calling
<1>3. TypeOK
  <2>1. pc \in [Runs -> Steps \cup Ended] /\ tx \in [Runs -> Transactions]
    BY DEF Init, Entry, Steps, NoTx, Transactions
  <2>2. orderStatus \in [Orders -> OrderStatuses]
    BY DEF Init, OrderStatuses
  <2> QED
    BY <2>1, <2>2 DEF Init, TypeOK
<1>4. \A r \in Runs : ~tx[r].row /\ ~tx[r].receipt /\ ~tx[r].lock
  BY DEF Init, NoTx
<1> QED
  BY <1>1, <1>2, <1>3, <1>4
     DEF Init, Inv, ReceiptInv, RefundInv, LockInv, ReportInv, AuditInv, AuditIsAhead,
         ChangesAreReceipted, OneChangePerAction, OneRefundPerOrder, HoldInv

\* What a run is asked names its order and its key.
LEMMA RequestFields ==
    ASSUME TypeOK, NEW r \in Runs
    PROVE  /\ request[r].op \in Operations /\ request[r].order \in Orders
           /\ request[r].key \in Keys /\ request[r].reason \in STRING
  BY RequestsAssumption DEF TypeOK

LEMMA TypeStep ==
    ASSUME TypeOK, [Next]_vars
    PROVE  TypeOK'
<1>1. CASE UNCHANGED vars
  BY <1>1 DEF vars, TypeOK
<1>2. CASE \E r \in Runs : Progress(r) \/ Fault(r)
  <2> PICK r \in Runs : Progress(r) \/ Fault(r)
    BY <1>2
  <2>1. CASE RecordAttempted(r) \/ RecordOutcome(r)
    <3>1. \E status \in AuditStatuses : audit' = audit \cup {[key |-> request[r].key, status |-> status]}
      BY <2>1 DEF RecordAttempted, RecordOutcome, RecordEvent, AuditStatuses
    <3>2. \E step \in Steps \cup Ended : Goto(r, step)
      BY <2>1 DEF RecordAttempted, RecordOutcome, RecordEvent, Steps, Ended
    <3>3. UNCHANGED <<request, tx, orderStatus, rows, receipts>>
      BY <2>1 DEF RecordAttempted, RecordOutcome, RecordEvent
    <3> QED
      BY <3>1, <3>2, <3>3, RequestFields DEF TypeOK, Goto
  <2>2. CASE Commit(r) \/ (CommitReplyLost(r) /\ Apply(r))
    <3>1. Apply(r) /\ \E step \in Steps \cup Ended : Goto(r, step)
      BY <2>2 DEF Commit, CommitReplyLost, Steps, Ended
    <3>2. UNCHANGED <<request, audit>> /\ tx' \in [Runs -> Transactions]
      BY <3>1 DEF Apply, Holds, NoTx, Transactions, TypeOK
    <3>3. rows' \subseteq [op : Operations, order : Orders, key : Keys, run : Runs]
      BY <3>1, RequestFields DEF Apply, Row, TypeOK
    <3>4. receipts' \subseteq [op : Operations, key : Keys, order : Orders, reason : STRING]
      BY <3>1, RequestFields DEF Apply, Receipt, TypeOK
    <3>5. orderStatus' \in [Orders -> OrderStatuses]
      BY <3>1, RequestFields DEF Apply, OrderStatuses, TypeOK
    <3> QED
      BY <3>1, <3>2, <3>3, <3>4, <3>5 DEF TypeOK, Goto
  <2>3. ASSUME NEW step \in Steps \cup Ended, Goto(r, step), UNCHANGED <<request, Durable>>,
               tx' = tx \/ (\E held \in Transactions : Holds(r, held))
        PROVE  TypeOK'
    BY <2>3 DEF TypeOK, Goto, Holds, Durable
  <2>4. NoTx \in Transactions
        /\ \A h \in Transactions : /\ [h EXCEPT !.row = TRUE] \in Transactions
                                   /\ [h EXCEPT !.receipt = TRUE] \in Transactions
    BY DEF NoTx, Transactions
  <2>5. tx[r] \in Transactions
    BY DEF TypeOK
  <2>6. \A b \in BOOLEAN : [row |-> b, lock |-> TRUE, receipt |-> FALSE] \in Transactions
    BY DEF Transactions
  <2>7. CASE Revalidate(r) \/ Call(r) \/ AuditError(r) \/ Crash(r)
    BY <2>7, <2>3, <2>4 DEF Revalidate, Call, AuditError, Crash, Steps, Ended
  <2>8. ASSUME Fail(r), UNCHANGED <<request, Durable>> PROVE TypeOK'
    BY <2>8, <2>3, <2>4 DEF Fail, Steps, Ended
  <2>9. ASSUME Conflict(r) \/ Replay(r) PROVE TypeOK'
    BY <2>9, <2>3, <2>4, <2>8 DEF Conflict, Replay, Steps
  <2>10. CASE Refuse(r) \/ StatementError(r) \/ CommitRefused(r)
    BY <2>10, <2>8 DEF Refuse, StatementError, CommitRefused
  <2>11. CASE Lookup(r)
    BY <2>11, <2>3, <2>9 DEF Lookup, Steps
  <2>12. CASE PerformCancel(r)
    BY <2>12, <2>3, <2>6, <2>8 DEF PerformCancel, Steps
  <2>13. CASE CheckRefund(r)
    BY <2>13, <2>3, <2>8 DEF CheckRefund, Steps
  <2>14. CASE InsertRefund(r) \/ PerformRecord(r) \/ InsertReceipt(r)
    BY <2>14, <2>3, <2>4, <2>5, <2>9 DEF InsertRefund, PerformRecord, InsertReceipt, Steps
  <2>15. CASE CommitReplyLost(r) /\ ~Apply(r)
    BY <2>15, <2>3, <2>4 DEF CommitReplyLost, Steps, Ended
  <2> QED
    BY <2>1, <2>2, <2>7, <2>10, <2>11, <2>12, <2>13, <2>14, <2>15 DEF Progress, Fault, Perform
<1>3. CASE \E o \in Orders : Fulfil(o)
  BY <1>3 DEF Fulfil, OrderStatuses, TypeOK
<1> QED
  BY <1>1, <1>2, <1>3 DEF Next

-----------------------------------------------------------------------------
(* Receipts and changes.                                                   *)

LEMMA ReceiptStep ==
    ASSUME Inv, [Next]_vars
    PROVE  ReceiptInv'
<1> USE DEF Inv
<1>1. TypeOK' /\ TypeOK
  BY TypeStep
<1>2. CASE UNCHANGED vars
  BY <1>2 DEF vars, ReceiptInv, HasReceipt, ReceiptInFlight, SameReceiptKey,
              ChangesAreReceipted, OneChangePerAction
<1>3. CASE \E o \in Orders : Fulfil(o)
  BY <1>3 DEF Fulfil, ReceiptInv, HasReceipt, ReceiptInFlight, SameReceiptKey,
              ChangesAreReceipted, OneChangePerAction
<1>4. ASSUME NEW r \in Runs, StoresNothing(r) PROVE ReceiptInv'
  <2>1. UNCHANGED <<request, rows, receipts>>
    BY <1>4 DEF StoresNothing
  <2>2. \A q \in Runs : (tx'[q].receipt => tx[q].receipt)
                        /\ (pc'[q] = "commit" /\ tx'[q].row => pc[q] = "commit" /\ tx'[q] = tx[q])
    BY <1>4, <1>1 DEF StoresNothing, Holds, NoTx, Goto, TypeOK, Steps, Ended
  <2>3. \A q \in Runs : (ReceiptInFlight(q)' => ReceiptInFlight(q)) /\ (HasReceipt(q)' <=> HasReceipt(q))
    BY <2>1, <2>2 DEF ReceiptInFlight, HasReceipt, SameReceiptKey
  <2>4. ChangesAreReceipted' /\ OneChangePerAction'
    BY <2>1 DEF ReceiptInv, ChangesAreReceipted, OneChangePerAction
  <2> QED
    BY <2>2, <2>3, <2>4 DEF ReceiptInv
<1>5. ASSUME NEW r \in Runs, TakesRow(r) PROVE ReceiptInv'
  <2>1. UNCHANGED <<request, rows, receipts>>
    BY <1>5 DEF TakesRow, Durable
  <2>2. \A q \in Runs : (tx'[q].receipt => tx[q].receipt)
                        /\ (pc'[q] = "commit" => pc[q] = "commit" /\ tx'[q] = tx[q])
    BY <1>5, <1>1 DEF TakesRow, Holds, Goto, TypeOK
  <2>3. \A q \in Runs : (ReceiptInFlight(q)' => ReceiptInFlight(q)) /\ (HasReceipt(q)' <=> HasReceipt(q))
    BY <2>1, <2>2 DEF ReceiptInFlight, HasReceipt, SameReceiptKey
  <2>4. ChangesAreReceipted' /\ OneChangePerAction'
    BY <2>1 DEF ReceiptInv, ChangesAreReceipted, OneChangePerAction
  <2> QED
    BY <2>2, <2>3, <2>4 DEF ReceiptInv
<1>6. ASSUME NEW r \in Runs, TakesReceipt(r) PROVE ReceiptInv'
  <2>1. UNCHANGED <<request, rows, receipts>>
    BY <1>6 DEF TakesReceipt, Durable
  <2>2. /\ tx'[r].receipt
        /\ \A q \in Runs \ {r} : tx'[q] = tx[q] /\ pc'[q] = pc[q]
    BY <1>6, <1>1 DEF TakesReceipt, Holds, Goto, TypeOK, Transactions
  <2>3. \A q \in Runs : HasReceipt(q)' <=> HasReceipt(q)
    BY <2>1 DEF HasReceipt, SameReceiptKey
  <2>4. ASSUME NEW q \in Runs, tx'[q].receipt PROVE ~HasReceipt(q)' /\ ~ReceiptInFlight(q)'
    BY <2>1, <2>2, <2>3, <2>4, <1>6 DEF TakesReceipt, ReceiptInFlight, SameReceiptKey, ReceiptInv
  <2>5. ChangesAreReceipted' /\ OneChangePerAction'
    BY <2>1 DEF ReceiptInv, ChangesAreReceipted, OneChangePerAction
  <2> QED
    BY <2>2, <2>4, <2>5 DEF ReceiptInv
<1>7. ASSUME NEW r \in Runs, Applies(r) PROVE ReceiptInv'
  <2>1. /\ rows' = IF tx[r].row THEN rows \cup {Row(r)} ELSE rows
        /\ receipts' = IF tx[r].receipt THEN receipts \cup {Receipt(r)} ELSE receipts
        /\ request' = request
    BY <1>7 DEF Applies, Apply
  <2>2. /\ tx'[r] = NoTx /\ pc'[r] # "commit"
        /\ \A q \in Runs \ {r} : tx'[q] = tx[q] /\ pc'[q] = pc[q]
    BY <1>7, <1>1 DEF Applies, Apply, Holds, Goto, TypeOK
  <2>3. ~tx'[r].receipt /\ ~tx'[r].row
    BY <2>2 DEF NoTx
  <2>4. tx[r].row => tx[r].receipt
    BY <1>7 DEF Applies, ReceiptInv
  <2>5. ASSUME NEW q \in Runs, tx'[q].receipt PROVE ~HasReceipt(q)' /\ ~ReceiptInFlight(q)'
    <3>1. q # r /\ tx[q].receipt
      BY <2>2, <2>3, <2>5
    <3>2. ~HasReceipt(q) /\ ~ReceiptInFlight(q)
      BY <3>1 DEF ReceiptInv
    <3>3. ~ReceiptInFlight(q)'
      BY <3>2, <2>1, <2>2, <2>3 DEF ReceiptInFlight, SameReceiptKey
    <3>4. tx[r].receipt => ~SameReceiptKey(q, Receipt(r))
      BY <3>1, <3>2 DEF ReceiptInFlight, SameReceiptKey, Receipt
    <3>5. ~HasReceipt(q)'
      BY <3>2, <3>4, <2>1 DEF HasReceipt, SameReceiptKey
    <3> QED
      BY <3>3, <3>5
  <2>6. tx[r].receipt => \A x \in receipts : ~(x.op = Receipt(r).op /\ x.key = Receipt(r).key)
    BY DEF ReceiptInv, HasReceipt, SameReceiptKey, Receipt
  <2>7. ChangesAreReceipted'
    <3>1. \A x, y \in receipts' : x.op = y.op /\ x.key = y.key => x = y
      BY <2>1, <2>6 DEF ReceiptInv, ChangesAreReceipted
    <3>2. tx[r].row => /\ Receipt(r) \in receipts' /\ Receipt(r).op = Row(r).op
                       /\ Receipt(r).key = Row(r).key /\ Receipt(r).order = Row(r).order
      BY <2>1, <2>4 DEF Receipt, Row
    <3>3. \A e \in rows' : \E x \in receipts' : x.op = e.op /\ x.key = e.key /\ x.order = e.order
      BY <3>2, <2>1 DEF ReceiptInv, ChangesAreReceipted
    <3> QED
      BY <3>1, <3>3 DEF ChangesAreReceipted
  <2>8. OneChangePerAction'
    <3>1. tx[r].row => \A e \in rows : ~(e.op = Row(r).op /\ e.key = Row(r).key)
      BY <2>4, <2>6 DEF ReceiptInv, ChangesAreReceipted, Row, Receipt
    <3> QED
      BY <3>1, <2>1 DEF ReceiptInv, OneChangePerAction
  <2> QED
    BY <2>2, <2>3, <2>5, <2>7, <2>8, <1>1 DEF ReceiptInv
<1> QED
  BY <1>2, <1>3, <1>4, <1>5, <1>6, <1>7, NextKinds DEF StepKind

-----------------------------------------------------------------------------
(* Refunds, locks, reports and the audit.                                  *)

LEMMA RefundStep ==
    ASSUME Inv, [Next]_vars
    PROVE  RefundInv'
<1> USE DEF Inv
<1>1. TypeOK' /\ TypeOK
  BY TypeStep
<1> DEFINE Refund(q) == request[q].op = "request_refund"
           Clear(q) == ~ActiveRefund(request[q].order) /\ ~RefundInFlight(q)
<1>2. CASE UNCHANGED vars
  BY <1>2 DEF vars, RefundInv, ActiveRefund, RefundInFlight, OneRefundPerOrder
<1>3. CASE \E o \in Orders : Fulfil(o)
  BY <1>3 DEF Fulfil, RefundInv, ActiveRefund, RefundInFlight, OneRefundPerOrder
<1>4. ASSUME UNCHANGED <<request, rows>>, \A q \in Runs : tx'[q].row => tx[q].row
      PROVE  RefundInv'
  <2>1. \A q \in Runs : Clear(q) => Clear(q)'
    BY <1>4 DEF ActiveRefund, RefundInFlight
  <2> QED
    BY <1>4, <2>1 DEF RefundInv, OneRefundPerOrder
<1>5. ASSUME NEW r \in Runs, StoresNothing(r) PROVE RefundInv'
  <2>1. \A q \in Runs : tx'[q].row => tx[q].row
    BY <1>5, <1>1 DEF StoresNothing, Holds, NoTx, TypeOK
  <2> QED
    BY <2>1, <1>4, <1>5 DEF StoresNothing
<1>6. ASSUME NEW r \in Runs, TakesReceipt(r) PROVE RefundInv'
  <2>1. \A q \in Runs : tx'[q].row => tx[q].row
    BY <1>6, <1>1 DEF TakesReceipt, Holds, TypeOK, Transactions
  <2> QED
    BY <2>1, <1>4, <1>6 DEF TakesReceipt, Durable
<1>7. ASSUME NEW r \in Runs, TakesRow(r) PROVE RefundInv'
  <2>1. UNCHANGED <<request, rows>>
    BY <1>7 DEF TakesRow, Durable
  <2>2. \A q \in Runs \ {r} : tx'[q] = tx[q]
    BY <1>7, <1>1 DEF TakesRow, Holds, TypeOK
  <2>3. tx'[r].row /\ Refund(r) => Clear(r)
    BY <1>7, <1>1 DEF TakesRow, Holds, TypeOK
  <2>4. ASSUME NEW q \in Runs, tx'[q].row, Refund(q) PROVE Clear(q)'
    <3>1. Clear(q)
      BY <2>2, <2>3, <2>4 DEF RefundInv
    <3>2. ASSUME NEW p \in Runs \ {q}, tx'[p].row, Refund(p), request[p].order = request[q].order
          PROVE  FALSE
      <4>1. CASE p = r
        BY <4>1, <3>2, <2>2, <2>3, <2>4 DEF RefundInFlight
      <4>2. CASE p # r
        BY <4>2, <3>1, <3>2, <2>2 DEF RefundInFlight
      <4> QED
        BY <4>1, <4>2
    <3> QED
      BY <3>1, <3>2, <2>1 DEF ActiveRefund, RefundInFlight
  <2> QED
    BY <2>1, <2>4 DEF RefundInv, OneRefundPerOrder
<1>8. ASSUME NEW r \in Runs, Applies(r) PROVE RefundInv'
  <2>1. /\ rows' = IF tx[r].row THEN rows \cup {Row(r)} ELSE rows
        /\ request' = request
    BY <1>8 DEF Applies, Apply
  <2>2. ~tx'[r].row /\ \A q \in Runs \ {r} : tx'[q] = tx[q]
    BY <1>8, <1>1 DEF Applies, Apply, Holds, NoTx, TypeOK
  <2>3. ASSUME NEW q \in Runs, tx'[q].row, Refund(q) PROVE Clear(q)'
    <3>1. q # r /\ tx[q].row /\ Clear(q)
      BY <2>2, <2>3 DEF RefundInv
    <3>2. ~RefundInFlight(q)'
      BY <3>1, <2>1, <2>2 DEF RefundInFlight
    <3>3. ~ActiveRefund(request[q].order)'
      BY <3>1, <2>1 DEF ActiveRefund, RefundInFlight, Row
    <3> QED
      BY <3>2, <3>3, <2>1
  <2>4. OneRefundPerOrder'
    <3>1. tx[r].row /\ Refund(r) => \A e \in rows : ~(e.op = "request_refund" /\ e.order = request[r].order)
      BY DEF RefundInv, ActiveRefund
    <3> QED
      BY <3>1, <2>1 DEF RefundInv, OneRefundPerOrder, Row
  <2> QED
    BY <2>1, <2>3, <2>4 DEF RefundInv
<1> QED
  BY <1>2, <1>3, <1>5, <1>6, <1>7, <1>8, NextKinds DEF StepKind

\* The order of a run's cancellation may be cancelled before and after any step.
LEMMA LockStep ==
    ASSUME Inv, [Next]_vars
    PROVE  LockInv'
<1> USE DEF Inv
<1>1. TypeOK' /\ TypeOK
  BY TypeStep
<1>2. CASE UNCHANGED vars
  BY <1>2 DEF vars, LockInv, Cancellable
<1>3. ASSUME NEW o \in Orders, Fulfil(o) PROVE LockInv'
  <2>1. UNCHANGED <<request, pc, tx>> /\ ~OrderLocked(o)
    BY <1>3 DEF Fulfil
  <2>2. \A p \in Orders \ {o} : Cancellable(p) => Cancellable(p)'
    BY <1>3, <1>1 DEF Fulfil, Cancellable, TypeOK
  <2>3. \A r \in Runs : tx[r].lock => request[r].order \in Orders \ {o}
    BY <2>1, RequestFields DEF OrderLocked
  <2> QED
    BY <2>1, <2>2, <2>3 DEF LockInv
<1>4. ASSUME NEW r \in Runs, StepKind(r) PROVE LockInv'
  <2>1. request' = request /\ \A o \in Orders : Cancellable(o) => Cancellable(o)'
    BY <1>4, <1>1 DEF StepKind, StoresNothing, TakesRow, TakesReceipt, Applies, Apply, Durable,
                      Cancellable, TypeOK
  <2>2. \A q \in Runs \ {r} : tx'[q] = tx[q] /\ pc'[q] = pc[q]
    BY <1>4, <1>1 DEF StepKind, StoresNothing, TakesRow, TakesReceipt, Applies, Apply, Holds, Goto, TypeOK
  <2>3. pc'[r] = "insert" => request[r].op = "request_refund"
    BY <1>4, <1>1 DEF StepKind, StoresNothing, TakesRow, TakesReceipt, Applies, Goto, TypeOK
  <2>4. ASSUME tx'[r].row, request[r].op = "cancel_order"
        PROVE  tx'[r].lock /\ Cancellable(request[r].order)
    <3>1. CASE TakesRow(r)
      BY <3>1, <2>4, <1>1 DEF TakesRow, Holds, TypeOK
    <3>2. CASE StoresNothing(r) \/ Applies(r)
      BY <3>2, <2>4, <1>1 DEF StoresNothing, Applies, Apply, Holds, NoTx, TypeOK, LockInv
    <3>3. CASE TakesReceipt(r)
      BY <3>3, <2>4, <1>1 DEF TakesReceipt, Holds, TypeOK, Transactions, LockInv
    <3> QED
      BY <1>4, <3>1, <3>2, <3>3 DEF StepKind
  <2>5. \A q \in Runs : request[q].order \in Orders
    BY RequestFields
  <2> QED
    BY <2>1, <2>2, <2>3, <2>4, <2>5 DEF LockInv
<1> QED
  BY <1>2, <1>3, <1>4, NextKinds

LEMMA ReportStep ==
    ASSUME Inv, [Next]_vars
    PROVE  ReportInv'
<1> USE DEF Inv
<1>1. TypeOK' /\ TypeOK
  BY TypeStep
<1>2. CASE UNCHANGED vars
  BY <1>2 DEF vars, ReportInv, Receipt
<1>3. CASE \E o \in Orders : Fulfil(o)
  BY <1>3 DEF Fulfil, ReportInv, Receipt
<1>4. ASSUME NEW r \in Runs, StepKind(r) PROVE ReportInv'
  <2>1. request' = request /\ receipts \subseteq receipts'
    BY <1>4 DEF StepKind, StoresNothing, TakesRow, TakesReceipt, Applies, Apply, Durable
  <2>2. \A q \in Runs \ {r} : tx'[q] = tx[q] /\ pc'[q] = pc[q]
    BY <1>4, <1>1 DEF StepKind, StoresNothing, TakesRow, TakesReceipt, Applies, Apply, Holds, Goto, TypeOK
  <2>3. \A q \in Runs : Receipt(q)' = Receipt(q)
    BY <2>1 DEF Receipt
  <2>4. /\ pc'[r] = "commit" => tx'[r].receipt \/ Receipt(r) \in receipts'
        /\ pc'[r] \in {"success", "executed"} => Receipt(r) \in receipts'
    <3>1. CASE StoresNothing(r)
      BY <3>1, <1>1 DEF StoresNothing, Goto, TypeOK, ReportInv
    <3>2. CASE TakesRow(r)
      BY <3>2, <1>1 DEF TakesRow, Goto, TypeOK
    <3>3. CASE TakesReceipt(r)
      BY <3>3, <1>1 DEF TakesReceipt, Holds, Goto, TypeOK, Transactions
    <3>4. CASE Applies(r)
      BY <3>4, <1>1 DEF Applies, Apply, Goto, TypeOK, ReportInv
    <3> QED
      BY <1>4, <3>1, <3>2, <3>3, <3>4 DEF StepKind
  <2>5. ASSUME NEW e \in rows' PROVE pc'[e.run] \in Stored
    <3>1. e.run \in Runs
      BY <1>1 DEF TypeOK
    <3>2. CASE e.run # r
      <4>1. e \in rows
        BY <1>4, <3>2 DEF StepKind, StoresNothing, TakesRow, TakesReceipt, Applies, Apply, Durable, Row
      <4> QED
        BY <4>1, <3>1, <3>2, <2>2 DEF ReportInv
    <3>3. CASE e.run = r
      <4>1. CASE Applies(r)
        BY <4>1, <3>3, <1>1 DEF Applies, Goto, TypeOK, Stored
      <4>2. CASE ~Applies(r)
        <5>1. e \in rows
          BY <1>4, <4>2 DEF StepKind, StoresNothing, TakesRow, TakesReceipt, Durable
        <5>2. pc[r] \in Stored
          BY <5>1, <3>3 DEF ReportInv
        <5>3. StoresNothing(r)
          BY <5>2, <1>4, <4>2 DEF StepKind, TakesRow, TakesReceipt, Stored
        <5> QED
          BY <5>2, <5>3, <3>3, <1>1 DEF StoresNothing, Goto, TypeOK
      <4> QED
        BY <4>1, <4>2
    <3> QED
      BY <3>2, <3>3
  <2> QED
    BY <2>1, <2>2, <2>3, <2>4, <2>5 DEF ReportInv
<1> QED
  BY <1>2, <1>3, <1>4, NextKinds

LEMMA AuditStep ==
    ASSUME Inv, [Next]_vars
    PROVE  AuditInv'
<1> USE DEF Inv
<1>1. TypeOK' /\ TypeOK
  BY TypeStep
<1>2. CASE UNCHANGED vars
  BY <1>2 DEF vars, AuditInv, AuditIsAhead, Audited, Attempted
<1>3. CASE \E o \in Orders : Fulfil(o)
  BY <1>3 DEF Fulfil, AuditInv, AuditIsAhead, Audited, Attempted
<1>4. ASSUME NEW r \in Runs, StepKind(r) PROVE AuditInv'
  <2>1. request' = request /\ receipts \subseteq receipts' /\ audit \subseteq audit'
    BY <1>4 DEF StepKind, StoresNothing, TakesRow, TakesReceipt, Applies, Apply, Durable
  <2>2. \A q \in Runs \ {r} : pc'[q] = pc[q]
    BY <1>4, <1>1 DEF StepKind, StoresNothing, TakesRow, TakesReceipt, Applies, Goto, TypeOK
  <2>3. \A q \in Runs : (Audited(q)' <=> Audited(q)) /\ Attempted(q)' = Attempted(q)
    BY <2>1 DEF Audited, Attempted
  <2>4. Audited(r) /\ pc'[r] \in Calling => Attempted(r) \in audit'
    <3>1. pc'[r] \in Calling => pc[r] \in Calling \/ Attempted(r) \in audit'
      BY <1>4, <1>1 DEF StepKind, StoresNothing, TakesRow, TakesReceipt, Applies, Goto, TypeOK, Calling
    <3> QED
      BY <3>1, <2>1 DEF AuditInv
  <2>5. ASSUME NEW e \in rows', Audited(e.run)
        PROVE  [key |-> e.key, status |-> "attempted"] \in audit'
    <3>1. CASE e \in rows
      BY <3>1, <2>1, <2>5 DEF AuditInv, AuditIsAhead
    <3>2. CASE e \notin rows
      <4>1. e = Row(r) /\ pc[r] = "commit"
        BY <1>4, <3>2 DEF StepKind, StoresNothing, TakesRow, TakesReceipt, Applies, Apply, Durable
      <4>2. Attempted(r) \in audit
        BY <4>1, <2>5 DEF AuditInv, Calling, Row
      <4> QED
        BY <4>1, <4>2, <2>1 DEF Row, Attempted
    <3> QED
      BY <3>1, <3>2
  <2>6. ASSUME NEW a \in audit', a.status = "success"
        PROVE  \E x \in receipts' : x.key = a.key
    <3>1. CASE a \in audit
      BY <3>1, <2>1, <2>6 DEF AuditInv, AuditIsAhead
    <3>2. CASE a \notin audit
      <4>1. pc[r] = "success" /\ a.key = request[r].key
        BY <1>4, <3>2, <2>6 DEF StepKind, StoresNothing, TakesRow, TakesReceipt, Applies, Apply, Durable
      <4>2. Receipt(r) \in receipts /\ Receipt(r).key = a.key
        BY <4>1 DEF ReportInv, Receipt
      <4> QED
        BY <4>2, <2>1
    <3> QED
      BY <3>1, <3>2
  <2> QED
    BY <2>1, <2>2, <2>3, <2>4, <2>5, <2>6, <1>1 DEF AuditInv, AuditIsAhead, Audited, TypeOK
<1> QED
  BY <1>2, <1>3, <1>4, NextKinds

LEMMA HoldStep ==
    ASSUME Inv, [Next]_vars
    PROVE  HoldInv'
<1> USE DEF Inv
<1>1. TypeOK' /\ TypeOK
  BY TypeStep
<1>2. CASE UNCHANGED vars
  BY <1>2 DEF vars, HoldInv
<1>3. CASE \E o \in Orders : Fulfil(o)
  BY <1>3 DEF Fulfil, HoldInv
<1>4. ASSUME NEW r \in Runs, StepKind(r) PROVE HoldInv'
  <2>1. \A q \in Runs \ {r} : tx'[q] = tx[q] /\ pc'[q] = pc[q]
    BY <1>4, <1>1 DEF StepKind, StoresNothing, TakesRow, TakesReceipt, Applies, Apply, Holds, Goto, TypeOK
  <2>2. CASE StoresNothing(r) \/ Applies(r)
    BY <2>1, <2>2, <1>1 DEF StoresNothing, Applies, Apply, Holds, NoTx, HoldInv, TypeOK
  <2>3. CASE TakesRow(r)
    <3>1. pc'[r] = "receipt" /\ ~tx'[r].receipt
      BY <2>3, <1>1 DEF TakesRow, Holds, Goto, HoldInv, TypeOK
    <3> QED
      BY <2>1, <3>1 DEF HoldInv
  <2>4. CASE TakesReceipt(r)
    <3>1. pc'[r] = "commit"
      BY <2>4, <1>1 DEF TakesReceipt, Goto, TypeOK
    <3> QED
      BY <2>1, <3>1 DEF HoldInv
  <2> QED
    BY <1>4, <2>2, <2>3, <2>4 DEF StepKind
<1> QED
  BY <1>2, <1>3, <1>4, NextKinds

-----------------------------------------------------------------------------
(* The theorems.                                                           *)

LEMMA Invariance == Spec => []Inv
<1>1. Inv /\ [Next]_vars => Inv'
  BY TypeStep, ReceiptStep, RefundStep, LockStep, ReportStep, AuditStep, HoldStep DEF Inv
<1> QED
  BY InitInv, <1>1, PTL DEF Spec

\* Every variable of the business writes keeps its type.
THEOREM TypeCorrect == Spec => []TypeOK
  BY Invariance, PTL DEF Inv

\* execute_idempotent: for any number of concurrent runs with equal and different keys,
\* a key causes one change.
THEOREM EffectsCorrect == Spec => []OneChangePerAction
  BY Invariance, PTL DEF Inv, ReceiptInv

\* The savepoint of execute_idempotent: every stored change has the receipt that keeps a
\* retry, a replay or a concurrent run from repeating it, and a key has one receipt.
THEOREM ReceiptsCorrect == Spec => []ChangesAreReceipted
  BY Invariance, PTL DEF Inv, ReceiptInv

\* Every operation takes the row lock, its index slot and its receipt in this order: a
\* run at its commit waits for nobody, one at its receipt only for such, and any other
\* only for these two, so that no set of runs of any size waits in a circle.
THEOREM WritesDoNotDeadlock == Spec => []NoCircularWait
<1>1. ASSUME Inv, NEW r \in Runs, NEW q \in Runs \ {r}, WaitsFor(r, q)
      PROVE  pc[q] = "commit" \/ (pc[q] = "receipt" /\ pc[r] \in {"perform", "insert"})
  BY <1>1 DEF Inv, HoldInv, WaitsFor, References
<1>2. ASSUME Inv, NEW S \in (SUBSET Runs) \ {{}}
      PROVE  \E r \in S : \A q \in S \ {r} : ~WaitsFor(r, q)
  <2>1. CASE \E r \in S : pc[r] = "commit"
    BY <2>1, <1>2 DEF WaitsFor, References
  <2>2. CASE \A r \in S : pc[r] # "commit"
    <3>1. CASE \E r \in S : pc[r] = "receipt"
      BY <3>1, <2>2, <1>1, <1>2
    <3>2. CASE \A r \in S : pc[r] # "receipt"
      BY <3>2, <2>2, <1>1, <1>2
    <3> QED
      BY <3>1, <3>2
  <2> QED
    BY <2>1, <2>2
<1>3. Inv => NoCircularWait
  BY <1>1, <1>2 DEF NoCircularWait, Ended
<1> QED
  BY <1>3, Invariance, PTL

\* request_refund: an order never has two refunds under way.
THEOREM RefundsCorrect == Spec => []OneRefundPerOrder
  BY Invariance, PTL DEF Inv, RefundInv

\* execute_tool and the HTTP routes: a reported success is stored, a reported failure
\* has left nothing.
THEOREM ReportsCorrect == Spec => []ReportsAreTrue
<1>1. Inv => ReportsAreTrue
  BY DEF Inv, ReportInv, ReportsAreTrue, Stored
<1> QED
  BY <1>1, Invariance, PTL

\* The audit of an agent's attempt is there before its change, and a success is only
\* audited of a stored one.
THEOREM AuditCorrect == Spec => []AuditIsAhead
  BY Invariance, PTL DEF Inv, AuditInv

\* cancel_order: no step turns an order that has left the warehouse into a cancelled one.
THEOREM ShippedOrdersStay == Spec => ShippedStaysShipped
<1> DEFINE Kept == \A o \in Orders : orderStatus'[o] = "cancelled" => Cancellable(o)
<1>1. Inv /\ [Next]_vars => Kept
  <2> SUFFICES ASSUME Inv, [Next]_vars, NEW o \in Orders, orderStatus'[o] = "cancelled",
                      orderStatus[o] # "cancelled"
               PROVE  Cancellable(o)
    BY DEF Cancellable
  <2>1. ~(\E p \in Orders : Fulfil(p)) /\ ~UNCHANGED vars
    BY DEF Fulfil, vars, Inv, TypeOK
  <2>2. PICK r \in Runs : Applies(r)
    BY <2>1, NextKinds DEF StepKind, StoresNothing, TakesRow, TakesReceipt, Durable, Inv
  <2>3. tx[r].row /\ request[r].op = "cancel_order" /\ o = request[r].order
    BY <2>2, RequestFields DEF Applies, Apply, Inv, TypeOK
  <2> QED
    BY <2>3 DEF Inv, LockInv
<1>2. Inv /\ [Next]_vars =>
        [\A o \in Orders : orderStatus'[o] = "cancelled"
            => orderStatus[o] \in {"pending", "processing", "cancelled"}]_vars
  BY <1>1 DEF Cancellable
<1> QED
  BY <1>2, Invariance, PTL DEF Spec, ShippedStaysShipped

-----------------------------------------------------------------------------
(* BusinessWrites implements ActionEffects.                                *)

ChangesOf(a) == {e \in rows : <<e.op, e.key>> = a}
Counted == [a \in Operations \X Keys |-> Cardinality(ChangesOf(a))]

\* A transaction that holds a change counts for its action, which had none.
LEMMA EffectStep ==
    ASSUME Inv, NEW r \in Runs, Applies(r), tx[r].row,
           NEW action \in Operations \X Keys, action = <<request[r].op, request[r].key>>
    PROVE  Counted[action] = 0 /\ Counted' = [Counted EXCEPT ![action] = 1]
<1>1. rows' = rows \cup {Row(r)} /\ <<Row(r).op, Row(r).key>> = action
  BY DEF Applies, Apply, Row
<1>2. ChangesOf(action) = {}
  <2>1. tx[r].receipt /\ ~HasReceipt(r)
    BY DEF Applies, Inv, ReceiptInv
  <2>2. \A e \in rows : ~(e.op = request[r].op /\ e.key = request[r].key)
    BY <2>1 DEF HasReceipt, SameReceiptKey, Inv, ReceiptInv, ChangesAreReceipted
  <2> QED
    BY <2>2 DEF ChangesOf
<1>3. {e \in rows' : <<e.op, e.key>> = action} = {Row(r)}
  BY <1>1, <1>2 DEF ChangesOf
<1>4. \A a \in Operations \X Keys : a # action => {e \in rows' : <<e.op, e.key>> = a} = ChangesOf(a)
  BY <1>1 DEF ChangesOf
<1>5. Cardinality({}) = 0 /\ Cardinality({Row(r)}) = 1
  BY FS_EmptySet, FS_Singleton
<1>6. Counted[action] = 0
  BY <1>2, <1>5 DEF Counted
<1>7. Counted' = [a \in Operations \X Keys |-> IF a = action THEN 1 ELSE Cardinality(ChangesOf(a))]
  <2>1. Counted' = [a \in Operations \X Keys |-> Cardinality({e \in rows' : <<e.op, e.key>> = a})]
    BY DEF Counted, ChangesOf
  <2> QED
    BY <2>1, <1>3, <1>4, <1>5
<1>8. Counted' = [Counted EXCEPT ![action] = 1]
  BY <1>7 DEF Counted
<1> QED
  BY <1>6, <1>8

\* However often an action is confirmed, submitted, repeated or replayed, the business
\* writes are those of ActionEffects: at most one change per action.
THEOREM ImplementsEffects == Spec => EffectSpec
<1>1. Init => Effects!Init
  <2> SUFFICES ASSUME Init PROVE \A a \in Operations \X Keys : Cardinality({e \in rows : <<e.op, e.key>> = a}) = 0
    BY DEF Effects!Init
  <2> QED
    BY FS_EmptySet DEF Init
<1>2. Inv /\ [Next]_vars => [Effects!Next]_Counted
  <2> SUFFICES ASSUME Inv, [Next]_vars, rows' # rows
               PROVE  Effects!Next
    BY DEF Counted, ChangesOf
  <2>1. PICK r \in Runs : Applies(r)
    BY NextKinds DEF StepKind, StoresNothing, TakesRow, TakesReceipt, Fulfil, Durable, vars, Inv
  <2>2. tx[r].row
    BY <2>1 DEF Applies, Apply
  <2>3. PICK action \in Operations \X Keys : action = <<request[r].op, request[r].key>>
    BY RequestFields DEF Inv
  <2>4. Counted[action] = 0 /\ Counted' = [Counted EXCEPT ![action] = 1]
    BY <2>1, <2>2, <2>3, EffectStep
  <2> QED
    BY <2>4 DEF Effects!Next, Effects!Perform, Counted, ChangesOf
<1>3. Inv /\ [Next]_vars => [Effects!Next]_[a \in Operations \X Keys |->
                                                Cardinality({e \in rows : <<e.op, e.key>> = a})]
  BY <1>2 DEF Counted, ChangesOf
<1> QED
  BY <1>1, <1>3, Invariance, PTL DEF Spec, EffectSpec, Effects!Spec

-----------------------------------------------------------------------------
(* BusinessWrites implements IdempotentWrites.                             *)

Answers == [r \in Runs |-> Told(r)]

LEMMA AnswerKept ==
    ASSUME TypeOK, NEW r \in Runs, UNCHANGED <<request, receipts>>,
           \A q \in Runs \ {r} : pc'[q] = pc[q],
           \/ pc'[r] = pc[r]
           \/ pc[r] \in Unanswered /\ pc'[r] \in Unanswered
           \/ <<pc[r], pc'[r]>> \in {<<"success", "executed">>, <<"failure", "failed">>,
                                    <<"audit_unknown", "unknown">>}
    PROVE  UNCHANGED <<receipts, Answers>>
<1>1. \A q \in Runs : Receipt(q)' = Receipt(q)
  BY DEF Receipt
<1>2. \A q \in Runs \ {r} : Told(q)' = Told(q)
  BY <1>1 DEF Told
<1>3. Told(r)' = Told(r)
  BY <1>1 DEF Told, Unanswered, Steps
<1> QED
  BY <1>2, <1>3 DEF Answers

\* A run that changes what one caller is told.
LEMMA AnswerChanged ==
    ASSUME TypeOK, NEW r \in Runs, request' = request, \A q \in Runs \ {r} : pc'[q] = pc[q]
    PROVE  /\ Answers' = [Answers EXCEPT ![r] = Told(r)']
           /\ Answers[r] = Told(r) /\ Receipt(r)' = Receipt(r)
<1>1. \A q \in Runs : Receipt(q)' = Receipt(q)
  BY DEF Receipt
<1>2. \A q \in Runs \ {r} : Told(q)' = Told(q)
  BY <1>1 DEF Told
<1> QED
  BY <1>1, <1>2 DEF Answers

LEMMA WaitingAnswer ==
    ASSUME NEW r \in Runs, NEW x, Told(r) = Writes!Outcome("asked", x)
    PROVE  Writes!Waiting(r) /\ Writes!Asked(r) = x
  BY DEF Writes!Waiting, Writes!Asked, Writes!Outcome

LEMMA QuietWrite ==
    ASSUME Inv, NEW r \in Runs, StoresNothing(r)
    PROVE  Writes!Next \/ UNCHANGED <<receipts, Answers>>
<1> USE DEF Inv
<1>1. /\ request' = request /\ receipts' = receipts /\ Follows(pc[r], pc'[r])
      /\ \A q \in Runs \ {r} : pc'[q] = pc[q]
  BY DEF StoresNothing, Goto, TypeOK
<1>2. /\ Answers' = [Answers EXCEPT ![r] = Told(r)']
      /\ Answers[r] = Told(r) /\ Receipt(r)' = Receipt(r)
  BY <1>1, AnswerChanged
<1>3. CASE pc[r] \in Unanswered /\ pc'[r] \in {"failure", "failed"}
  <2>1. Told(r) = Writes!Outcome("asked", Receipt(r)) /\ Told(r)' = Writes!Outcome("failed", Receipt(r))
    BY <1>2, <1>3 DEF Told, Unanswered, Steps, Writes!Outcome
  <2>2. Writes!Fail(r)
    BY <1>1, <1>2, <2>1, WaitingAnswer DEF Answers, Writes!Fail, Writes!Tell
  <2> QED
    BY <2>2 DEF Writes!Next
<1>4. CASE pc[r] \in Unanswered /\ pc'[r] \in {"audit_unknown", "unknown"} \cup Gone
  <2>1. /\ Told(r) = Writes!Outcome("asked", Receipt(r))
        /\ Told(r)' \in {Writes!Outcome("unknown", Receipt(r)), Writes!Nothing}
    BY <1>2, <1>4 DEF Told, Unanswered, Steps, Gone, Writes!Outcome, Writes!Nothing
  <2>2. Writes!Lose(r)
    BY <1>1, <1>2, <2>1, WaitingAnswer DEF Answers, Writes!Lose, Writes!Tell
  <2> QED
    BY <2>2 DEF Writes!Next
<1>5. CASE pc[r] \in {"success", "failure", "audit_unknown"} /\ pc'[r] \in Gone
  <2>1. Told(r).kind # "asked" /\ Told(r)' = Writes!Nothing
    BY <1>2, <1>5 DEF Told, Gone, Writes!Nothing
  <2>2. Writes!Forget(r)
    BY <1>1, <1>2, <2>1 DEF Answers, Writes!Forget, Writes!Waiting, Writes!Tell
  <2> QED
    BY <2>2 DEF Writes!Next
<1>6. CASE \/ pc[r] \in Unanswered /\ pc'[r] \in Unanswered
           \/ <<pc[r], pc'[r]>> \in {<<"success", "executed">>, <<"failure", "failed">>,
                                    <<"audit_unknown", "unknown">>}
  BY <1>1, <1>6, AnswerKept
<1> QED
  BY <1>1, <1>3, <1>4, <1>5, <1>6 DEF Follows

\* The commit is the one step of a write: its key is free or already this request's.
LEMMA CommitWrite ==
    ASSUME Inv, NEW r \in Runs, Applies(r)
    PROVE  Writes!Next
<1> USE DEF Inv
<1>1. /\ request' = request /\ pc[r] = "commit"
      /\ pc'[r] \in {"success", "executed", "audit_unknown", "unknown"}
      /\ \A q \in Runs \ {r} : pc'[q] = pc[q]
  BY DEF Applies, Apply, Goto, TypeOK
<1>2. /\ Answers' = [Answers EXCEPT ![r] = Told(r)']
      /\ Answers[r] = Told(r) /\ Receipt(r)' = Receipt(r)
  BY <1>1, AnswerChanged
<1>3. receipts' = receipts \cup {Receipt(r)}
  BY <1>1 DEF Applies, Apply, ReportInv
<1>4. ~Writes!Taken(Receipt(r))
  <2>1. CASE tx[r].receipt
    BY <2>1 DEF ReceiptInv, HasReceipt, SameReceiptKey, Receipt, Writes!Taken
  <2>2. CASE Receipt(r) \in receipts
    BY <2>2 DEF ReceiptInv, ChangesAreReceipted, Writes!Taken
  <2> QED
    BY <1>1, <2>1, <2>2 DEF ReportInv
<1>5. Told(r) = Writes!Outcome("asked", Receipt(r))
  BY <1>1 DEF Told, Writes!Outcome
<1>6. Writes!Waiting(r) /\ Writes!Asked(r) = Receipt(r) /\ Writes!Store(Receipt(r))
  BY <1>3, <1>4, <1>5, WaitingAnswer DEF Writes!Store
<1>7. CASE pc'[r] \in {"success", "executed"}
  <2>1. Told(r)' = Writes!Outcome("done", Receipt(r))
    BY <1>2, <1>7 DEF Told, Writes!Outcome
  <2>2. Writes!Succeed(r)
    BY <1>2, <1>6, <2>1 DEF Answers, Writes!Succeed, Writes!Tell
  <2> QED
    BY <2>2 DEF Writes!Next
<1>8. CASE pc'[r] \in {"audit_unknown", "unknown"}
  <2>1. Told(r)' = Writes!Outcome("unknown", Receipt(r))
    BY <1>2, <1>8 DEF Told, Writes!Outcome
  <2>2. Writes!Lose(r)
    BY <1>2, <1>6, <2>1 DEF Answers, Writes!Lose, Writes!Tell
  <2> QED
    BY <2>2 DEF Writes!Next
<1> QED
  BY <1>1, <1>7, <1>8

\* Any number of concurrent runs of execute_idempotent, with lost replies, failing
\* statements and crashes, behave as writes of one step each, and tell their callers so.
THEOREM ImplementsWrites == Spec => WriteSpec
<1>1. Init => Writes!Init
  <2> SUFFICES ASSUME Init PROVE Writes!Init
    OBVIOUS
  <2>1. ASSUME NEW r \in Runs
        PROVE  /\ Told(r) = Writes!Outcome("asked", Receipt(r))
               /\ Receipt(r) \in {[op |-> q.op, key |-> q.key, order |-> q.order, reason |-> q.reason] : q \in Requests}
    BY <2>1 DEF Init, Entry, Told, Receipt, Writes!Outcome
  <2> QED
    BY <2>1 DEF Init, Writes!Init
<1>2. Inv /\ [Next]_vars => [Writes!Next]_<<receipts, Answers>>
  <2> SUFFICES ASSUME Inv, [Next]_vars PROVE Writes!Next \/ UNCHANGED <<receipts, Answers>>
    OBVIOUS
  <2>1. CASE UNCHANGED vars \/ \E o \in Orders : Fulfil(o)
    <3>1. UNCHANGED <<request, pc, receipts>>
      BY <2>1 DEF vars, Fulfil
    <3>2. \A r \in Runs : Told(r)' = Told(r)
      BY <3>1 DEF Told, Receipt
    <3> QED
      BY <3>1, <3>2 DEF Answers
  <2>2. ASSUME NEW r \in Runs, TakesRow(r) \/ TakesReceipt(r)
        PROVE  UNCHANGED <<receipts, Answers>>
    <3>1. /\ UNCHANGED <<request, receipts>> /\ pc[r] \in Unanswered /\ pc'[r] \in Unanswered
          /\ \A q \in Runs \ {r} : pc'[q] = pc[q]
      BY <2>2 DEF TakesRow, TakesReceipt, Goto, Durable, Inv, TypeOK, Unanswered, Steps
    <3> QED
      BY <3>1, AnswerKept DEF Inv
  <2>3. ASSUME NEW r \in Runs, StepKind(r)
        PROVE  Writes!Next \/ UNCHANGED <<receipts, Answers>>
    BY <2>2, <2>3, QuietWrite, CommitWrite DEF StepKind
  <2> QED
    BY <2>1, <2>3, NextKinds DEF Inv
<1>3. Inv /\ [Next]_vars => [Writes!Next]_Writes!vars
  BY <1>2 DEF Writes!vars, Answers
<1> QED
  BY <1>1, <1>3, Invariance, PTL DEF Spec, WriteSpec, Writes!Spec
=============================================================================
