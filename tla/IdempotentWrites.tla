-------------------------- MODULE IdempotentWrites --------------------------
(***************************************************************************)
(* A business write as whoever asks for it may understand it: one step     *)
(* that stores the receipt of the request, unless a receipt of another     *)
(* request has taken the key, and tells the caller so.  The graph of a     *)
(* conversation is written against this interface; the transactions of     *)
(* execute_idempotent provide it.                                          *)
(***************************************************************************)

CONSTANTS
    Callers,      \* who asks: a run, a thread of the HTTP routes
    Requests      \* what can be asked: records with an operation op and a key

VARIABLES
    stored,       \* the receipts
    outcome       \* what each caller asked for last, and what it was told

vars == <<stored, outcome>>

Nothing == [kind |-> "nothing"]
Outcome(kind, x) == [kind |-> kind, of |-> x]

\* The key of the request belongs to another one.
Taken(x) == \E y \in stored : y.op = x.op /\ y.key = x.key /\ y # x

Store(x) == ~Taken(x) /\ stored' = stored \cup {x}
Waiting(c) == outcome[c].kind = "asked"
Asked(c) == outcome[c].of
Tell(c, what) == outcome' = [outcome EXCEPT ![c] = what]

Init ==
    /\ stored = {}
    /\ outcome \in [Callers -> {Nothing} \cup {Outcome("asked", x) : x \in Requests}]

Ask(c, x) ==
    /\ ~Waiting(c)
    /\ Tell(c, Outcome("asked", x))
    /\ UNCHANGED stored

\* The write is done, now or by an earlier caller with the very same request.
Succeed(c) ==
    /\ Waiting(c)
    /\ Store(Asked(c))
    /\ Tell(c, Outcome("done", Asked(c)))

\* Nothing was stored.
Fail(c) ==
    /\ Waiting(c)
    /\ Tell(c, Outcome("failed", Asked(c)))
    /\ UNCHANGED stored

\* The caller cannot know; or it is gone.
Lose(c) ==
    /\ Waiting(c)
    /\ Store(Asked(c)) \/ UNCHANGED stored
    /\ Tell(c, Outcome("unknown", Asked(c))) \/ Tell(c, Nothing)

Forget(c) ==
    /\ ~Waiting(c)
    /\ Tell(c, Nothing)
    /\ UNCHANGED stored

Next == \E c \in Callers :
    \/ \E x \in Requests : Ask(c, x)
    \/ Succeed(c) \/ Fail(c) \/ Lose(c) \/ Forget(c)

Spec == Init /\ [][Next]_vars
=============================================================================
