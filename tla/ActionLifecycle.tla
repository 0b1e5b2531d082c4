--------------------------- MODULE ActionLifecycle ---------------------------
(***************************************************************************)
(* What a conversation promises about the actions that need the user's     *)
(* consent: an action is offered, waits, is decided once, and only a       *)
(* confirmed one is carried out.  At most one action lives at a time; one  *)
(* may be set aside, and comes back waiting, never confirmed.              *)
(***************************************************************************)
CONSTANTS Actions     \* what can be offered: records with a field "status"

VARIABLES
    live,     \* the action of the conversation, or the one with status "none"
    aside,    \* the action set aside, or the one with status "none"
    done      \* the actions carried out, with their status removed

vars == <<live, aside, done>>

Decisions == {"CONFIRMED", "REJECTED", "EXPIRED"}
Outcomes == {"EXECUTED", "FAILED"}
Absent(a) == a.status = "none"
Body(a) == [id |-> a.id, tool |-> a.tool, order |-> a.order]
Becomes(status) == live' = [live EXCEPT !.status = status]

Init == Absent(live) /\ Absent(aside) /\ done = {}

Offer == /\ Absent(live) /\ live' \in Actions /\ live'.status = "PENDING"
         /\ UNCHANGED <<aside, done>>

Decide == /\ live.status = "PENDING" /\ \E d \in Decisions : Becomes(d)
          /\ UNCHANGED <<aside, done>>

\* Carried out, with a known outcome, with a lost one, or before a crash.
CarryOut == /\ live.status = "CONFIRMED"
            /\ done' = done \cup {Body(live)}
            /\ live' = live \/ \E o \in Outcomes : Becomes(o)
            /\ UNCHANGED aside

GiveUp == live.status = "CONFIRMED" /\ Becomes("FAILED") /\ UNCHANGED <<aside, done>>

SetAside == /\ live.status = "PENDING" /\ aside' = live
            /\ Absent(live') /\ UNCHANGED done

Resume == /\ Absent(live) /\ aside.status = "PENDING" /\ live' = aside
          /\ Absent(aside') /\ UNCHANGED done

\* Superseded, overwritten, refused by the security boundary, or settled and gone.
Forget == /\ live' = live \/ Absent(live') \/ (live.status = "PENDING" /\ Becomes("REJECTED"))
          /\ aside' = aside \/ Absent(aside')
          /\ UNCHANGED done

Next == Offer \/ Decide \/ CarryOut \/ GiveUp \/ SetAside \/ Resume \/ Forget

Spec == Init /\ [][Next]_vars
=============================================================================
