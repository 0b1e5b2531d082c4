---- MODULE CouponIssue ----
\* What the seckill subsystem promises about one coupon, whatever Redis and
\* RocketMQ do in between: rows appear in user_coupon one at a time, never for a
\* user who has one, never more than the coupon has stock, and never disappear.
EXTENDS Naturals, FiniteSets

CONSTANTS
    Claim,       \* claimIds, one UUID per press of the button
    User,
    Owner,       \* Owner[c] is the user who pressed it
    TotalStock   \* seckill_coupon.total_stock

VARIABLE issued  \* the claims that have become a coupon of their owner

Holders(S) == {Owner[c] : c \in S}

Init == issued = {}

Issue(c) ==
    /\ c \notin issued
    /\ Owner[c] \notin Holders(issued)
    /\ Cardinality(issued) < TotalStock
    /\ issued' = issued \cup {c}

Next == \E c \in Claim : Issue(c)

Spec == Init /\ [][Next]_issued
====
