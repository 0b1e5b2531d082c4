---- MODULE MCClaimSettlement ----
\* Instance of ClaimSettlement for TLC: two users with a claim each, one consumer
\* thread and the settlers of two replicas.
EXTENDS ClaimSettlement, TLC

CONSTANTS c1, c2, u1, u2, w1, s1, s2

OwnerOf == c1 :> u1 @@ c2 :> u2
Settlers == {s1, s2}

\* The settlers are alike, and so are the two users with their claims.
SwapUsers == c1 :> c2 @@ c2 :> c1 @@ u1 :> u2 @@ u2 :> u1
Symmetry == Permutations(Settlers) \cup {SwapUsers}
====
