---- MODULE MCClaimGovernance ----
\* Instances of ClaimGovernance for TLC: one failed claim c1, a rival claim c2 of
\* the same user and a claim c3 of another user, all of which may still be consumed.
EXTENDS ClaimGovernance, TLC

CONSTANTS f1, c1, c2, c3, u1, u2, s1, s2

TheFailure == f1 :> c1
OwnerOf == c1 :> u1 @@ c2 :> u1 @@ c3 :> u2
OwnerAlone == c1 :> u1
====
