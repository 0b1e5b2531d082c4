---- MODULE MCClaimPipeline ----
\* Instances of ClaimPipeline for TLC: c1 and c2 are two presses of the button by
\* the same user, c3 belongs to another one.
EXTENDS ClaimPipeline, TLC

CONSTANTS c1, c2, c3, u1, u2, w1, w2

TwoClaims == {c1, c3}
ThreeClaims == {c1, c2, c3}
OwnerOf == c1 :> u1 @@ c2 :> u1 @@ c3 :> u2
OwnerOfTwo == c1 :> u1 @@ c3 :> u2

Workers == {w1, w2}
WorkerSymmetry == Permutations(Workers)
====
