---------------------------- MODULE MCRateLimiter ----------------------------
(* Constant values for model checking RateLimiter.                          *)
EXTENDS RateLimiter, TLC

CONSTANTS c1, c2

MCLimit == (c1 :> 2) @@ (c2 :> 1)

TaskSymmetry == Permutations(Tasks)
=============================================================================
