------------------------------- MODULE MCApiGate -------------------------------
(* Instances of ApiGate for TLC. *)
EXTENDS ApiGate, TLC

\* The two limits that a wrong key meets, and a route with a second bucket.
GateRoutes == {"lab", "pairing_request"}

SmallLimit == [b \in Buckets |-> IF b = "lab-path" THEN 3 ELSE 2]
SmallWindow == [b \in Buckets |-> IF b = "pairing-request" THEN 2 ELSE 1]
SmallThreshold == [r \in Rules |-> IF r = "REPEATED_AUTH_FAILURES" THEN 2 ELSE 3]

Symmetry == Permutations(Threads)
=============================================================================
