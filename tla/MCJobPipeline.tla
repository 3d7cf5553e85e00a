--------------------------- MODULE MCJobPipeline ---------------------------
(* Instances of JobPipeline for TLC. *)
EXTENDS JobPipeline, TLC

CONSTANTS p1, p2, w1, w2, w3, s1, s2, a1, h1, h2, h3

MCOnePool  == [t \in Worker \cup Producer |-> p1]
MCTwoPools == [t \in Worker \cup Producer |-> IF t \in {w3, s2} THEN p2 ELSE p1]

\* Workers of one pool, and HARQ processes, are interchangeable.
MCSharedSymmetry == Permutations({w1, w2}) \cup Permutations({h1, h2, h3})

=============================================================================
