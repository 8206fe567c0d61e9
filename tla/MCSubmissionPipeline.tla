------------------------- MODULE MCSubmissionPipeline -------------------------
(* Instances of SubmissionPipeline for TLC. *)
EXTENDS SubmissionPipeline, TLC

CONSTANTS s1, s2, r1, r2

OneSubmission   == {s1}
TwoSubmissions  == {s1, s2}
OneReplica      == {r1}
TwoReplicas     == {r1, r2}
AllAtFirst      == [s \in Submissions |-> r1]
OneEach         == (s1 :> r1) @@ (s2 :> r2)

\* Submissions change places together with their replicas.
Swaps == {p \in Permutations(Submissions \cup Replicas) :
            \A s \in Submissions : p[s] \in Submissions /\ Home[p[s]] = p[Home[s]]}

Verdicts == {"AC", "CE"}
=============================================================================
