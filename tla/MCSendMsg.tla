------------------------------ MODULE MCSendMsg ------------------------------
(* Instances of SendMsg for TLC; messages and recipients are               *)
(* interchangeable in the safety runs.                                     *)
EXTENDS SendMsg, TLC

Symmetry == Permutations(Msgs) \cup Permutations(Recipients)

(* State constraint: one message meets all the disturbances the bounds     *)
(* allow; two messages meet one of them together, and then the jobs that   *)
(* upload messages, which no other step looks at, are left out.            *)
FewDisturbances ==
    \/ \E m \in Msgs : row[m] = "none"
    \/ /\ lost + crashes + memberChanges <= 1
       /\ \A m \in Msgs : uploads[m] = 0
=============================================================================
