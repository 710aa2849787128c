-------------------------- MODULE MCSessionLifecycle --------------------------
(* Instances of the session's life for TLC: calls c1 and c2 or provisionings *)
(* p1 and p2 overlap, and Docker may make containers b1 and b2.              *)
EXTENDS SessionLifecycle, TLC

CONSTANTS c1, c2, p1, p2, b1, b2

MCAlike == {f @@ g @@ h : f \in Permutations(Calls), g \in Permutations(Tasks),
                          h \in Permutations(Containers)}

=============================================================================
