-------------------------------- MODULE MCApp --------------------------------
(* Two schedules of two people, read from one of two nodes. *)
EXTENDS App, TLC

CONSTANTS s1, s2, p1, p2, n1, n2

MCHolder == (s1 :> p1) @@ (s2 :> p2)

\* Exchanging the schedules along with their people changes nothing, nor does
\* exchanging the nodes.
Symmetry ==
  {f \in Permutations({s1, s2, p1, p2, n1, n2}) :
     /\ {f[n1], f[n2]} = {n1, n2}
     /\ <<f[s1], f[s2], f[p1], f[p2]>> \in {<<s1, s2, p1, p2>>, <<s2, s1, p2, p1>>}}
=============================================================================
