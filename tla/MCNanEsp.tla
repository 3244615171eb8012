------------------------------ MODULE MCNanEsp ------------------------------
(* Model values for NanEsp: two stations, each on a cluster of its own. *)
EXTENDS NanEsp

CONSTANTS s1, s2, m1, m2

TwoClusters == [s \in {s1, s2} |-> IF s = s1 THEN "c1" ELSE "c2"]
=============================================================================
