----------------------------- MODULE MCRequests -----------------------------
(* Requests for TLC: the values of its constants are in the cfg *)
EXTENDS Requests, TLC

(* Users other than the creator are interchangeable, and so are slots *)
Symmetry == Permutations(Users \ {Creator}) \cup Permutations(Slots)
=============================================================================
