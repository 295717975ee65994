--------------------------- MODULE MCBobaAutopilot ---------------------------
(***************************************************************************)
(* Instances of BobaAutopilot: calls one after the other, and two at once. *)
(***************************************************************************)
EXTENDS BobaAutopilot
CONSTANTS r1, r2, c1
RunSymmetry == {[r \in Runs |-> r], [r \in Runs |-> IF r = r1 THEN r2 ELSE r1]}
=============================================================================
