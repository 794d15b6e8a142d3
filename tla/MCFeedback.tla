----------------------------- MODULE MCFeedback -----------------------------
(* The owner of the instance's project.                                      *)
EXTENDS Feedback, TLC

CONSTANTS demo, mo, ann, ben

MCOwner == demo :> mo

\* ann and ben are neither owners nor named by any definition.
Symmetry == Permutations({ann, ben})
=============================================================================
