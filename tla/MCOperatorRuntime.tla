------------------------- MODULE MCOperatorRuntime -------------------------
(* OperatorRuntime on small sets of ids; each .cfg asks one question.       *)
EXTENDS OperatorRuntime, TLC

\* Ids are interchangeable: the safety runs count states up to renaming.
Symmetry == Permutations(Recs) \cup Permutations(Runs) \cup Permutations(Submissions)

\* Everything strategies and risk policies can come up with.
AllProfiles == [hold : BOOLEAN, decision : Decisions]

\* A trade the policies approve and one they reject.
ApprovedOrRejected == [hold : {FALSE}, decision : {"APPROVED", "REJECTED"}]

\* What the policies do not approve outright, and what they do.
ApprovedOrNot == [hold : {FALSE}, decision : {"APPROVED", "REVIEW"}]
=============================================================================
