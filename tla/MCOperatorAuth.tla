--------------------------- MODULE MCOperatorAuth ---------------------------
(* OperatorAuth on small sets; the .cfg files choose who changes emails.    *)
EXTENDS OperatorAuth, TLC

CONSTANTS s1, s2, s3, e1, e2, e3, corp

\* Users and tokens are told apart only by what happens to them.
Symmetry == Permutations(Callbacks) \cup Permutations(Requests)
            \cup Permutations(StateTokens) \cup Permutations(SessionTokens)
            \cup Permutations(OperatorIds)

Account(s, e) == [subject |-> s, email |-> e]

\* The admin keeps an email; a second user moves between two, one of which a
\* third user is given.
OthersMove == {Account(s1, e1), Account(s2, e2), Account(s2, e3), Account(s3, e2)}

\* The admin is reported with another email.
AdminMoves == {Account(s1, e1), Account(s1, e2)}

OneDomain == [e \in Emails |-> corp]
=============================================================================
