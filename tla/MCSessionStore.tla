--------------------------- MODULE MCSessionStore ---------------------------
(* Three requests, two of them of one principal.                            *)
EXTENDS SessionStore

CONSTANTS r1, r2, r3, anon, operator
Requests == {r1, r2, r3}
Principals == [r \in Requests |-> IF r = r3 THEN operator ELSE anon]
=============================================================================
