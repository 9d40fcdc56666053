---------------------------- MODULE MCAccounts ----------------------------
(* What the two providers return, the first with a list of addresses, the   *)
(* second with one: accounts of both that share an address, one with        *)
(* several addresses, and ones with no verified address or none at all.     *)
EXTENDS Accounts

CONSTANTS e1, e2, p1, p2, a1, a2

Payload(p, a, emails) == [provider |-> p, account |-> a, emails |-> emails]

Listed(e, p, v) == [email |-> e, primary |-> p, verified |-> v]

MCPayloads == {Payload(p1, a1, <<Listed(e1, TRUE, TRUE)>>),
               Payload(p1, a1, <<Listed(e1, TRUE, FALSE), Listed(e2, FALSE, TRUE)>>),
               Payload(p1, a2, <<Listed(e2, TRUE, TRUE), Listed(e1, FALSE, FALSE)>>),
               Payload(p1, a2, <<Listed(e2, TRUE, FALSE)>>),
               Payload(p2, a1, <<Listed(e1, TRUE, TRUE)>>),
               Payload(p2, a2, <<>>)}
=============================================================================
