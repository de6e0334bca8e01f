---------------------------- MODULE ClientClaims ----------------------------
(* What a document of the repository says of the client session layer and  *)
(* the code does not do, refuted by TLC on ClientSession.                   *)
EXTENDS MCClientSession

\* The last prompt was left without a decision for 300 s.
ConsentTimedOut == prompts # 0 /\ chan = "open" /\ pc # "consent"

\* README.md, "BPQ Handshake": if the operator times out, the client tears down
\* the AX.25 link -- at some time, by whatever part of the client, before the next
\* prompt.
TimeOutTearsDownLink == ConsentTimedOut ~> (phase = "none" \/ ~ConsentTimedOut)

\* One of each is enough.
BudgetClaims == Times([modem |-> 1, connect |-> 1, accept |-> 1, decline |-> 1, browse |-> 1,
                       disconnect |-> 1])
=============================================================================
