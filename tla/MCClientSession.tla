-------------------------- MODULE MCClientSession --------------------------
(* Small instances of ClientSession for TLC: two browser tabs at a time, two *)
(* disclaimer texts, a command channel of two, and per run a budget for each *)
(* operator and environment event.  An event without an entry never happens. *)
EXTENDS ClientSession, TLC

CONSTANTS d1, d2, p1, p2

\* Tabs and texts are interchangeable; not used where liveness is checked.
Symmetry == Permutations({p1, p2}) \cup Permutations({d1, d2})

Times(f) == [e \in Kinds |-> IF e \in DOMAIN f THEN f[e] ELSE 0]

\* Opening sessions: repeated connects, both decisions, modem restarts.
BudgetHandshake == Times([modem |-> 2, connect |-> 2, accept |-> 2, decline |-> 1,
                          shutdown |-> 1, modemDies |-> 1, lateLink |-> 1])

\* Requests that reconnect, against Disconnect and a peer that goes away.
BudgetReconnect == Times([modem |-> 1, connect |-> 1, accept |-> 1, browse |-> 2,
                          disconnect |-> 1, peerEnds |-> 1, lostDisc |-> 1, abandon |-> 1])

\* Several requests, with text between the answers and a second session.
BudgetAnswers == Times([modem |-> 1, connect |-> 2, accept |-> 2, browse |-> 3,
                        peerEnds |-> 1, noise |-> 1])

\* Everything the liveness properties wait for, in small numbers.
BudgetLiveness == Times([modem |-> 1, connect |-> 1, accept |-> 1, decline |-> 1,
                         browse |-> 1, disconnect |-> 1, peerEnds |-> 1])
=============================================================================
