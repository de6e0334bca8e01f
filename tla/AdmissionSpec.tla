---------------------------- MODULE AdmissionSpec ----------------------------
(***************************************************************************)
(* What the admission of connections promises, with no counter, no map and *)
(* no roll-back: at most MaxConnections sockets have a thread, at most     *)
(* MaxPerIp of one address are served, and a socket is turned away only    *)
(* while one of these is used up.  ServerAdmission implements it.          *)
(***************************************************************************)
EXTENDS Integers, FiniteSets

CONSTANTS Conns, IPs, None, MaxConnections, MaxPerIp

VARIABLES state,   \* of each socket: idle, served, ending or turned (away)
          peer     \* the address served there, None if there is none to know

vars == <<state, peer>>

Init ==
    /\ state = [c \in Conns |-> "idle"]
    /\ peer = [c \in Conns |-> None]

Threads    == {c \in Conns : state[c] \in {"served", "ending"}}
Served(ip) == {c \in Conns : state[c] = "served" /\ peer[c] = ip}

SlotFree      == Cardinality(Threads) < MaxConnections
ShareFree(ip) == ip \in IPs => Cardinality(Served(ip)) < MaxPerIp

Admit(c, ip) ==
    /\ state[c] = "idle" /\ SlotFree /\ ShareFree(ip)
    /\ state' = [state EXCEPT ![c] = "served"]
    /\ peer' = [peer EXCEPT ![c] = ip]

TurnAway(c, ip) ==
    /\ state[c] = "idle" /\ ~(SlotFree /\ ShareFree(ip))
    /\ state' = [state EXCEPT ![c] = "turned"]
    /\ UNCHANGED peer

\* The client is gone: its address has the share back, the slot is still held.
End(c) ==
    /\ state[c] = "served"
    /\ state' = [state EXCEPT ![c] = "ending"]
    /\ peer' = [peer EXCEPT ![c] = None]

Close(c) ==
    /\ state[c] \in {"ending", "turned"}
    /\ state' = [state EXCEPT ![c] = "idle"]
    /\ UNCHANGED peer

Next ==
    \E c \in Conns :
       \/ \E ip \in IPs \cup {None} : Admit(c, ip) \/ TurnAway(c, ip)
       \/ End(c) \/ Close(c)

Spec == Init /\ [][Next]_vars
=============================================================================
