--------------------------- MODULE ServerAdmission ---------------------------
(***************************************************************************)
(* The accept loop of server/src/main.rs: the total number of connections  *)
(* (an atomic counter) and the number per address (a map under a mutex)    *)
(* are taken by the loop and given back by it, when it refuses, or by the  *)
(* guards of the connection's thread.  Loop and threads interleave between *)
(* any two accesses to a counter.                                          *)
(***************************************************************************)
EXTENDS Integers, FiniteSets

CONSTANTS Conns,           \* sockets; one is used again after it is closed
          IPs,             \* peer addresses
          None,            \* no address, no socket, no entry
          MaxConnections,  \* MAX_CONNECTIONS
          MaxPerIp         \* MAX_CONNECTIONS_PER_IP

ASSUME AdmissionAssumption ==
    /\ IsFiniteSet(Conns)
    /\ None \notin Conns \cup IPs \cup Nat
    /\ MaxConnections \in Nat \ {0}
    /\ MaxPerIp \in Nat \ {0}

VARIABLES at,      \* the socket the loop is busy with, or None
          stage,   \* what has happened to each socket
          addr,    \* its peer's address, None if peer_addr() failed
          count,   \* connection_count
          peers    \* peer_counts, None for an address without an entry

vars == <<at, stage, addr, count, peers>>

\* The stages in the loop ("over": the slot was claimed in excess of the cap,
\* "rollback": it has been returned, the address's share not yet) and those
\* of the connection's thread ("leaving": one of its two guards is dropped).
LoopStages   == {"accepted", "counted", "over", "rollback", "refused"}
ThreadStages == {"running", "leaving"}

TypeOK ==
    /\ at \in Conns \cup {None}
    /\ stage \in [Conns -> {"none"} \cup LoopStages \cup ThreadStages]
    /\ addr \in [Conns -> IPs \cup {None}]
    /\ count \in Nat
    /\ peers \in [IPs -> (Nat \ {0}) \cup {None}]

Init ==
    /\ at = None
    /\ stage = [c \in Conns |-> "none"]
    /\ addr = [c \in Conns |-> None]
    /\ count = 0
    /\ peers = [ip \in IPs |-> None]

Enter(c, s) == stage' = [stage EXCEPT ![c] = s]

-----------------------------------------------------------------------------
(* The loop.                                                               *)

Accept(c, ip) ==
    /\ at = None /\ stage[c] = "none"
    /\ at' = c
    /\ addr' = [addr EXCEPT ![c] = ip]
    /\ Enter(c, "accepted")
    /\ UNCHANGED <<count, peers>>

\* A socket option cannot be set: the stream is dropped.
TimeoutSetFails(c) ==
    /\ at = c /\ stage[c] = "accepted"
    /\ at' = None
    /\ Enter(c, "none")
    /\ UNCHANGED <<addr, count, peers>>

Entries(ip) == IF peers[ip] = None THEN 0 ELSE peers[ip]

\* Defects a change of this code could introduce.
LateCap(c) ==
    /\ at = c /\ stage[c] = "accepted"
    /\ UNCHANGED <<at, addr, count>>
    /\ \/ addr[c] = None /\ Enter(c, "counted") /\ UNCHANGED peers
       \/ /\ addr[c] # None /\ Entries(addr[c]) > MaxPerIp
          /\ Enter(c, "refused") /\ UNCHANGED peers
       \/ /\ addr[c] # None /\ Entries(addr[c]) <= MaxPerIp
          /\ Enter(c, "counted")
          /\ peers' = [peers EXCEPT ![addr[c]] = Entries(addr[c]) + 1]

PeerCap(c) ==
    /\ at = c /\ stage[c] = "accepted"
    /\ UNCHANGED <<at, addr, count>>
    /\ \/ addr[c] = None /\ Enter(c, "counted") /\ UNCHANGED peers
       \/ /\ addr[c] # None /\ Entries(addr[c]) >= MaxPerIp
          /\ Enter(c, "refused") /\ UNCHANGED peers
       \/ /\ addr[c] # None /\ Entries(addr[c]) < MaxPerIp
          /\ Enter(c, "counted")
          /\ peers' = [peers EXCEPT ![addr[c]] = Entries(addr[c]) + 1]

EagerClaim(c) ==
    /\ at = c /\ stage[c] = "counted"
    /\ count' = count + 1
    /\ UNCHANGED <<addr, peers>>
    /\ \/ count' >= MaxConnections /\ Enter(c, "over") /\ UNCHANGED at
       \/ count' < MaxConnections /\ Enter(c, "running") /\ at' = None

LateClaim(c) ==
    /\ at = c /\ stage[c] = "counted"
    /\ count' = count + 1
    /\ UNCHANGED <<addr, peers>>
    /\ \/ count > MaxConnections /\ Enter(c, "over") /\ UNCHANGED at
       \/ count <= MaxConnections /\ Enter(c, "running") /\ at' = None

\* fetch_add, and the spawn of the thread when the cap was not reached.
ClaimSlot(c) ==
    /\ at = c /\ stage[c] = "counted"
    /\ count' = count + 1
    /\ UNCHANGED <<addr, peers>>
    /\ \/ count >= MaxConnections /\ Enter(c, "over") /\ UNCHANGED at
       \/ count < MaxConnections /\ Enter(c, "running") /\ at' = None

ReleaseSlot(c) ==
    /\ at = c /\ stage[c] = "over"
    /\ count' = count - 1
    /\ Enter(c, "rollback")
    /\ UNCHANGED <<at, addr, peers>>

\* get_mut, saturating_sub, remove at zero.
LeaveEntry(ip) ==
    IF ip = None \/ Entries(ip) = 0 THEN peers
    ELSE [peers EXCEPT ![ip] = Entries(ip) - 1]

OnePeerLess(ip) ==
    IF ip = None \/ Entries(ip) = 0 THEN peers
    ELSE [peers EXCEPT ![ip] = IF Entries(ip) = 1 THEN None ELSE Entries(ip) - 1]

KeepPeer(c) ==
    /\ at = c /\ stage[c] = "rollback"
    /\ Enter(c, "refused")
    /\ UNCHANGED <<at, addr, count, peers>>

RollbackPeer(c) ==
    /\ at = c /\ stage[c] = "rollback"
    /\ peers' = OnePeerLess(addr[c])
    /\ Enter(c, "refused")
    /\ UNCHANGED <<at, addr, count>>

Shutdown(c) ==
    /\ at = c /\ stage[c] = "refused"
    /\ at' = None
    /\ Enter(c, "none")
    /\ UNCHANGED <<addr, count, peers>>

-----------------------------------------------------------------------------
(* The thread: handle_connection has returned or panicked, and the guards  *)
(* are dropped in the reverse order of their declaration.                  *)

DropPeerGuard(c) ==
    /\ stage[c] = "running"
    /\ peers' = OnePeerLess(addr[c])
    /\ Enter(c, "leaving")
    /\ UNCHANGED <<at, addr, count>>

ForgetSlot(c) ==
    /\ stage[c] = "leaving"
    /\ Enter(c, "none")
    /\ UNCHANGED <<at, addr, count, peers>>

DropConnGuard(c) ==
    /\ stage[c] = "leaving"
    /\ count' = count - 1
    /\ Enter(c, "none")
    /\ UNCHANGED <<at, addr, peers>>

-----------------------------------------------------------------------------
Loop(c) ==
    \/ \E ip \in IPs \cup {None} : Accept(c, ip)
    \/ TimeoutSetFails(c) \/ PeerCap(c) \/ ClaimSlot(c)
    \/ ReleaseSlot(c) \/ RollbackPeer(c) \/ Shutdown(c)

Thread(c) == DropPeerGuard(c) \/ DropConnGuard(c)

Next == \E c \in Conns : Loop(c) \/ Thread(c)

Spec == Init /\ [][Next]_vars

-----------------------------------------------------------------------------
(* Properties.                                                             *)

In(stages) == {c \in Conns : stage[c] \in stages}
From(ip, stages) == {c \in In(stages) : addr[c] = ip}

\* connection_count is the number of sockets that hold a slot: no
\* interleaving of the loop's roll-back (main.rs:121-139) with threads that
\* end loses a slot or returns one twice.
CountExact == count = Cardinality(In({"running", "leaving", "over"}))

\* The map has an entry for exactly the addresses with a live connection, and
\* it is their number (main.rs:106-112, 124-135, 153-163): an address cannot
\* use up its share with connections that are gone, and the map does not grow.
PeersExact ==
    \A ip \in IPs :
        LET live == From(ip, {"counted", "over", "rollback", "running"})
        IN  peers[ip] = IF live = {} THEN None ELSE Cardinality(live)

\* The caps hold for the connections that are served, although the check and
\* the increment of the total are two different looks at a shared counter.
CapsHold ==
    /\ Cardinality(In({"running", "leaving"})) <= MaxConnections
    /\ \A ip \in IPs : Cardinality(From(ip, {"running"})) <= MaxPerIp

\* A connection is turned away only when the cap is really used up: by the
\* total cap only with MaxConnections threads alive, by an address's cap only
\* with MaxPerIp threads serving that address.
RefusedForCause ==
    [][\A c \in Conns :
         /\ stage[c] = "counted" /\ stage'[c] = "over"
              => Cardinality(In({"running", "leaving"})) = MaxConnections
         /\ stage[c] = "accepted" /\ stage'[c] = "refused"
              => Cardinality(From(addr[c], {"running"})) = MaxPerIp]_vars

-----------------------------------------------------------------------------
(* Refinement of AdmissionSpec.                                            *)

\* Only the spawn of a thread admits and only the two refusals turn away;
\* what the loop does in between is not seen.
Shown(s) ==
    CASE s = "running"                           -> "served"
      [] s = "leaving"                           -> "ending"
      [] s \in {"over", "rollback", "refused"}   -> "turned"
      [] s \in {"none", "accepted", "counted"}   -> "idle"

Admission == INSTANCE AdmissionSpec WITH
    state <- [c \in Conns |-> Shown(stage[c])],
    peer  <- [c \in Conns |-> IF stage[c] = "running" THEN addr[c] ELSE None]

\* The loop with its counter, its map and its roll-backs (main.rs:82-174)
\* implements the admission by free slots and free shares.
ImplementsAdmission == Admission!Spec
=============================================================================
