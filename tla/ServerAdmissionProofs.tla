------------------------ MODULE ServerAdmissionProofs ------------------------
(***************************************************************************)
(* The counters of the accept loop, for any number of sockets and          *)
(* addresses and any two caps.                                             *)
(***************************************************************************)
EXTENDS ServerAdmission, FiniteSetTheorems, TLAPS

Holding  == {"running", "leaving", "over"}
Sharing  == {"counted", "over", "rollback", "running"}

\* The loop is busy with one socket at a time.
LoopInv == \A c \in Conns : stage[c] \in LoopStages <=> at = c

\* No more than MaxConnections threads, no more than MaxPerIp live
\* connections of one address, those still in the loop included.
SlotsBounded == Cardinality(In(ThreadStages)) <= MaxConnections
ShareBounded == \A ip \in IPs : Cardinality(From(ip, Sharing)) <= MaxPerIp

IInv == TypeOK /\ LoopInv /\ CountExact /\ PeersExact /\ SlotsBounded /\ ShareBounded

USE AdmissionAssumption

-----------------------------------------------------------------------------
(* How a change of one socket's stage changes the sets the counters count. *)

\* The sets of sockets are finite.
LEMMA Finite ==
  ASSUME NEW A, NEW ip
  PROVE  /\ IsFiniteSet(In(A)) /\ Cardinality(In(A)) \in Nat
         /\ IsFiniteSet(From(ip, A)) /\ Cardinality(From(ip, A)) \in Nat
<1>1. In(A) \in SUBSET Conns /\ From(ip, A) \in SUBSET Conns
  BY DEF In, From
<1>2. QED
  BY <1>1, FS_Subset, FS_CardinalityType

\* The cardinality of a set that gains or loses at most one element.
LEMMA OneElement ==
  ASSUME NEW S, NEW T, NEW c, IsFiniteSet(S), S \ {c} = T \ {c}
  PROVE  /\ Cardinality(S) \in Nat
         /\ c \in S => Cardinality(S) >= 1
         /\ c \in T /\ c \notin S => Cardinality(T) = Cardinality(S) + 1
         /\ c \notin T /\ c \in S => Cardinality(T) = Cardinality(S) - 1
         /\ (c \in T <=> c \in S) => T = S
<1>1. Cardinality(S) \in Nat
  BY FS_CardinalityType
<1>2. ASSUME c \in T, c \notin S
      PROVE  Cardinality(T) = Cardinality(S) + 1
  <2>1. T = S \cup {c}
    BY <1>2
  <2>2. QED
    BY <1>2, <2>1, FS_AddElement
<1>3. ASSUME c \notin T, c \in S
      PROVE  Cardinality(T) = Cardinality(S) - 1
  <2>1. T = S \ {c}
    BY <1>3
  <2>2. QED
    BY <1>3, <2>1, FS_RemoveElement
<1>4. c \in S => Cardinality(S) # 0
  BY FS_EmptySet
<1>5. ASSUME c \in T <=> c \in S
      PROVE  T = S
  BY <1>5
<1>6. QED
  BY <1>1, <1>2, <1>3, <1>4, <1>5

\* Enter(c, s) changes the sockets in a set of stages by c alone.
LEMMA Move ==
  ASSUME TypeOK, NEW c \in Conns, NEW s, Enter(c, s), NEW A
  PROVE  /\ Cardinality(In(A)) \in Nat
         /\ stage[c] \in A => Cardinality(In(A)) >= 1
         /\ s \in A /\ stage[c] \notin A => Cardinality(In(A)') = Cardinality(In(A)) + 1
         /\ s \notin A /\ stage[c] \in A => Cardinality(In(A)') = Cardinality(In(A)) - 1
         /\ (s \in A <=> stage[c] \in A) => In(A)' = In(A)
<1>1. In(A) \ {c} = In(A)' \ {c}
  BY DEF TypeOK, Enter, In
<1>2. (c \in In(A) <=> stage[c] \in A) /\ (c \in In(A)' <=> s \in A)
  BY DEF TypeOK, Enter, In
<1>3. IsFiniteSet(In(A))
  BY Finite
<1>4. QED
  BY <1>1, <1>2, <1>3, OneElement

\* The same for the sockets of one address, if c's address does not change or
\* c is not counted.
LEMMA MoveFrom ==
  ASSUME TypeOK, NEW c \in Conns, NEW s, Enter(c, s), NEW A, NEW ip,
         \A d \in Conns : d # c => addr'[d] = addr[d],
         addr'[c] = addr[c] \/ (s \notin A /\ stage[c] \notin A)
  PROVE  /\ Cardinality(From(ip, A)) \in Nat
         /\ addr[c] = ip /\ stage[c] \in A => Cardinality(From(ip, A)) >= 1
         /\ addr[c] = ip /\ s \in A /\ stage[c] \notin A =>
              Cardinality(From(ip, A)') = Cardinality(From(ip, A)) + 1
         /\ addr[c] = ip /\ s \notin A /\ stage[c] \in A =>
              Cardinality(From(ip, A)') = Cardinality(From(ip, A)) - 1
         /\ (addr[c] # ip \/ (s \in A <=> stage[c] \in A)) => From(ip, A)' = From(ip, A)
         /\ c \in From(ip, A) <=> addr[c] = ip /\ stage[c] \in A
         /\ c \in From(ip, A)' <=> addr'[c] = ip /\ s \in A
<1>1. From(ip, A) \ {c} = From(ip, A)' \ {c}
  BY DEF TypeOK, Enter, In, From
<1>2. c \in From(ip, A) <=> addr[c] = ip /\ stage[c] \in A
  BY DEF TypeOK, Enter, In, From
<1>3. c \in From(ip, A)' <=> addr'[c] = ip /\ s \in A
  BY DEF TypeOK, Enter, In, From
<1>4. IsFiniteSet(From(ip, A))
  BY Finite
<1>5. QED
  BY <1>1, <1>2, <1>3, <1>4, OneElement

-----------------------------------------------------------------------------
(* What the actions do to the counters.                                    *)

\* A step moves one socket and, but for Accept, changes no address.
LEMMA StepShape ==
  ASSUME TypeOK, NEW c \in Conns, Loop(c) \/ Thread(c)
  PROVE  /\ \A d \in Conns : d # c => addr'[d] = addr[d]
         /\ \/ addr' = addr
            \/ stage[c] = "none" /\ Enter(c, "accepted")
         /\ \/ stage[c] = "none" /\ Enter(c, "accepted") /\ at = None /\ at' = c
            \/ at = c /\ \/ stage[c] = "accepted" /\ Enter(c, "none") /\ at' = None
                         \/ stage[c] = "accepted" /\ Enter(c, "refused") /\ at' = at
                         \/ stage[c] = "accepted" /\ Enter(c, "counted") /\ at' = at
                         \/ stage[c] = "counted" /\ Enter(c, "over") /\ at' = at
                         \/ stage[c] = "counted" /\ Enter(c, "running") /\ at' = None
                         \/ stage[c] = "over" /\ Enter(c, "rollback") /\ at' = at
                         \/ stage[c] = "rollback" /\ Enter(c, "refused") /\ at' = at
                         \/ stage[c] = "refused" /\ Enter(c, "none") /\ at' = None
            \/ stage[c] = "running" /\ Enter(c, "leaving") /\ at' = at
            \/ stage[c] = "leaving" /\ Enter(c, "none") /\ at' = at
<1>1. ASSUME NEW ip \in IPs \cup {None}, Accept(c, ip)
      PROVE  /\ \A d \in Conns : d # c => addr'[d] = addr[d]
             /\ stage[c] = "none" /\ Enter(c, "accepted") /\ at = None /\ at' = c
  BY <1>1 DEF Accept, TypeOK
<1>2. CASE \E ip \in IPs \cup {None} : Accept(c, ip)
  BY <1>1, <1>2
<1>3. CASE TimeoutSetFails(c)
  BY <1>3 DEF TimeoutSetFails
<1>4. CASE PeerCap(c)
  BY <1>4 DEF PeerCap
<1>5. CASE ClaimSlot(c)
  BY <1>5 DEF ClaimSlot
<1>6. CASE ReleaseSlot(c)
  BY <1>6 DEF ReleaseSlot
<1>7. CASE RollbackPeer(c)
  BY <1>7 DEF RollbackPeer
<1>8. CASE Shutdown(c)
  BY <1>8 DEF Shutdown
<1>9. CASE DropPeerGuard(c)
  BY <1>9 DEF DropPeerGuard
<1>10. CASE DropConnGuard(c)
  BY <1>10 DEF DropConnGuard
<1>11. QED
  BY <1>2, <1>3, <1>4, <1>5, <1>6, <1>7, <1>8, <1>9, <1>10 DEF Loop, Thread

\* OnePeerLess undoes one increment and removes an entry that reaches zero.
LEMMA OnePeerLessIs ==
  ASSUME TypeOK, NEW ip \in IPs, peers[ip] # None
  PROVE  OnePeerLess(ip) =
           [peers EXCEPT ![ip] = IF peers[ip] = 1 THEN None ELSE peers[ip] - 1]
<1>1. peers[ip] \in Nat \ {0} /\ Entries(ip) = peers[ip] /\ ip # None
  BY DEF TypeOK, Entries
<1>2. QED
  BY <1>1 DEF OnePeerLess

\* A counter is absent exactly when there is nothing to count, before and
\* after a step.
LEMMA EmptyIsZero ==
  ASSUME NEW A, NEW ip
  PROVE  /\ From(ip, A) = {} <=> Cardinality(From(ip, A)) = 0
         /\ From(ip, A)' = {} <=> Cardinality(From(ip, A)') = 0
<1>1. IsFiniteSet(From(ip, A))
  BY Finite
<1>2. From(ip, A)' \in SUBSET Conns
  BY DEF From, In
<1>3. IsFiniteSet(From(ip, A)')
  BY <1>2, FS_Subset
<1>4. QED
  BY <1>1, <1>3, FS_EmptySet

-----------------------------------------------------------------------------
(* Preservation, one lemma per part of the invariant.                      *)

\* The loop hands a socket over when it spawns or drops it.
LEMMA LoopStep ==
  ASSUME IInv, NEW c \in Conns, Loop(c) \/ Thread(c)
  PROVE  /\ LoopInv'
         /\ at' \in Conns \cup {None}
         /\ stage' \in [Conns -> {"none"} \cup LoopStages \cup ThreadStages]
         /\ addr' \in [Conns -> IPs \cup {None}]
<1> USE DEF IInv
<1>1. PICK s \in {"none"} \cup LoopStages \cup ThreadStages :
        Enter(c, s) /\ at' = IF s \in LoopStages THEN c ELSE IF at = c THEN None ELSE at
  <2> USE DEF LoopStages, ThreadStages
  <2>1. stage[c] \in {"running", "leaving"} => at # c
    BY DEF LoopInv
  <2>2. QED
    BY StepShape, <2>1
<1>2. s \in LoopStages => at \in {c, None}
  <2> USE DEF LoopStages, ThreadStages
  <2>1. stage' [c] = s
    BY <1>1 DEF Enter, TypeOK
  <2>2. QED
    BY StepShape, <2>1 DEF Enter, TypeOK
<1>3. stage' = [stage EXCEPT ![c] = s]
  BY <1>1 DEF Enter
<1>4. LoopInv'
  <2> SUFFICES ASSUME NEW d \in Conns
               PROVE  stage'[d] \in LoopStages <=> at' = d
    BY DEF LoopInv
  <2>1. c # None /\ d # None /\ (stage[d] \in LoopStages <=> at = d)
    BY DEF LoopInv
  <2>2. CASE d = c
    <3>1. stage'[d] = s
      BY <1>3, <2>2 DEF TypeOK
    <3>2. QED
      BY <1>1, <2>1, <2>2, <3>1
  <2>3. CASE d # c
    <3>1. stage'[d] = stage[d]
      BY <1>3, <2>3 DEF TypeOK
    <3>2. QED
      BY <1>1, <1>2, <2>1, <2>3, <3>1
  <2>4. QED
    BY <2>2, <2>3
<1>5. addr' \in [Conns -> IPs \cup {None}]
  <2>1. CASE addr' = addr
    BY <2>1 DEF TypeOK
  <2>2. CASE \E ip \in IPs \cup {None} : Accept(c, ip)
    BY <2>2 DEF Accept, TypeOK
  <2>3. QED
    BY <2>1, <2>2 DEF Loop, Thread, TimeoutSetFails, PeerCap, ClaimSlot, ReleaseSlot,
                      RollbackPeer, Shutdown, DropPeerGuard, DropConnGuard
<1>6. QED
  BY <1>1, <1>3, <1>4, <1>5 DEF TypeOK

\* The total counter follows the sockets that hold a slot.
LEMMA CountStep ==
  ASSUME IInv, NEW c \in Conns, Loop(c) \/ Thread(c)
  PROVE  CountExact' /\ count' \in Nat
<1> USE DEF IInv, Holding
<1>1. count = Cardinality(In(Holding)) /\ count \in Nat
  BY DEF CountExact, TypeOK
<1>2. SUFFICES count' = Cardinality(In(Holding)') /\ count' \in Nat
  BY DEF CountExact, In
<1>3. ASSUME NEW s, Enter(c, s), s \in Holding <=> stage[c] \in Holding, count' = count
      PROVE  count' = Cardinality(In(Holding)') /\ count' \in Nat
  BY <1>1, <1>3, Move
<1>4. CASE \E ip \in IPs \cup {None} : Accept(c, ip)
  BY <1>3, <1>4 DEF Accept
<1>5. CASE TimeoutSetFails(c)
  BY <1>3, <1>5 DEF TimeoutSetFails
<1>6. CASE PeerCap(c)
  BY <1>3, <1>6 DEF PeerCap
<1>7. CASE ClaimSlot(c)
  <2>1. PICK s \in {"over", "running"} : Enter(c, s)
    BY <1>7 DEF ClaimSlot
  <2>2. stage[c] = "counted" /\ count' = count + 1
    BY <1>7 DEF ClaimSlot
  <2>3. QED
    BY <1>1, <2>1, <2>2, Move
<1>8. CASE ReleaseSlot(c)
  <2>1. stage[c] = "over" /\ Enter(c, "rollback") /\ count' = count - 1
    BY <1>8 DEF ReleaseSlot
  <2>2. QED
    BY <1>1, <2>1, Move
<1>9. CASE RollbackPeer(c)
  BY <1>3, <1>9 DEF RollbackPeer
<1>10. CASE Shutdown(c)
  BY <1>3, <1>10 DEF Shutdown
<1>11. CASE DropPeerGuard(c)
  BY <1>3, <1>11 DEF DropPeerGuard
<1>12. CASE DropConnGuard(c)
  <2>1. stage[c] = "leaving" /\ Enter(c, "none") /\ count' = count - 1
    BY <1>12 DEF DropConnGuard
  <2>2. QED
    BY <1>1, <2>1, Move
<1>13. QED
  BY <1>4, <1>5, <1>6, <1>7, <1>8, <1>9, <1>10, <1>11, <1>12 DEF Loop, Thread

\* What the map says, in terms of cardinalities.
LEMMA SharesAre ==
  ASSUME IInv, NEW ip \in IPs
  PROVE  /\ Cardinality(From(ip, Sharing)) \in Nat
         /\ Entries(ip) = Cardinality(From(ip, Sharing))
         /\ peers[ip] = IF Cardinality(From(ip, Sharing)) = 0 THEN None
                        ELSE Cardinality(From(ip, Sharing))
         /\ Cardinality(From(ip, Sharing)) <= MaxPerIp
<1>1. Cardinality(From(ip, Sharing)) \in Nat
  BY Finite
<1>2. From(ip, Sharing) = {} <=> Cardinality(From(ip, Sharing)) = 0
  BY EmptyIsZero
<1>3. peers[ip] = IF From(ip, Sharing) = {} THEN None ELSE Cardinality(From(ip, Sharing))
  BY DEF IInv, PeersExact, Sharing
<1>4. peers[ip] \in (Nat \ {0}) \cup {None}
  BY DEF IInv, TypeOK
<1>5. Entries(ip) = Cardinality(From(ip, Sharing))
  BY <1>1, <1>2, <1>3, <1>4 DEF Entries
<1>6. QED
  BY <1>1, <1>2, <1>3, <1>5 DEF IInv, ShareBounded

\* The map follows the live connections of each address, and no address gets
\* more than its share.
LEMMA PeersStep ==
  ASSUME IInv, NEW c \in Conns, Loop(c) \/ Thread(c)
  PROVE  /\ PeersExact' /\ ShareBounded'
         /\ peers' \in [IPs -> (Nat \ {0}) \cup {None}]
<1> DEFINE Card(ip) == Cardinality(From(ip, Sharing))
           CardP(ip) == Cardinality(From(ip, Sharing)')
           Typed == peers' \in [IPs -> Int \cup {None}]
           Good(ip) == /\ CardP(ip) \in Nat /\ CardP(ip) <= MaxPerIp
                       /\ peers'[ip] = IF CardP(ip) = 0 THEN None ELSE CardP(ip)
<1>1. TypeOK /\ addr[c] \in IPs \cup {None}
  BY DEF IInv, TypeOK
<1>2. \A ip \in IPs : /\ Card(ip) \in Nat /\ Card(ip) <= MaxPerIp
                      /\ Entries(ip) = Card(ip)
                      /\ peers[ip] = IF Card(ip) = 0 THEN None ELSE Card(ip)
  BY SharesAre
<1>3. ASSUME NEW s, Enter(c, s), s \in Sharing <=> stage[c] \in Sharing, peers' = peers,
             \A d \in Conns : d # c => addr'[d] = addr[d],
             addr' = addr \/ stage[c] = "none"
      PROVE  Typed /\ \A ip \in IPs : Good(ip)
  <2>1. \A ip \in IPs : From(ip, Sharing)' = From(ip, Sharing)
    BY <1>1, <1>3, MoveFrom DEF Sharing
  <2>2. QED
    BY <1>1, <1>2, <1>3, <2>1 DEF TypeOK
<1>4. ASSUME NEW s, Enter(c, s), s \notin Sharing, stage[c] \in Sharing, addr' = addr,
             peers' = OnePeerLess(addr[c])
      PROVE  Typed /\ \A ip \in IPs : Good(ip)
  <2>1. ASSUME NEW ip \in IPs, ip # addr[c]
        PROVE  From(ip, Sharing)' = From(ip, Sharing)
    BY <1>1, <1>4, <2>1, MoveFrom
  <2>2. ASSUME NEW ip \in IPs, ip = addr[c]
        PROVE  CardP(ip) = Card(ip) - 1 /\ Card(ip) >= 1
    BY <1>1, <1>4, <2>2, MoveFrom
  <2>3. CASE addr[c] = None
    <3>1. peers' = peers
      BY <1>4, <2>3 DEF OnePeerLess
    <3>2. QED
      BY <1>1, <1>2, <2>1, <2>3, <3>1 DEF TypeOK
  <2>4. CASE addr[c] \in IPs
    <3>0. PICK a \in IPs : a = addr[c]
      BY <2>4
    <3>1. /\ Card(a) \in Nat /\ Card(a) >= 1 /\ Card(a) <= MaxPerIp
          /\ peers[a] = Card(a) /\ peers[a] # None
      BY <1>2, <2>2, <3>0
    <3>2. peers' = [peers EXCEPT ![a] = IF Card(a) = 1 THEN None ELSE Card(a) - 1]
      BY <1>1, <1>4, <3>0, <3>1, OnePeerLessIs
    <3>3. Typed
      BY <1>1, <3>1, <3>2 DEF TypeOK
    <3>4. ASSUME NEW ip \in IPs
          PROVE  Good(ip)
      <4>1. CASE ip = a
        <5>1. peers'[a] = IF Card(a) = 1 THEN None ELSE Card(a) - 1
          BY <1>1, <3>2 DEF TypeOK
        <5>2. CardP(a) = Card(a) - 1
          BY <2>2, <3>0
        <5>3. Good(a)
          BY <3>1, <5>1, <5>2
        <5>4. QED
          BY <4>1, <5>3
      <4>2. CASE ip # a
        <5>0. ip # addr[c]
          BY <3>0, <4>2
        <5>1. peers'[ip] = peers[ip]
          BY <1>1, <3>2, <4>2 DEF TypeOK
        <5>2. QED
          BY <1>2, <2>1, <5>0, <5>1
      <4>3. QED
        BY <4>1, <4>2
    <3>5. QED
      BY <3>3, <3>4
  <2>5. QED
    BY <1>1, <2>3, <2>4
<1>5. ASSUME PeerCap(c), addr[c] # None, Entries(addr[c]) < MaxPerIp
      PROVE  Typed /\ \A ip \in IPs : Good(ip)
  <2>1. /\ stage[c] = "accepted" /\ Enter(c, "counted") /\ addr' = addr
        /\ addr[c] \in IPs
        /\ peers' = [peers EXCEPT ![addr[c]] = Entries(addr[c]) + 1]
    <3>1. Entries(addr[c]) \in Nat
      BY <1>1, <1>2, <1>5
    <3>2. QED
      BY <1>1, <1>5, <3>1 DEF PeerCap
  <2>2. ASSUME NEW ip \in IPs
        PROVE  Good(ip)
    <3>1. CASE ip = addr[c]
      <4>1. CardP(ip) = Card(ip) + 1
        BY <1>1, <2>1, <3>1, MoveFrom DEF Sharing
      <4>2. peers'[ip] = Card(ip) + 1 /\ Card(ip) < MaxPerIp
        BY <1>1, <1>2, <1>5, <2>1, <3>1 DEF TypeOK
      <4>3. QED
        BY <1>2, <4>1, <4>2
    <3>2. CASE ip # addr[c]
      <4>1. From(ip, Sharing)' = From(ip, Sharing)
        BY <1>1, <2>1, <3>2, MoveFrom DEF Sharing
      <4>2. peers'[ip] = peers[ip]
        BY <1>1, <2>1, <3>2 DEF TypeOK
      <4>3. QED
        BY <1>2, <4>1, <4>2
    <3>3. QED
      BY <3>1, <3>2
  <2>3. Typed
    BY <1>1, <1>2, <2>1 DEF TypeOK
  <2>4. QED
    BY <2>2, <2>3
<1>6. Typed /\ \A ip \in IPs : Good(ip)
  <2> USE DEF Sharing
  <2>1. CASE \E ip \in IPs \cup {None} : Accept(c, ip)
    <3>1. \A d \in Conns : d # c => addr'[d] = addr[d]
      BY <1>1, StepShape
    <3>2. QED
      BY <1>3, <2>1, <3>1 DEF Accept
  <2>2. CASE TimeoutSetFails(c)
    BY <1>3, <2>2 DEF TimeoutSetFails
  <2>3. CASE PeerCap(c) /\ (addr[c] = None \/ Entries(addr[c]) >= MaxPerIp)
    <3>1. CASE addr[c] = None
      <4>1. stage[c] = "accepted" /\ Enter(c, "counted") /\ addr' = addr /\ peers' = peers
        BY <2>3, <3>1 DEF PeerCap
      <4>2. \A ip \in IPs : From(ip, Sharing)' = From(ip, Sharing)
        BY <1>1, <3>1, <4>1, MoveFrom
      <4>3. QED
        BY <1>1, <1>2, <4>1, <4>2 DEF TypeOK
    <3>2. CASE addr[c] # None
      <4>1. Entries(addr[c]) \in Nat /\ Entries(addr[c]) >= MaxPerIp
        BY <1>1, <1>2, <2>3, <3>2
      <4>2. stage[c] = "accepted" /\ Enter(c, "refused") /\ addr' = addr /\ peers' = peers
        BY <2>3, <3>2, <4>1 DEF PeerCap
      <4>3. QED
        BY <1>3, <4>2
    <3>3. QED
      BY <3>1, <3>2
  <2>4. CASE ClaimSlot(c)
    BY <1>3, <2>4 DEF ClaimSlot
  <2>5. CASE ReleaseSlot(c)
    BY <1>3, <2>5 DEF ReleaseSlot
  <2>6. CASE RollbackPeer(c)
    BY <1>4, <2>6 DEF RollbackPeer
  <2>7. CASE Shutdown(c)
    BY <1>3, <2>7 DEF Shutdown
  <2>8. CASE DropPeerGuard(c)
    BY <1>4, <2>8 DEF DropPeerGuard
  <2>9. CASE DropConnGuard(c)
    BY <1>3, <2>9 DEF DropConnGuard
  <2>10. PeerCap(c) => \/ PeerCap(c) /\ (addr[c] = None \/ Entries(addr[c]) >= MaxPerIp)
                       \/ PeerCap(c) /\ addr[c] # None /\ Entries(addr[c]) < MaxPerIp
    BY DEF PeerCap
  <2>11. QED
    BY <1>5, <2>1, <2>2, <2>3, <2>4, <2>5, <2>6, <2>7, <2>8, <2>9, <2>10 DEF Loop, Thread
<1>7. \A ip \in IPs : peers'[ip] \in (Nat \ {0}) \cup {None}
  BY <1>6
<1>8. \A ip \in IPs : From(ip, Sharing)' = {} <=> CardP(ip) = 0
  BY EmptyIsZero
<1>9. PeersExact'
  BY <1>6, <1>8 DEF PeersExact, Sharing, From, In
<1>10. ShareBounded'
  BY <1>6 DEF ShareBounded
<1>11. peers' \in [IPs -> (Nat \ {0}) \cup {None}]
  BY <1>6, <1>7
<1>12. QED
  BY <1>9, <1>10, <1>11

\* While the loop holds a socket that has not been claimed in excess, the
\* counter is the number of threads.
LEMMA OnlyThreadsHold ==
  ASSUME IInv, NEW c \in Conns, stage[c] \in {"accepted", "counted"}
  PROVE  /\ count = Cardinality(In(ThreadStages))
         /\ \A ip : stage[c] = "accepted" => From(ip, Sharing) = From(ip, {"running"})
<1>1. \A d \in Conns : d # c => stage[d] \notin LoopStages
  BY DEF IInv, LoopInv, LoopStages
<1>2. In({"running", "leaving", "over"}) = In(ThreadStages)
  BY <1>1 DEF In, LoopStages, ThreadStages
<1>3. \A ip : stage[c] = "accepted" => From(ip, Sharing) = From(ip, {"running"})
  BY <1>1 DEF From, In, LoopStages, Sharing
<1>4. QED
  BY <1>2, <1>3 DEF IInv, CountExact

\* A thread is added only below the cap.
LEMMA SlotsStep ==
  ASSUME IInv, NEW c \in Conns, Loop(c) \/ Thread(c)
  PROVE  SlotsBounded'
<1> DEFINE n == Cardinality(In(ThreadStages))
<1>1. TypeOK /\ n \in Nat /\ n <= MaxConnections
  BY Finite DEF IInv, SlotsBounded
<1>2. SUFFICES Cardinality(In(ThreadStages)') <= MaxConnections
  BY DEF SlotsBounded, In, ThreadStages
<1>3. ASSUME stage[c] = "counted", Enter(c, "running"), ClaimSlot(c)
      PROVE  Cardinality(In(ThreadStages)') <= MaxConnections
  <2>1. count < MaxConnections
    <3>1. stage'[c] = "running"
      BY <1>1, <1>3 DEF Enter, TypeOK
    <3>2. QED
      BY <1>1, <1>3, <3>1 DEF ClaimSlot, Enter, TypeOK
  <2>2. count = n
    BY <1>3, OnlyThreadsHold
  <2>3. Cardinality(In(ThreadStages)') = n + 1
    BY <1>1, <1>3, Move DEF ThreadStages
  <2>4. QED
    BY <1>1, <2>1, <2>2, <2>3
<1>4. ASSUME NEW s, Enter(c, s), s \in ThreadStages => stage[c] \in ThreadStages
      PROVE  Cardinality(In(ThreadStages)') <= MaxConnections
  <2>1. \/ In(ThreadStages)' = In(ThreadStages)
        \/ Cardinality(In(ThreadStages)') = n - 1
    BY <1>1, <1>4, Move
  <2>2. QED
    BY <1>1, <2>1
<1>5. stage[c] = "counted" => ~Enter(c, "running") \/ ClaimSlot(c)
  <2>1. SUFFICES ASSUME stage[c] = "counted"
                 PROVE  ClaimSlot(c)
    OBVIOUS
  <2>2. QED
    BY <2>1 DEF Loop, Thread, Accept, TimeoutSetFails, PeerCap, ReleaseSlot, RollbackPeer,
                Shutdown, DropPeerGuard, DropConnGuard
<1>6. QED
  <2> USE DEF ThreadStages
  <2>1. CASE stage[c] = "counted" /\ Enter(c, "running")
    BY <1>3, <1>5, <2>1
  <2>2. CASE ~(stage[c] = "counted" /\ Enter(c, "running"))
    <3>1. PICK s : Enter(c, s) /\ (s \in ThreadStages => stage[c] \in ThreadStages)
      BY <1>1, <2>2, StepShape
    <3>2. QED
      BY <1>4, <3>1
  <2>3. QED
    BY <2>1, <2>2

-----------------------------------------------------------------------------
(* The theorems.                                                           *)

\* The invariant is inductive.
LEMMA Inductive ==
  Spec => []IInv
<1>1. Init => IInv
  <2> SUFFICES ASSUME Init PROVE IInv
    OBVIOUS
  <2>1. TypeOK /\ LoopInv
    BY DEF Init, TypeOK, LoopInv, LoopStages, ThreadStages
  <2>2. In({"running", "leaving", "over"}) = {} /\ In(ThreadStages) = {}
    BY DEF Init, In, ThreadStages
  <2>3. \A ip \in IPs : From(ip, Sharing) = {}
    BY DEF Init, From, In, Sharing
  <2>4. CountExact /\ SlotsBounded
    BY <2>2, FS_EmptySet DEF Init, CountExact, SlotsBounded
  <2>5. PeersExact
    BY <2>3 DEF Init, PeersExact, Sharing
  <2>6. ShareBounded
    BY <2>3, FS_EmptySet DEF ShareBounded
  <2>7. QED
    BY <2>1, <2>4, <2>5, <2>6 DEF IInv
<1>2. IInv /\ [Next]_vars => IInv'
  <2> SUFFICES ASSUME IInv, [Next]_vars PROVE IInv'
    OBVIOUS
  <2>1. ASSUME NEW c \in Conns, Loop(c) \/ Thread(c)
        PROVE  IInv'
    <3>1. LoopInv' /\ CountExact' /\ PeersExact' /\ SlotsBounded' /\ ShareBounded'
      BY <2>1, LoopStep, CountStep, PeersStep, SlotsStep
    <3>2. TypeOK'
      BY <2>1, LoopStep, CountStep, PeersStep DEF TypeOK
    <3>3. QED
      BY <3>1, <3>2 DEF IInv
  <2>2. CASE UNCHANGED vars
    BY <2>2 DEF IInv, vars, TypeOK, LoopInv, CountExact, PeersExact, SlotsBounded,
                ShareBounded, In, From
  <2>3. QED
    BY <2>1, <2>2 DEF Next
<1>3. QED
  BY <1>1, <1>2, PTL DEF Spec

\* The total counter is exact in every reachable state (main.rs:121-139, 144-149).
THEOREM CountSafe == Spec => []CountExact
  BY Inductive, PTL DEF IInv

\* The per-address map is exact in every reachable state (main.rs:101-135, 150-166).
THEOREM PeersSafe == Spec => []PeersExact
  BY Inductive, PTL DEF IInv

\* Neither cap is exceeded by the connections that are served.
THEOREM CapsSafe == Spec => []CapsHold
<1>1. IInv => CapsHold
  <2> SUFFICES ASSUME IInv PROVE CapsHold
    OBVIOUS
  <2>1. ASSUME NEW ip \in IPs
        PROVE  Cardinality(From(ip, {"running"})) <= MaxPerIp
    <3>1. From(ip, {"running"}) \in SUBSET From(ip, Sharing)
      BY DEF From, In, Sharing
    <3>2. Cardinality(From(ip, {"running"})) <= Cardinality(From(ip, Sharing))
      BY <3>1, Finite, FS_Subset
    <3>3. Cardinality(From(ip, Sharing)) <= MaxPerIp
      BY DEF IInv, ShareBounded
    <3>4. /\ Cardinality(From(ip, {"running"})) \in Nat
          /\ Cardinality(From(ip, Sharing)) \in Nat
      BY Finite
    <3>5. QED
      BY <3>2, <3>3, <3>4
  <2>2. QED
    BY <2>1 DEF IInv, SlotsBounded, CapsHold, ThreadStages
<1>2. QED
  BY <1>1, Inductive, PTL

\* Nobody is turned away while a slot, or a share of the address, is free.
THEOREM RefusalsSafe == Spec => RefusedForCause
<1>1. ASSUME IInv, [Next]_vars, NEW c \in Conns
      PROVE  /\ stage[c] = "counted" /\ stage'[c] = "over"
                  => Cardinality(In({"running", "leaving"})) = MaxConnections
             /\ stage[c] = "accepted" /\ stage'[c] = "refused"
                  => Cardinality(From(addr[c], {"running"})) = MaxPerIp
  <2>0. TypeOK
    BY <1>1 DEF IInv
  <2>1. ASSUME stage[c] = "counted", stage'[c] = "over"
        PROVE  Cardinality(In({"running", "leaving"})) = MaxConnections
    <3>1. count >= MaxConnections
      <4>1. PICK d \in Conns : Loop(d) \/ Thread(d)
        BY <1>1, <2>1 DEF Next, vars
      <4>2. d = c
        BY <2>0, <2>1, <4>1, StepShape DEF Enter, TypeOK
      <4>3. ClaimSlot(c)
        BY <2>1, <4>1, <4>2 DEF Loop, Thread, Accept, TimeoutSetFails, PeerCap,
             ReleaseSlot, RollbackPeer, Shutdown, DropPeerGuard, DropConnGuard
      <4>4. QED
        BY <2>0, <2>1, <4>3 DEF ClaimSlot, Enter, TypeOK
    <3>2. count = Cardinality(In(ThreadStages)) /\ count \in Nat
      BY <1>1, <2>0, <2>1, OnlyThreadsHold DEF TypeOK
    <3>3. Cardinality(In(ThreadStages)) <= MaxConnections
      BY <1>1 DEF IInv, SlotsBounded
    <3>4. QED
      BY <3>1, <3>2, <3>3 DEF ThreadStages
  <2>2. ASSUME stage[c] = "accepted", stage'[c] = "refused"
        PROVE  Cardinality(From(addr[c], {"running"})) = MaxPerIp
    <3>1. addr[c] \in IPs /\ Entries(addr[c]) >= MaxPerIp
      <4>1. PICK d \in Conns : Loop(d) \/ Thread(d)
        BY <1>1, <2>2 DEF Next, vars
      <4>2. d = c
        BY <2>0, <2>2, <4>1, StepShape DEF Enter, TypeOK
      <4>3. TimeoutSetFails(c) \/ PeerCap(c)
        BY <2>2, <4>1, <4>2 DEF Loop, Thread, Accept, ClaimSlot,
             ReleaseSlot, RollbackPeer, Shutdown, DropPeerGuard, DropConnGuard
      <4>4. PeerCap(c)
        BY <2>0, <2>2, <4>3 DEF TimeoutSetFails, Enter, TypeOK
      <4>5. QED
        BY <2>0, <2>2, <4>4 DEF PeerCap, Enter, TypeOK
    <3>2. From(addr[c], Sharing) = From(addr[c], {"running"})
      BY <1>1, <2>2, OnlyThreadsHold
    <3>3. QED
      BY <1>1, <3>1, <3>2, SharesAre
  <2>3. QED
    BY <2>1, <2>2
<1>2. IInv /\ [Next]_vars =>
        [\A c \in Conns :
         /\ stage[c] = "counted" /\ stage'[c] = "over"
              => Cardinality(In({"running", "leaving"})) = MaxConnections
         /\ stage[c] = "accepted" /\ stage'[c] = "refused"
              => Cardinality(From(addr[c], {"running"})) = MaxPerIp]_vars
  BY <1>1
<1>3. QED
  BY <1>2, Inductive, PTL DEF Spec, RefusedForCause

\* Every variable keeps its type.
THEOREM TypeCorrect == Spec => []TypeOK
  BY Inductive, PTL DEF IInv

-----------------------------------------------------------------------------
(* Refinement of AdmissionSpec.                                            *)

StateBar == [c \in Conns |-> Shown(stage[c])]
PeerBar  == [c \in Conns |-> IF stage[c] = "running" THEN addr[c] ELSE None]

\* The instance of AdmissionSpec counts as FiniteSets does.
LEMMA SameCardinality ==
  ASSUME NEW S
  PROVE  Admission!Cardinality(S) = Cardinality(S)
  BY DEF Cardinality, Admission!Cardinality

\* The mapped sets are those the caps are stated for.
LEMMA MappedSets ==
  ASSUME TypeOK
  PROVE  /\ Admission!Threads = In(ThreadStages)
         /\ \A ip \in IPs : Admission!Served(ip) = From(ip, {"running"})
<1> USE DEF TypeOK, Shown, LoopStages, ThreadStages
<1>1. \A c \in Conns : /\ Shown(stage[c]) \in {"served", "ending"} <=> stage[c] \in ThreadStages
                       /\ Shown(stage[c]) = "served" <=> stage[c] = "running"
  OBVIOUS
<1>2. Admission!Threads = In(ThreadStages)
  BY <1>1 DEF Admission!Threads, In
<1>3. ASSUME NEW ip \in IPs
      PROVE  Admission!Served(ip) = From(ip, {"running"})
  BY <1>1, <1>3 DEF Admission!Served, From, In
<1>4. QED
  BY <1>2, <1>3

\* A step that moves one socket moves it alone in the mapped state.
LEMMA MappedMove ==
  ASSUME TypeOK, NEW c \in Conns, NEW s, Enter(c, s),
         \A d \in Conns : d # c => addr'[d] = addr[d]
  PROVE  /\ StateBar' = [StateBar EXCEPT ![c] = Shown(s)]
         /\ PeerBar' = [PeerBar EXCEPT ![c] = IF s = "running" THEN addr'[c] ELSE None]
<1>1. stage'[c] = s /\ \A d \in Conns : d # c => stage'[d] = stage[d]
  BY DEF Enter, TypeOK
<1>2. StateBar' = [StateBar EXCEPT ![c] = Shown(s)]
  BY <1>1 DEF StateBar
<1>3. PeerBar' = [PeerBar EXCEPT ![c] = IF s = "running" THEN addr'[c] ELSE None]
  BY <1>1 DEF PeerBar
<1>4. QED
  BY <1>2, <1>3

\* The spawn of a thread finds a slot and a share of the address free.
LEMMA SpawnAdmits ==
  ASSUME IInv, NEW c \in Conns, stage[c] = "counted", count < MaxConnections
  PROVE  Admission!SlotFree /\ Admission!ShareFree(addr[c])
<1>1. TypeOK
  BY DEF IInv
<1>2. Admission!SlotFree
  BY <1>1, OnlyThreadsHold, MappedSets, SameCardinality DEF Admission!SlotFree
<1>3. ASSUME NEW ip \in IPs, ip = addr[c]
      PROVE  Cardinality(From(ip, {"running"})) < MaxPerIp
  <2>1. From(ip, {"running"}) \cup {c} \in SUBSET From(ip, Sharing) /\ c \notin From(ip, {"running"})
    BY <1>3 DEF From, In, Sharing
  <2>2. Cardinality(From(ip, {"running"}) \cup {c}) = Cardinality(From(ip, {"running"})) + 1
    BY <2>1, Finite, FS_AddElement
  <2>3. Cardinality(From(ip, {"running"}) \cup {c}) <= Cardinality(From(ip, Sharing))
    BY <2>1, Finite, FS_Subset
  <2>4. Cardinality(From(ip, {"running"})) \in Nat
    BY Finite
  <2>5. QED
    BY <2>2, <2>3, <2>4, SharesAre
<1>4. QED
  BY <1>1, <1>2, <1>3, MappedSets, SameCardinality DEF Admission!ShareFree

\* Every step of the loop or of a thread is a step of AdmissionSpec or is not
\* seen there.
LEMMA MappedStep ==
  ASSUME IInv, NEW c \in Conns, Loop(c) \/ Thread(c)
  PROVE  Admission!Next \/ UNCHANGED <<StateBar, PeerBar>>
<1>0. TypeOK /\ addr[c] \in IPs \cup {None} /\ \A d \in Conns : d # c => addr'[d] = addr[d]
  BY StepShape DEF IInv, TypeOK
<1> DEFINE sb == Shown(stage[c])
<1>1. /\ StateBar \in [Conns -> {"idle", "served", "ending", "turned"}]
      /\ PeerBar \in [Conns -> IPs \cup {None}]
      /\ StateBar[c] = sb
      /\ PeerBar[c] = IF stage[c] = "running" THEN addr[c] ELSE None
  BY <1>0 DEF StateBar, PeerBar, Shown, TypeOK, LoopStages, ThreadStages
<1>2. ASSUME NEW s, Enter(c, s), Shown(s) = sb, s # "running", stage[c] # "running"
      PROVE  UNCHANGED <<StateBar, PeerBar>>
  BY <1>0, <1>1, <1>2, MappedMove
<1>3. CASE stage[c] = "counted" /\ ClaimSlot(c) /\ Enter(c, "running")
  <2>1. count < MaxConnections /\ addr' = addr
    <3>1. stage'[c] = "running"
      BY <1>0, <1>3 DEF Enter, TypeOK
    <3>2. QED
      BY <1>0, <1>3, <3>1 DEF ClaimSlot, Enter, TypeOK
  <2>2. /\ StateBar' = [StateBar EXCEPT ![c] = "served"]
        /\ PeerBar' = [PeerBar EXCEPT ![c] = addr[c]]
    BY <1>0, <1>3, <2>1, MappedMove DEF Shown
  <2>3. StateBar[c] = "idle"
    BY <1>1, <1>3 DEF Shown
  <2>4. PICK ip \in IPs \cup {None} : ip = addr[c]
    BY <1>0
  <2>5. Admission!SlotFree /\ Admission!ShareFree(ip)
    BY <1>3, <2>1, <2>4, SpawnAdmits DEF Admission!ShareFree
  <2>6. Admission!Admit(c, ip)
    BY <2>2, <2>3, <2>4, <2>5 DEF Admission!Admit, StateBar, PeerBar
  <2>7. QED
    BY <2>6 DEF Admission!Next
<1>4. CASE stage[c] = "counted" /\ ClaimSlot(c) /\ Enter(c, "over")
  <2>1. count >= MaxConnections
    <3>1. stage'[c] = "over"
      BY <1>0, <1>4 DEF Enter, TypeOK
    <3>2. QED
      BY <1>0, <1>4, <3>1 DEF ClaimSlot, Enter, TypeOK
  <2>2. ~Admission!SlotFree
    BY <1>0, <1>4, <2>1, OnlyThreadsHold, MappedSets, SameCardinality DEF Admission!SlotFree, TypeOK
  <2>3. StateBar' = [StateBar EXCEPT ![c] = "turned"] /\ UNCHANGED PeerBar
    BY <1>0, <1>1, <1>4, MappedMove DEF Shown
  <2>4. StateBar[c] = "idle"
    BY <1>1, <1>4 DEF Shown
  <2>5. Admission!TurnAway(c, None)
    BY <2>2, <2>3, <2>4 DEF Admission!TurnAway, StateBar, PeerBar
  <2>6. QED
    BY <2>5 DEF Admission!Next
<1>5. CASE stage[c] = "accepted" /\ PeerCap(c) /\ Enter(c, "refused")
  <2>1. addr[c] \in IPs /\ Entries(addr[c]) >= MaxPerIp
    <3>1. stage'[c] = "refused"
      BY <1>0, <1>5 DEF Enter, TypeOK
    <3>2. QED
      BY <1>0, <1>5, <3>1 DEF PeerCap, Enter, TypeOK
  <2>2. PICK ip \in IPs : ip = addr[c]
    BY <2>1
  <2>3. From(ip, Sharing) = From(ip, {"running"})
    BY <1>5, OnlyThreadsHold
  <2>4. ~(Cardinality(From(ip, {"running"})) < MaxPerIp)
    BY <2>1, <2>2, <2>3, SharesAre
  <2>5. ~Admission!ShareFree(ip)
    BY <1>0, <2>4, MappedSets, SameCardinality DEF Admission!ShareFree
  <2>6. StateBar' = [StateBar EXCEPT ![c] = "turned"] /\ UNCHANGED PeerBar
    BY <1>0, <1>1, <1>5, MappedMove DEF Shown
  <2>7. StateBar[c] = "idle"
    BY <1>1, <1>5 DEF Shown
  <2>8. Admission!TurnAway(c, ip)
    BY <2>5, <2>6, <2>7 DEF Admission!TurnAway, StateBar, PeerBar
  <2>9. QED
    BY <2>8 DEF Admission!Next
<1>6. CASE stage[c] = "running" /\ Enter(c, "leaving")
  <2>1. /\ StateBar' = [StateBar EXCEPT ![c] = "ending"]
        /\ PeerBar' = [PeerBar EXCEPT ![c] = None]
        /\ StateBar[c] = "served"
    BY <1>0, <1>1, <1>6, MappedMove DEF Shown
  <2>2. Admission!End(c)
    BY <2>1 DEF Admission!End, StateBar, PeerBar
  <2>3. QED
    BY <2>2 DEF Admission!Next
<1>7. CASE stage[c] \in {"leaving", "refused"} /\ Enter(c, "none")
  <2>1. /\ StateBar' = [StateBar EXCEPT ![c] = "idle"]
        /\ UNCHANGED PeerBar
        /\ StateBar[c] \in {"ending", "turned"}
    BY <1>0, <1>1, <1>7, MappedMove DEF Shown
  <2>2. Admission!Close(c)
    BY <2>1 DEF Admission!Close, StateBar, PeerBar
  <2>3. QED
    BY <2>2 DEF Admission!Next
<1>8. QED
  <2>1. stage[c] = "counted" => ClaimSlot(c)
    BY DEF Loop, Thread, Accept, TimeoutSetFails, PeerCap, ReleaseSlot, RollbackPeer,
           Shutdown, DropPeerGuard, DropConnGuard
  <2>2. stage[c] = "accepted" => TimeoutSetFails(c) \/ PeerCap(c)
    BY DEF Loop, Thread, Accept, ClaimSlot, ReleaseSlot, RollbackPeer,
           Shutdown, DropPeerGuard, DropConnGuard
  <2>3. TimeoutSetFails(c) => Enter(c, "none") /\ stage[c] = "accepted"
    BY DEF TimeoutSetFails
  <2>4. \/ stage[c] = "none" /\ Enter(c, "accepted")
        \/ stage[c] = "accepted" /\ Enter(c, "none")
        \/ stage[c] = "accepted" /\ Enter(c, "refused") /\ PeerCap(c)
        \/ stage[c] = "accepted" /\ Enter(c, "counted")
        \/ stage[c] = "counted" /\ Enter(c, "over")
        \/ stage[c] = "counted" /\ Enter(c, "running")
        \/ stage[c] = "over" /\ Enter(c, "rollback")
        \/ stage[c] = "rollback" /\ Enter(c, "refused")
        \/ stage[c] = "running" /\ Enter(c, "leaving")
        \/ stage[c] \in {"leaving", "refused"} /\ Enter(c, "none")
    BY <1>0, <2>2, <2>3, StepShape
  <2>5. ASSUME NEW s, Enter(c, s), s \in {"none", "accepted", "counted"},
               stage[c] \in {"none", "accepted", "counted"}
        PROVE  UNCHANGED <<StateBar, PeerBar>>
    BY <1>2, <2>5 DEF Shown
  <2>6. ASSUME NEW s, Enter(c, s), s \in {"over", "rollback", "refused"},
               stage[c] \in {"over", "rollback", "refused"}
        PROVE  UNCHANGED <<StateBar, PeerBar>>
    BY <1>2, <2>6 DEF Shown
  <2>7. QED
    BY <1>3, <1>4, <1>5, <1>6, <1>7, <2>1, <2>4, <2>5, <2>6

\* The accept loop and its threads implement AdmissionSpec (main.rs:82-174):
\* with the counter, the map and the roll-backs hidden, sockets are admitted
\* only into free slots and shares and turned away only when one is used up.
THEOREM AdmissionRefined == Spec => ImplementsAdmission
<1>1. Init => Admission!Init
  BY DEF Init, Admission!Init, Shown
<1>2. IInv /\ [Next]_vars => [Admission!Next]_(Admission!vars)
  <2> SUFFICES ASSUME IInv, [Next]_vars
               PROVE  Admission!Next \/ UNCHANGED <<StateBar, PeerBar>>
    BY DEF Admission!vars, StateBar, PeerBar
  <2>1. CASE UNCHANGED vars
    BY <2>1 DEF vars, StateBar, PeerBar
  <2>2. QED
    BY <2>1, MappedStep DEF Next
<1>3. QED
  BY <1>1, <1>2, Inductive, PTL DEF Spec, ImplementsAdmission, Admission!Spec

=============================================================================
