-------------------------- MODULE ClientLinkProofs --------------------------
(***************************************************************************)
(* The two directions of the client's link: which requests a server        *)
(* session gets, and which responses the client takes for an answer, for   *)
(* every number of handlers, configuration and budget of events.  Lines    *)
(* are read in the order they were sent: between the two copies of a       *)
(* repeated request there is the application command of the reconnect,     *)
(* which no session survives.                                              *)
(***************************************************************************)
EXTENDS ClientSessionProofs

(* The inductive invariant.                                                *)

App(q, a) == a \in DOMAIN q /\ q[a].k = "app"
Req(q, i) == i \in DOMAIN q /\ q[i].k = "req"

\* Copies of one request have an application command between them; those of a
\* request in S have one ahead of them.
Apart(q)     == \A i, j \in DOMAIN q : i < j /\ Req(q, i) /\ Req(q, j) /\ q[i].tk = q[j].tk
                    => \E a \in DOMAIN q : i < a /\ a < j /\ App(q, a)
Behind(q, S) == \A i \in DOMAIN q : Req(q, i) /\ q[i].tk \in S
                    => \E a \in DOMAIN q : a < i /\ App(q, a)

\* All copies of request n have one behind them.
Closed(q, n) == \A i \in DOMAIN q : Req(q, i) /\ q[i].tk = n
                    => \E a \in DOMAIN q : i < a /\ App(q, a)

SessionInv ==
    /\ phase \in {"call", "agree"} => served = {}
    /\ phase = "none" => inq = <<>>
    /\ SkipBpqApp => phase # "node"
    /\ Apart(inq)
    /\ phase = "serving" => Behind(inq, served)

\* Commands are numbered in the order of the queue; what is on its way is of the
\* current command or an earlier one.
NumberInv ==
    /\ cur.tk <= tick /\ (pc # "idle" => cur.tk >= 1)
    /\ \A i \in DOMAIN queue : cur.tk < queue[i].tk /\ queue[i].tk <= tick
    /\ \A i, j \in DOMAIN queue : i < j => queue[i].tk < queue[j].tk
    /\ \A i \in DOMAIN inq : Req(inq, i) => inq[i].tk <= cur.tk
    /\ \A n \in served : n <= cur.tk

\* The next line, if it is the current request, is for another session.
Fenced ==
    /\ Closed(inq, cur.tk)
    /\ phase = "serving" /\ cur.tk \in served => \E a \in DOMAIN inq : App(inq, a)

\* Where a queue holds members of S.
At(q, S) == {i \in DOMAIN q : q[i] \in S}
One(I)   == \A i, j \in I : i = j

\* Without an application command the link is a session.  One that was resumed
\* has no more than one text left that takes the handshake a step further.
Tokens   == At(rx, {f \in Frame : f.k \in {"prompt", "disc"}})
OneToken == One(Tokens) /\ (phase = "call" => Tokens = {})
NoToken  == Tokens = {} /\ phase # "call"

RetryInv ==
    modem = "up" =>
        /\ pc \in {"rc_agree", "sr_check", "sr_send"} => Fenced
        /\ pc \in {"rc_call", "rc_disc"} /\ ~SkipBpqApp => Fenced
        /\ pc \in {"rc_app", "rc_call"} /\ SkipBpqApp => Fenced \/ OneToken
        /\ pc = "rc_disc" /\ SkipBpqApp => Fenced \/ NoToken

\* On a clean link there is at most one request or answer, that of the command
\* that waits; the server's unsolicited error has no number.
Reqs  == At(inq, {l \in Line : l.k = "req"})
Resps == At(rx, {f \in Frame : f.k = "resp" /\ f.tk # 0})
CleanInv ==
    ~tainted =>
        /\ pc # "sr_wait" => Reqs = {} /\ Resps = {}
        /\ One(Reqs) /\ One(Resps)
        /\ Reqs = {} \/ Resps = {}
        /\ \A i \in Resps : rx[i].tk = cur.tk
        /\ \A i \in Reqs : inq[i].tk = cur.tk

LinkInv == SessionInv /\ NumberInv /\ RetryInv /\ CleanInv

USE DEF appVars, apiVars, actorVars, airVars, histVars,
        apiRest, stepRest, histRest, shared, clientSide

-----------------------------------------------------------------------------
(* Lines on their way to the far end.                                      *)

HasApp(q) == \E a \in DOMAIN q : App(q, a)

LEMMA TailLines ==
  ASSUME NEW S, NEW q \in Seq(S), q # <<>>
  PROVE  /\ Len(q) \in Nat \ {0} /\ DOMAIN q = 1 .. Len(q) /\ DOMAIN Tail(q) = 1 .. Len(q) - 1
         /\ Head(q) = q[1] /\ Tail(q) \in Seq(S) /\ Head(q) \in S
         /\ \A i \in DOMAIN Tail(q) : i \in Nat /\ i + 1 \in DOMAIN q /\ Tail(q)[i] = q[i + 1]
         /\ \A i \in DOMAIN q : i \in Nat /\ (i # 1 => i - 1 \in DOMAIN Tail(q) /\ Tail(q)[i - 1] = q[i])
<1>1. Len(q) \in Nat \ {0} /\ DOMAIN q = 1 .. Len(q)
  BY EmptySeq, LenProperties
<1>2. /\ Tail(q) \in Seq(S) /\ Len(Tail(q)) = Len(q) - 1 /\ Head(q) \in S
      /\ \A i \in 1 .. Len(Tail(q)) : Tail(q)[i] = q[i + 1]
  BY HeadTailProperties
<1>3. DOMAIN Tail(q) = 1 .. Len(q) - 1
  BY <1>2, LenProperties
<1>4. Head(q) = q[1]
  OBVIOUS
<1>5. \A i \in DOMAIN Tail(q) : i \in Nat /\ i + 1 \in DOMAIN q /\ Tail(q)[i] = q[i + 1]
  BY <1>1, <1>2, <1>3
<1>6. \A i \in DOMAIN q : i \in Nat /\ (i # 1 => i - 1 \in DOMAIN Tail(q) /\ Tail(q)[i - 1] = q[i])
  BY <1>1, <1>2, <1>3
<1>7. QED
  BY <1>1, <1>2, <1>3, <1>4, <1>5, <1>6

\* The first line is read.
LEMMA LineRead ==
  ASSUME NEW q \in Seq(Line), q # <<>>, NEW S, NEW n
  PROVE  /\ Apart(q) => Apart(Tail(q))
         /\ Behind(q, S) /\ ~App(q, 1) => Behind(Tail(q), S)
         /\ Apart(q) /\ Req(q, 1) => Behind(Tail(q), {q[1].tk})
         /\ Closed(q, n) => Closed(Tail(q), n)
         /\ Closed(q, n) /\ Req(q, 1) /\ q[1].tk = n => HasApp(Tail(q))
         /\ HasApp(q) /\ ~App(q, 1) => HasApp(Tail(q))
<1>1. /\ Len(q) \in Nat \ {0} /\ DOMAIN q = 1 .. Len(q) /\ DOMAIN Tail(q) = 1 .. Len(q) - 1
      /\ \A i \in DOMAIN Tail(q) : i \in Nat /\ i + 1 \in DOMAIN q /\ Tail(q)[i] = q[i + 1]
      /\ \A i \in DOMAIN q : i \in Nat /\ (i # 1 => i - 1 \in DOMAIN Tail(q) /\ Tail(q)[i - 1] = q[i])
  BY TailLines
<1>2. \A a \in DOMAIN q : a \in Nat \ {0} /\ (App(q, a) /\ a # 1 => a - 1 \in DOMAIN Tail(q) /\ App(Tail(q), a - 1))
  BY <1>1 DEF App
<1>3. \A i \in DOMAIN Tail(q) :
         i \in Nat \ {0} /\ (Req(Tail(q), i) => i + 1 \in DOMAIN q /\ Req(q, i + 1) /\ q[i + 1].tk = Tail(q)[i].tk)
  BY <1>1 DEF Req
<1>4. Apart(q) => Apart(Tail(q))
  <2> SUFFICES ASSUME Apart(q), NEW i \in DOMAIN Tail(q), NEW j \in DOMAIN Tail(q), i < j,
                      Req(Tail(q), i), Req(Tail(q), j), Tail(q)[i].tk = Tail(q)[j].tk
               PROVE  \E a \in DOMAIN Tail(q) : i < a /\ a < j /\ App(Tail(q), a)
    BY DEF Apart
  <2>1. /\ i + 1 \in DOMAIN q /\ j + 1 \in DOMAIN q /\ i + 1 < j + 1
        /\ Req(q, i + 1) /\ Req(q, j + 1) /\ q[i + 1].tk = q[j + 1].tk
    BY <1>3
  <2>2. PICK a \in DOMAIN q : i + 1 < a /\ a < j + 1 /\ App(q, a)
    BY <2>1 DEF Apart
  <2>3. a - 1 \in DOMAIN Tail(q) /\ App(Tail(q), a - 1) /\ i < a - 1 /\ a - 1 < j
    BY <1>2, <1>3, <2>2
  <2>4. QED
    BY <2>3
<1>5. ASSUME NEW T, Behind(q, T), ~App(q, 1) PROVE Behind(Tail(q), T)
  <2> SUFFICES ASSUME NEW i \in DOMAIN Tail(q), Req(Tail(q), i), Tail(q)[i].tk \in T
               PROVE  \E a \in DOMAIN Tail(q) : a < i /\ App(Tail(q), a)
    BY DEF Behind
  <2>1. i + 1 \in DOMAIN q /\ Req(q, i + 1) /\ q[i + 1].tk \in T
    BY <1>3
  <2>2. PICK a \in DOMAIN q : a < i + 1 /\ App(q, a)
    BY <1>5, <2>1 DEF Behind
  <2>3. a - 1 \in DOMAIN Tail(q) /\ App(Tail(q), a - 1) /\ a - 1 < i
    BY <1>2, <1>3, <1>5, <2>2
  <2>4. QED
    BY <2>3
<1>6. ASSUME Apart(q), Req(q, 1) PROVE Behind(Tail(q), {q[1].tk})
  <2> SUFFICES ASSUME NEW i \in DOMAIN Tail(q), Req(Tail(q), i), Tail(q)[i].tk = q[1].tk
               PROVE  \E a \in DOMAIN Tail(q) : a < i /\ App(Tail(q), a)
    BY DEF Behind
  <2>1. /\ i + 1 \in DOMAIN q /\ Req(q, i + 1) /\ q[i + 1].tk = q[1].tk /\ 1 < i + 1
        /\ 1 \in DOMAIN q
    BY <1>1, <1>3
  <2>2. PICK a \in DOMAIN q : 1 < a /\ a < i + 1 /\ App(q, a)
    BY <1>6, <2>1 DEF Apart
  <2>3. a - 1 \in DOMAIN Tail(q) /\ App(Tail(q), a - 1) /\ a - 1 < i
    BY <1>2, <1>3, <2>2
  <2>4. QED
    BY <2>3
<1>7. ASSUME Closed(q, n) PROVE Closed(Tail(q), n)
  <2> SUFFICES ASSUME NEW i \in DOMAIN Tail(q), Req(Tail(q), i), Tail(q)[i].tk = n
               PROVE  \E a \in DOMAIN Tail(q) : i < a /\ App(Tail(q), a)
    BY DEF Closed
  <2>1. i + 1 \in DOMAIN q /\ Req(q, i + 1) /\ q[i + 1].tk = n
    BY <1>3
  <2>2. PICK a \in DOMAIN q : i + 1 < a /\ App(q, a)
    BY <1>7, <2>1 DEF Closed
  <2>3. a - 1 \in DOMAIN Tail(q) /\ App(Tail(q), a - 1) /\ i < a - 1
    BY <1>2, <1>3, <2>2
  <2>4. QED
    BY <2>3
<1>8. ASSUME Closed(q, n), Req(q, 1), q[1].tk = n PROVE HasApp(Tail(q))
  <2>1. PICK a \in DOMAIN q : 1 < a /\ App(q, a)
    BY <1>1, <1>8 DEF Closed
  <2>2. QED
    BY <1>2, <2>1 DEF HasApp
<1>9. ASSUME HasApp(q), ~App(q, 1) PROVE HasApp(Tail(q))
  <2>1. PICK a \in DOMAIN q : App(q, a)
    BY <1>9 DEF HasApp
  <2>2. QED
    BY <1>2, <1>9, <2>1 DEF HasApp
<1>10. QED
  BY <1>4, <1>5, <1>6, <1>7, <1>8, <1>9

\* A line is sent.
LEMMA LineSent ==
  ASSUME NEW q \in Seq(Line), NEW x \in Line, NEW S, NEW n
  PROVE  /\ Append(q, x) \in Seq(Line)
         /\ Apart(q) /\ (x.k = "req" => Closed(q, x.tk)) => Apart(Append(q, x))
         /\ Behind(q, S) /\ (x.k = "req" /\ x.tk \in S => HasApp(q)) => Behind(Append(q, x), S)
         /\ Closed(q, n) /\ x.k # "req" => Closed(Append(q, x), n)
         /\ x.k = "app" => Closed(Append(q, x), n) /\ HasApp(Append(q, x))
         /\ HasApp(q) => HasApp(Append(q, x))
<1> DEFINE r == Append(q, x)
           m == Len(q) + 1
<1>1. /\ r \in Seq(Line) /\ DOMAIN r = 1 .. m /\ Len(q) \in Nat /\ DOMAIN q = 1 .. Len(q)
      /\ \A i \in DOMAIN q : r[i] = q[i]
      /\ r[m] = x
  BY AppendProperties, LenProperties
<1>2. m \in Nat /\ \A i \in DOMAIN q : i < m /\ i \in Nat /\ i \in DOMAIN r
  BY <1>1
<1>3. m \in DOMAIN r /\ \A i \in DOMAIN r : i \in Nat /\ (i \in DOMAIN q \/ i = m)
  BY <1>1
<1>4. \A i \in DOMAIN q : (App(r, i) <=> App(q, i)) /\ (Req(r, i) <=> Req(q, i)) /\ r[i].tk = q[i].tk
  BY <1>1, <1>2 DEF App, Req
<1>5. (App(r, m) <=> x.k = "app") /\ (Req(r, m) <=> x.k = "req") /\ r[m].tk = x.tk
  BY <1>1, <1>3 DEF App, Req
<1>0. r \in Seq(Line)
  BY <1>1
<1> HIDE DEF r, m
<1>6. ASSUME Apart(q), x.k = "req" => Closed(q, x.tk) PROVE Apart(r)
  <2> SUFFICES ASSUME NEW i \in DOMAIN r, NEW j \in DOMAIN r, i < j,
                      Req(r, i), Req(r, j), r[i].tk = r[j].tk
               PROVE  \E a \in DOMAIN r : i < a /\ a < j /\ App(r, a)
    BY DEF Apart
  <2>1. i \in DOMAIN q
    <3>1. CASE i = m
      BY <1>2, <1>3, <3>1
    <3>2. QED
      BY <1>3, <3>1
  <2>2. CASE j \in DOMAIN q
    <3>1. PICK a \in DOMAIN q : i < a /\ a < j /\ App(q, a)
      BY <1>4, <1>6, <2>1, <2>2 DEF Apart
    <3>2. QED
      BY <1>2, <1>4, <3>1
  <2>3. CASE j = m
    <3>1. PICK a \in DOMAIN q : i < a /\ App(q, a)
      BY <1>4, <1>5, <1>6, <2>1, <2>3 DEF Closed
    <3>2. QED
      BY <1>2, <1>4, <2>3, <3>1
  <2>4. QED
    BY <1>3, <2>2, <2>3
<1>7. ASSUME Behind(q, S), x.k = "req" /\ x.tk \in S => HasApp(q) PROVE Behind(r, S)
  <2> SUFFICES ASSUME NEW i \in DOMAIN r, Req(r, i), r[i].tk \in S
               PROVE  \E a \in DOMAIN r : a < i /\ App(r, a)
    BY DEF Behind
  <2>1. CASE i \in DOMAIN q
    <3>1. PICK a \in DOMAIN q : a < i /\ App(q, a)
      BY <1>4, <1>7, <2>1 DEF Behind
    <3>2. QED
      BY <1>2, <1>4, <3>1
  <2>2. CASE i = m
    <3>1. PICK a \in DOMAIN q : App(q, a)
      BY <1>5, <1>7, <2>2 DEF HasApp
    <3>2. QED
      BY <1>2, <1>4, <2>2, <3>1
  <2>3. QED
    BY <1>3, <2>1, <2>2
<1>8. ASSUME Closed(q, n), x.k # "req" PROVE Closed(r, n)
  <2> SUFFICES ASSUME NEW i \in DOMAIN r, Req(r, i), r[i].tk = n
               PROVE  \E a \in DOMAIN r : i < a /\ App(r, a)
    BY DEF Closed
  <2>1. i \in DOMAIN q
    BY <1>3, <1>5, <1>8
  <2>2. PICK a \in DOMAIN q : i < a /\ App(q, a)
    BY <1>4, <1>8, <2>1 DEF Closed
  <2>3. QED
    BY <1>2, <1>4, <2>2
<1>9. ASSUME x.k = "app" PROVE Closed(r, n) /\ HasApp(r)
  <2>1. App(r, m) /\ m \in DOMAIN r
    BY <1>3, <1>5, <1>9
  <2>2. \A i \in DOMAIN r : Req(r, i) => i < m
    BY <1>2, <1>3, <1>5, <1>9
  <2>3. QED
    BY <2>1, <2>2 DEF Closed, HasApp
<1>10. ASSUME HasApp(q) PROVE HasApp(r)
  BY <1>2, <1>4, <1>10 DEF HasApp
<1>11. QED
  BY <1>0, <1>6, <1>7, <1>8, <1>9, <1>10 DEF r

LEMMA NoLines ==
  ASSUME NEW S, NEW n
  PROVE  <<>> \in Seq(Line) /\ Apart(<<>>) /\ Behind(<<>>, S) /\ Closed(<<>>, n)
  BY EmptySeq DEF Apart, Behind, Closed

-----------------------------------------------------------------------------
(* What the steps do to the lines and to the far end.                      *)

Silent == UNCHANGED <<phase, inq, served>>
Sent(k) ==
    /\ UNCHANGED <<phase, served, modem>>
    /\ inq' = IF modem = "up" /\ phase # "none" THEN Append(inq, [k |-> k, tk |-> cur.tk]) ELSE inq
Drains == phase' = "none" /\ inq' = <<>> /\ UNCHANGED served

\* The actor sends a line, closes the link or opens it; a request only from the
\* program point that looked at the abort flag.
LEMMA ActorAir ==
  ASSUME Actor
  PROVE  \/ Silent
         \/ \E k \in {"app", "call", "agree"} : Sent(k) /\ pc # "sr_send"
         \/ Sent("req") /\ pc = "sr_send"
         \/ Drains
         \/ LinkEstablished
<1>1. CASE \/ StartConnectModem \/ TcpUp \/ TcpFails \/ Registered \/ RegistrationFails
           \/ StartDisconnectModem \/ DisconnectModem \/ StartQueryPorts \/ QueryPorts
           \/ StartOpenSession
  BY <1>1 DEF StartConnectModem, TcpUp, TcpFails, Registered, RegistrationFails,
     StartDisconnectModem, DisconnectModem, StartQueryPorts, QueryPorts, StartOpenSession, Silent
<1>2. CASE LinkOpens \/ LinkFails
  BY <1>2 DEF LinkOpens, LinkFails, Silent
<1>3. CASE AppCommand \/ Callsign
  BY <1>3 DEF AppCommand, Callsign, Transmit, Sent, Silent
<1>4. CASE \/ SkipText \/ AskConsent \/ Consented \/ Declined \/ ConsentTimesOut
           \/ CompareDisclaimer \/ HandshakeFails \/ StartCloseSession
  BY <1>4 DEF SkipText, AskConsent, Consented, Declined, ConsentTimesOut, CompareDisclaimer,
     HandshakeFails, StartCloseSession, Silent
<1>5. CASE SendAgree
  BY <1>5 DEF SendAgree, Transmit, Sent
<1>6. CASE CloseSession \/ ReopenModem
  BY <1>6 DEF CloseSession, ReopenModem, DisconnectAndDrain, Silent, Drains
<1>7. CASE RequestSend
  BY <1>7 DEF RequestSend, Transmit, Sent, Silent
<1>8. CASE \/ StartRequest \/ RequestCheck \/ RequestAnswered \/ RequestText \/ SessionDied
           \/ RequestFails
  BY <1>8 DEF StartRequest, RequestCheck, RequestAnswered, RequestText, SessionDied,
     RequestFails, Silent
<1>9. QED
  BY <1>1, <1>2, <1>3, <1>4, <1>5, <1>6, <1>7, <1>8 DEF Actor

\* The far end reads lines from the front, or drops them all.
Shorter == inq' \in {<<>>, inq} \/ (inq # <<>> /\ inq' = Tail(inq))
Ends ==
    /\ phase' \in {"none", "node"} /\ UNCHANGED served /\ Shorter
    /\ phase' = "none" => inq' = <<>>
    /\ SkipBpqApp => phase' # "node"
Begins == phase = "node" /\ phase' = "call" /\ inq # <<>> /\ inq' = Tail(inq) /\ served' = {}
Named  == phase = "call" /\ phase' = "agree" /\ Shorter /\ UNCHANGED served
Agrees == /\ phase = "agree" /\ phase' \in {"agree", "serving"} /\ UNCHANGED served
          /\ inq # <<>> /\ inq' = Tail(inq)
Serves == /\ phase = "serving" /\ UNCHANGED phase /\ inq # <<>> /\ Head(inq).k = "req"
          /\ inq' = Tail(inq) /\ served' = served \cup {Head(inq).tk}

LEMMA PeerAir ==
  ASSUME Peer, SkipBpqApp => phase # "node"
  PROVE  Silent \/ Ends \/ Begins \/ Named \/ Agrees \/ Serves
<1> USE DEF Shorter
<1>1. CASE NodeLine
  BY <1>1 DEF NodeLine, Ends, Begins
<1>2. ASSUME NEW frames, NEW unread, HangUp(frames, unread), UNCHANGED served,
             unread = inq \/ (unread = Tail(inq) /\ inq # <<>>)
      PROVE  Ends
  BY <1>2 DEF HangUp, Ends
<1>3. CASE ServerCallsign
  BY <1>2, <1>3 DEF ServerCallsign, Named
<1>4. CASE ServerAgree
  BY <1>2, <1>4 DEF ServerAgree, Agrees
<1>5. CASE ServerNoBrowser
  BY <1>2, <1>5 DEF ServerNoBrowser
<1>6. CASE ServerRequest
  BY <1>2, <1>6 DEF ServerRequest, Serves
<1>7. CASE PeerEnds
  BY <1>2, <1>7 DEF PeerEnds, Ends
<1>8. CASE Noise \/ ModemDies
  BY <1>8 DEF Noise, ModemDies, Silent
<1>9. QED
  BY <1>1, <1>3, <1>4, <1>5, <1>6, <1>7, <1>8 DEF Peer

\* Handlers have no part in it.
LEMMA HandlerAir ==
  ASSUME NEW p \in Handlers, Handler(p) \/ Operator(p)
  PROVE  Silent /\ UNCHANGED <<rx, modem, tainted, retried>>
<1>1. CASE Handler(p)
  BY <1>1 DEF Handler, Enqueue, Return, ConsentRead, ConsentRecord, ConsentSend, Silent
<1>2. CASE Operator(p)
  BY <1>2 DEF Operator, Issue, Begin, DeclineDisconnects, ConsentGet, ConsentTake, Abandon, Silent
<1>3. QED
  BY <1>1, <1>2

LEMMA ShorterLines ==
  ASSUME inq \in Seq(Line), Shorter, NEW n
  PROVE  /\ Apart(inq) => Apart(inq')
         /\ Closed(inq, n) => Closed(inq', n)
<1>1. CASE inq' = <<>>
  BY <1>1, NoLines
<1>2. CASE inq' = inq
  BY <1>2
<1>3. CASE inq # <<>> /\ inq' = Tail(inq)
  BY <1>3, LineRead
<1>4. QED
  BY <1>1, <1>2, <1>3 DEF Shorter

-----------------------------------------------------------------------------
(* Sessions.                                                               *)

LEMMA SessionPeer ==
  ASSUME TypeOK, SessionInv, Peer
  PROVE  SessionInv'
<1>0. inq \in Seq(Line) /\ Apart(inq) /\ (SkipBpqApp => phase # "node")
  BY DEF TypeOK, SessionInv
<1>1. CASE Silent
  BY <1>1 DEF Silent, SessionInv
<1>2. CASE Ends
  BY <1>0, <1>2, ShorterLines DEF Ends, SessionInv
<1>3. CASE Begins
  BY <1>0, <1>3, LineRead DEF Begins, SessionInv
<1>4. CASE Named
  BY <1>0, <1>4, ShorterLines DEF Named, SessionInv
<1>5. CASE Agrees
  <2>1. served' = {}
    BY <1>5 DEF Agrees, SessionInv
  <2>2. Behind(inq', served')
    BY <2>1 DEF Behind
  <2>3. Apart(inq')
    BY <1>0, <1>5, LineRead DEF Agrees
  <2>4. QED
    BY <1>5, <2>1, <2>2, <2>3 DEF Agrees, SessionInv
<1>6. CASE Serves
  <2>1. Head(inq) = inq[1] /\ 1 \in DOMAIN inq
    <3>1. Len(inq) \in Nat \ {0} /\ DOMAIN inq = 1 .. Len(inq) /\ Head(inq) = inq[1]
      BY <1>0, <1>6, TailLines DEF Serves
    <3>2. QED
      BY <3>1
  <2>2. Req(inq, 1) /\ ~App(inq, 1)
    BY <1>6, <2>1 DEF Serves, Req, App
  <2>3. Behind(inq, served) /\ inq # <<>> /\ inq' = Tail(inq)
    BY <1>6 DEF Serves, SessionInv
  <2>4. Behind(inq', served) /\ Behind(inq', {inq[1].tk}) /\ Apart(inq')
    BY <1>0, <2>2, <2>3, LineRead
  <2>5. served' = served \cup {inq[1].tk}
    BY <1>6, <2>1 DEF Serves
  <2>6. Behind(inq', served')
    BY <2>4, <2>5 DEF Behind
  <2>7. QED
    BY <1>6, <2>4, <2>6 DEF Serves, SessionInv
<1>7. QED
  BY <1>0, <1>1, <1>2, <1>3, <1>4, <1>5, <1>6, PeerAir

LEMMA SessionActor ==
  ASSUME TypeOK, SessionInv, RetryInv, Actor
  PROVE  SessionInv'
<1>0. inq \in Seq(Line) /\ Apart(inq) /\ cur.tk \in Nat
  BY DEF TypeOK, SessionInv, TransportCommand
<1>1. CASE Silent
  BY <1>1 DEF Silent, SessionInv
<1>2. CASE Drains
  BY <1>2, NoLines DEF Drains, SessionInv
<1>3. CASE LinkEstablished
  BY <1>3, NoLines DEF LinkEstablished, FreshPhase, SessionInv
<1>4. ASSUME NEW k \in {"app", "call", "agree", "req"}, Sent(k),
             k = "req" => pc = "sr_send"
      PROVE  SessionInv'
  <2>1. CASE modem = "up" /\ phase # "none"
    <3>1. PICK x \in Line : x = [k |-> k, tk |-> cur.tk]
      BY <1>0 DEF Line
    <3>2. inq' = Append(inq, x) /\ phase' = phase /\ served' = served
      BY <1>4, <2>1, <3>1 DEF Sent
    <3>3. x.k = "req" => /\ Closed(inq, x.tk)
                         /\ phase = "serving" /\ x.tk \in served => HasApp(inq)
      BY <1>4, <2>1, <3>1 DEF RetryInv, Fenced, HasApp
    <3>4. Apart(inq') /\ (phase = "serving" => Behind(inq', served))
      BY <1>0, <3>2, <3>3, LineSent DEF SessionInv
    <3>5. QED
      BY <2>1, <3>2, <3>4 DEF SessionInv
  <2>2. CASE ~(modem = "up" /\ phase # "none")
    BY <1>4, <2>2 DEF Sent, SessionInv
  <2>3. QED
    BY <2>1, <2>2
<1>5. QED
  BY <1>1, <1>2, <1>3, <1>4, ActorAir

-----------------------------------------------------------------------------
(* Numbers.                                                                *)

\* The actor takes a command or works on the one it has.
LEMMA ActorQueue ==
  ASSUME Actor
  PROVE  /\ UNCHANGED tick
         /\ \/ /\ queue # <<>> /\ cur' = Head(queue) /\ queue' = Tail(queue)
               /\ Silent /\ UNCHANGED <<rx, tainted, modem>> /\ pc = "idle"
            \/ UNCHANGED <<queue, cur>> /\ pc # "idle"
<1>1. CASE \/ StartConnectModem \/ StartDisconnectModem \/ StartQueryPorts \/ StartOpenSession
           \/ StartCloseSession \/ StartRequest
  BY <1>1 DEF StartConnectModem, StartDisconnectModem, StartQueryPorts, StartOpenSession,
     StartCloseSession, StartRequest, Dequeue, Silent
<1>2. CASE \/ TcpUp \/ TcpFails \/ Registered \/ RegistrationFails \/ DisconnectModem \/ QueryPorts
           \/ LinkOpens \/ LinkFails \/ AppCommand \/ Callsign
  BY <1>2 DEF TcpUp, TcpFails, Registered, RegistrationFails, DisconnectModem, QueryPorts,
     LinkOpens, LinkFails, AppCommand, Callsign
<1>3. CASE \/ SkipText \/ AskConsent \/ Consented \/ Declined \/ ConsentTimesOut
           \/ CompareDisclaimer \/ SendAgree \/ HandshakeFails \/ CloseSession
  BY <1>3 DEF SkipText, AskConsent, Consented, Declined, ConsentTimesOut, CompareDisclaimer,
     SendAgree, HandshakeFails, CloseSession, HandshakePCs
<1>4. CASE \/ RequestCheck \/ RequestSend \/ RequestAnswered \/ RequestText \/ SessionDied
           \/ RequestFails \/ ReopenModem
  BY <1>4 DEF RequestCheck, RequestSend, RequestAnswered, RequestText, SessionDied,
     RequestFails, ReopenModem
<1>5. QED
  BY <1>1, <1>2, <1>3, <1>4 DEF Actor

\* No request in q has a number above n.
UpTo(q, n) == \A i \in DOMAIN q : Req(q, i) => q[i].tk <= n

LEMMA UpToLines ==
  ASSUME NEW q \in Seq(Line), NEW n \in Nat
  PROVE  /\ UpTo(<<>>, n)
         /\ UpTo(q, n) /\ q # <<>> => UpTo(Tail(q), n)
         /\ \A x \in Line : UpTo(q, n) /\ x.tk <= n => UpTo(Append(q, x), n)
<1>1. UpTo(<<>>, n)
  BY DEF UpTo
<1>2. ASSUME UpTo(q, n), q # <<>> PROVE UpTo(Tail(q), n)
  <2>1. \A i \in DOMAIN Tail(q) : i \in Nat /\ i + 1 \in DOMAIN q /\ Tail(q)[i] = q[i + 1]
    BY <1>2, TailLines
  <2>2. QED
    BY <1>2, <2>1 DEF UpTo, Req
<1>3. ASSUME NEW x \in Line, UpTo(q, n), x.tk <= n PROVE UpTo(Append(q, x), n)
  <2>1. /\ DOMAIN Append(q, x) = 1 .. Len(q) + 1 /\ Len(q) \in Nat /\ DOMAIN q = 1 .. Len(q)
        /\ \A i \in DOMAIN q : Append(q, x)[i] = q[i]
        /\ Append(q, x)[Len(q) + 1] = x
    BY AppendProperties, LenProperties
  <2>2. \A i \in DOMAIN Append(q, x) : i \in DOMAIN q \/ i = Len(q) + 1
    BY <2>1
  <2>3. QED
    BY <1>3, <2>1, <2>2 DEF UpTo, Req
<1>4. QED
  BY <1>1, <1>2, <1>3

\* The numbers of lines and of requests answered never exceed the actor's.
LEMMA NumberAir ==
  ASSUME IInv, SessionInv, NumberInv, Actor \/ Peer
  PROVE  UpTo(inq', cur.tk) /\ \A n \in served' : n <= cur.tk
<1>0. /\ inq \in Seq(Line) /\ cur.tk \in Nat /\ UpTo(inq, cur.tk)
      /\ \A n \in served : n <= cur.tk
  BY DEF IInv, TypeOK, TransportCommand, NumberInv, UpTo
<1>1. CASE Silent
  BY <1>0, <1>1 DEF Silent
<1>2. CASE Drains \/ LinkEstablished
  BY <1>0, <1>2, UpToLines DEF Drains, LinkEstablished
<1>3. ASSUME NEW k \in {"app", "call", "agree", "req"}, Sent(k)
      PROVE  UpTo(inq', cur.tk) /\ served' = served
  <2>1. PICK x \in Line : x = [k |-> k, tk |-> cur.tk]
    BY <1>0 DEF Line
  <2>2. x.tk = cur.tk /\ (inq' = Append(inq, x) \/ inq' = inq)
    BY <1>3, <2>1 DEF Sent
  <2>3. x.tk <= cur.tk
    BY <1>0, <2>2
  <2>4. QED
    BY <1>0, <1>3, <2>2, <2>3, UpToLines DEF Sent
<1>4. Shorter => UpTo(inq', cur.tk)
  BY <1>0, UpToLines DEF Shorter
<1>5. inq # <<>> => UpTo(Tail(inq), cur.tk)
  BY <1>0, UpToLines
<1>6. CASE Ends \/ Begins \/ Named \/ Agrees
  BY <1>0, <1>4, <1>5, <1>6 DEF Ends, Begins, Named, Agrees
<1>7. CASE Serves
  <2>1. Len(inq) \in Nat \ {0} /\ DOMAIN inq = 1 .. Len(inq) /\ Head(inq) = inq[1]
    BY <1>0, <1>7, TailLines DEF Serves
  <2>2. Head(inq).tk <= cur.tk
    BY <1>0, <1>7, <2>1 DEF Serves, UpTo, Req
  <2>3. QED
    BY <1>0, <1>5, <1>7, <2>2 DEF Serves
<1>8. CASE Actor
  BY <1>0, <1>1, <1>2, <1>3, <1>8, ActorAir
<1>9. CASE Peer
  BY <1>1, <1>6, <1>7, <1>9, PeerAir DEF SessionInv
<1>10. QED
  BY <1>8, <1>9

LEMMA NumberPreserved ==
  ASSUME IInv, SessionInv, NumberInv, Next
  PROVE  NumberInv'
<1>0. /\ queue \in Seq(TransportCommand) /\ cur.tk \in Nat /\ tick \in Nat
      /\ cur.tk <= tick /\ (pc # "idle" => cur.tk >= 1)
      /\ \A i \in DOMAIN queue : cur.tk < queue[i].tk /\ queue[i].tk <= tick
      /\ \A i, j \in DOMAIN queue : i < j => queue[i].tk < queue[j].tk
      /\ UpTo(inq, cur.tk)
      /\ \A n \in served : n <= cur.tk
  BY DEF IInv, TypeOK, TransportCommand, NumberInv, UpTo
<1>1. CASE Peer
  <2>1. UNCHANGED <<queue, cur, pc, tick>>
    BY <1>1, PeerFrame DEF Peer, NodeLine, ServerCallsign, ServerAgree, ServerNoBrowser,
       ServerRequest, PeerEnds, Noise, ModemDies
  <2>2. UpTo(inq', cur.tk) /\ \A n \in served' : n <= cur.tk
    BY <1>1, NumberAir
  <2>3. QED
    BY <1>0, <2>1, <2>2 DEF NumberInv, UpTo
<1>2. CASE Actor
  <2>1. UpTo(inq', cur.tk) /\ \A n \in served' : n <= cur.tk
    BY <1>2, NumberAir
  <2>2. CASE UNCHANGED <<queue, cur, tick>> /\ pc # "idle"
    BY <1>0, <2>1, <2>2 DEF NumberInv, UpTo
  <2>3. CASE queue # <<>> /\ cur' = Head(queue) /\ queue' = Tail(queue) /\ Silent /\ UNCHANGED tick
    <3>1. /\ Len(queue) \in Nat \ {0} /\ DOMAIN queue = 1 .. Len(queue)
          /\ Head(queue) = queue[1] /\ Head(queue) \in TransportCommand
          /\ \A i \in DOMAIN Tail(queue) : i \in Nat /\ i + 1 \in DOMAIN queue /\ Tail(queue)[i] = queue[i + 1]
          /\ DOMAIN Tail(queue) = 1 .. Len(queue) - 1
      BY <1>0, <2>3, TailLines
    <3>2. \A i \in DOMAIN queue : queue[i].tk \in Nat
      <4>1. \A i \in 1 .. Len(queue) : queue[i] \in TransportCommand
        BY <1>0, ElementOfSeq
      <4>2. QED
        BY <3>1, <4>1 DEF TransportCommand
    <3>3. 1 \in DOMAIN queue /\ cur' = queue[1]
      BY <2>3, <3>1
    <3>4. PICK m \in Nat : m = queue[1].tk
      BY <3>2, <3>3
    <3>5. cur'.tk = m /\ cur.tk < m /\ m <= tick /\ m >= 1
      BY <1>0, <3>3, <3>4
    <3>a. \A i \in DOMAIN queue' : i \in Nat /\ i + 1 \in DOMAIN queue /\ queue'[i] = queue[i + 1]
                                   /\ i >= 1
      BY <2>3, <3>1
    <3>b. \A i, j \in DOMAIN queue : i < j => queue[i].tk < queue[j].tk
      BY <1>0
    <3>6. ASSUME NEW i \in DOMAIN queue' PROVE m < queue'[i].tk /\ queue'[i].tk <= tick
      <4>1. PICK k \in DOMAIN queue : k = i + 1 /\ 1 < k /\ queue'[i] = queue[k]
        BY <3>a
      <4>2. queue[1].tk < queue[k].tk /\ queue[k].tk <= tick
        BY <1>0, <3>3, <3>b, <4>1
      <4>3. QED
        BY <3>4, <4>1, <4>2
    <3>7. ASSUME NEW i \in DOMAIN queue', NEW j \in DOMAIN queue', i < j
          PROVE  queue'[i].tk < queue'[j].tk
      <4>1. PICK k \in DOMAIN queue : k = i + 1 /\ queue'[i] = queue[k]
        BY <3>a
      <4>2. PICK l \in DOMAIN queue : l = j + 1 /\ queue'[j] = queue[l]
        BY <3>a
      <4>3. k < l
        BY <3>a, <3>7, <4>1, <4>2
      <4>4. QED
        BY <3>b, <4>1, <4>2, <4>3
    <3>8. \A i \in DOMAIN inq' : Req(inq', i) => inq'[i].tk <= m
      <4>1. inq' = inq /\ inq \in Seq(Line)
        BY <2>3 DEF Silent, IInv, TypeOK
      <4>2. \A i \in DOMAIN inq : inq[i].tk \in Nat
        <5>1. \A i \in 1 .. Len(inq) : inq[i] \in Line
          BY <4>1, ElementOfSeq
        <5>2. QED
          BY <4>1, <5>1, LenProperties DEF Line
      <4>3. QED
        BY <1>0, <3>5, <4>1, <4>2 DEF UpTo
    <3>9. \A n \in served' : n <= m
      <4>1. served' = served /\ served \subseteq Nat
        BY <2>3 DEF Silent, IInv, TypeOK
      <4>2. QED
        BY <1>0, <3>5, <4>1
    <3>10. QED
      BY <1>0, <2>3, <3>5, <3>6, <3>7, <3>8, <3>9 DEF NumberInv
  <2>4. QED
    BY <1>2, <2>2, <2>3, ActorQueue
<1>3. ASSUME NEW p \in Handlers, Handler(p) \/ Operator(p) PROVE NumberInv'
  <2>1. UNCHANGED <<pc, cur, inq, served>>
    BY <1>3, HandlerFrame, HandlerAir DEF Silent
  <2>2. CASE UNCHANGED <<queue, tick>>
    BY <1>0, <2>1, <2>2 DEF NumberInv, UpTo
  <2>3. CASE Enqueue(p)
    <3>1. PICK x : x = [op |-> h[p].cmd, tk |-> tick + 1]
      OBVIOUS
    <3>2. queue' = Append(queue, x) /\ tick' = tick + 1 /\ x.tk = tick + 1
      BY <2>3, <3>1 DEF Enqueue
    <3>3. x \in TransportCommand
      BY <1>0, <2>3, <3>1 DEF Enqueue, IInv, HandlerInv, TransportCommand
    <3>4. /\ DOMAIN queue' = 1 .. Len(queue) + 1 /\ Len(queue) \in Nat
          /\ DOMAIN queue = 1 .. Len(queue)
          /\ \A i \in DOMAIN queue : queue'[i] = queue[i]
          /\ queue'[Len(queue) + 1] = x
      BY <1>0, <3>2, <3>3, AppendProperties, LenProperties
    <3>5. \A i \in DOMAIN queue : queue[i].tk \in Nat
      <4>1. \A i \in 1 .. Len(queue) : queue[i] \in TransportCommand
        BY <1>0, ElementOfSeq
      <4>2. QED
        BY <3>4, <4>1 DEF TransportCommand
    <3>6. \A i \in DOMAIN queue' : i \in DOMAIN queue \/ i = Len(queue) + 1
      BY <3>4
    <3>7. \A i \in DOMAIN queue' : cur.tk < queue'[i].tk /\ queue'[i].tk <= tick + 1
      BY <1>0, <3>2, <3>4, <3>5, <3>6
    <3>8. \A i, j \in DOMAIN queue' : i < j => queue'[i].tk < queue'[j].tk
      <4> SUFFICES ASSUME NEW i \in DOMAIN queue', NEW j \in DOMAIN queue', i < j
                   PROVE  queue'[i].tk < queue'[j].tk
        OBVIOUS
      <4>1. i \in DOMAIN queue
        BY <3>4
      <4>2. CASE j \in DOMAIN queue
        BY <1>0, <3>4, <4>1, <4>2
      <4>3. CASE j = Len(queue) + 1
        BY <1>0, <3>2, <3>4, <3>5, <4>1, <4>3
      <4>4. QED
        BY <3>6, <4>2, <4>3
    <3>9. QED
      BY <1>0, <2>1, <3>2, <3>7, <3>8 DEF NumberInv, UpTo
  <2>4. QED
    BY <1>3, <2>2, <2>3 DEF Handler, Operator, Return, ConsentRead, ConsentRecord, ConsentSend,
       Issue, Begin, DeclineDisconnects, ConsentGet, ConsentTake, Abandon
<1>4. QED
  BY <1>1, <1>2, <1>3 DEF Next

-----------------------------------------------------------------------------
(* Members of a queue.                                                     *)

LEMMA AtTail ==
  ASSUME NEW T, NEW q \in Seq(T), q # <<>>, NEW S
  PROVE  /\ At(q, S) = {} => At(Tail(q), S) = {}
         /\ One(At(q, S)) => One(At(Tail(q), S))
         /\ One(At(q, S)) /\ Head(q) \in S => At(Tail(q), S) = {}
         /\ Head(q) \in S => 1 \in At(q, S) /\ q[1] = Head(q)
         /\ \A i \in At(Tail(q), S) : \E j \in At(q, S) : Tail(q)[i] = q[j]
<1>1. /\ Len(q) \in Nat \ {0} /\ DOMAIN q = 1 .. Len(q) /\ Head(q) = q[1]
      /\ \A i \in DOMAIN Tail(q) : i \in Nat /\ i + 1 \in DOMAIN q /\ Tail(q)[i] = q[i + 1]
      /\ DOMAIN Tail(q) = 1 .. Len(q) - 1
  BY TailLines
<1>2. \A i \in At(Tail(q), S) : /\ i \in Nat /\ i + 1 # 1 /\ i + 1 \in At(q, S)
                                /\ Tail(q)[i] = q[i + 1]
  BY <1>1 DEF At
<1>3. Head(q) \in S => 1 \in At(q, S)
  BY <1>1 DEF At
<1>4. One(At(q, S)) => One(At(Tail(q), S))
  <2> SUFFICES ASSUME One(At(q, S)), NEW i \in At(Tail(q), S), NEW j \in At(Tail(q), S)
               PROVE  i = j
    BY DEF One
  <2>1. i \in Nat /\ j \in Nat /\ i + 1 = j + 1
    BY <1>2 DEF One
  <2>2. QED
    BY <2>1
<1>5. One(At(q, S)) /\ Head(q) \in S => At(Tail(q), S) = {}
  BY <1>2, <1>3 DEF One
<1>6. QED
  BY <1>1, <1>2, <1>3, <1>4, <1>5

LEMMA AtAppend ==
  ASSUME NEW T, NEW q \in Seq(T), NEW x \in T, NEW S
  PROVE  /\ Append(q, x) \in Seq(T)
         /\ x \notin S => At(Append(q, x), S) = At(q, S)
         /\ At(q, S) = {} => One(At(Append(q, x), S))
         /\ \A i \in At(Append(q, x), S) :
              Append(q, x)[i] = x \/ (i \in At(q, S) /\ Append(q, x)[i] = q[i])
<1>1. /\ DOMAIN Append(q, x) = 1 .. Len(q) + 1 /\ Len(q) \in Nat /\ DOMAIN q = 1 .. Len(q)
      /\ \A i \in DOMAIN q : Append(q, x)[i] = q[i]
      /\ Append(q, x)[Len(q) + 1] = x /\ Append(q, x) \in Seq(T)
  BY AppendProperties, LenProperties
<1>2. \A i \in At(Append(q, x), S) : \/ i = Len(q) + 1 /\ Append(q, x)[i] = x /\ x \in S
                                     \/ i \in At(q, S) /\ Append(q, x)[i] = q[i]
  BY <1>1 DEF At
<1>3. \A i \in At(q, S) : i \in At(Append(q, x), S)
  BY <1>1 DEF At
<1>4. QED
  BY <1>1, <1>2, <1>3 DEF One

LEMMA AtEmpty ==
  ASSUME NEW S
  PROVE  At(<<>>, S) = {} /\ One({})
  BY DEF At, One

\* What the far end emits is appended frame by frame.
LEMMA EmitFrames ==
  ASSUME rx \in Seq(Frame), NEW f \in Frame, NEW g \in Frame
  PROVE  /\ modem # "up" => \A frames : Emit(frames) => rx' = rx
         /\ modem = "up" /\ Emit(<<f>>) => rx' = Append(rx, f)
         /\ modem = "up" /\ Emit(Append(<<>>, g)) => rx' = Append(rx, g)
         /\ modem = "up" /\ Emit(Append(<<f>>, g)) => rx' = Append(Append(rx, f), g)
<1>1. /\ Append(<<>>, g) = <<g>> /\ <<f>> \in Seq(Frame) /\ <<g>> \in Seq(Frame)
  OBVIOUS
<1>2. Append(<<f>>, g) = <<f>> \o <<g>>
  BY <1>1, AppendIsConcat
<1>3. rx \o <<f>> = Append(rx, f) /\ rx \o <<g>> = Append(rx, g)
  BY AppendIsConcat
<1>4. Append(rx, f) \in Seq(Frame)
  BY AppendProperties
<1>5. Append(rx, f) \o <<g>> = Append(Append(rx, f), g)
  BY <1>4, AppendIsConcat
<1>6. (rx \o <<f>>) \o <<g>> = rx \o (<<f>> \o <<g>>)
  BY <1>1, ConcatAssociative
<1>7. QED
  BY <1>1, <1>2, <1>3, <1>5, <1>6 DEF Emit

LEMMA PlainFrames ==
  ASSUME NEW k \in {"prompt", "resp", "text", "dead"}
  PROVE  Plain(k) \in Frame /\ Plain(k).k = k /\ Plain(k).tk = 0
  BY DEF Plain, Frame

-----------------------------------------------------------------------------
(* The retry.                                                              *)

\* The far end does not bring two copies of the request together.
LEMMA FencedPeer ==
  ASSUME TypeOK, SessionInv, Fenced, Peer
  PROVE  Fenced'
<1>0. /\ inq \in Seq(Line) /\ Closed(inq, cur.tk) /\ (SkipBpqApp => phase # "node")
      /\ phase = "serving" /\ cur.tk \in served => HasApp(inq)
  BY DEF TypeOK, Fenced, SessionInv, HasApp
<1>1. cur' = cur
  BY PeerFrame
<1> SUFFICES /\ Closed(inq', cur.tk)
             /\ phase' = "serving" /\ cur.tk \in served' => HasApp(inq')
  BY <1>1 DEF Fenced, HasApp
<1>2. CASE Silent
  BY <1>0, <1>2 DEF Silent
<1>3. CASE Ends
  BY <1>0, <1>3, ShorterLines DEF Ends
<1>4. CASE Begins
  BY <1>0, <1>4, LineRead DEF Begins
<1>5. CASE Named
  BY <1>0, <1>5, ShorterLines DEF Named
<1>6. CASE Agrees
  BY <1>0, <1>6, LineRead DEF Agrees, SessionInv
<1>7. CASE Serves
  <2>1. Len(inq) \in Nat \ {0} /\ DOMAIN inq = 1 .. Len(inq) /\ Head(inq) = inq[1]
    BY <1>0, <1>7, TailLines DEF Serves
  <2>2. Req(inq, 1) /\ ~App(inq, 1) /\ inq # <<>> /\ inq' = Tail(inq)
    BY <1>7, <2>1 DEF Serves, Req, App
  <2>3. served' = served \cup {inq[1].tk} /\ phase = "serving"
    BY <1>7, <2>1 DEF Serves
  <2>4. QED
    BY <1>0, <2>2, <2>3, LineRead
<1>8. QED
  BY <1>0, <1>2, <1>3, <1>4, <1>5, <1>6, <1>7, PeerAir

TokenFrames == {f \in Frame : f.k \in {"prompt", "disc"}}

\* Where the link is the session, a resumed one brings the handshake no further.
LEMMA TokensPeer ==
  ASSUME TypeOK, SkipBpqApp, phase # "node", Peer, modem = "up", modem' = "up"
  PROVE  (OneToken => OneToken') /\ (NoToken => NoToken')
<1>0. rx \in Seq(Frame) /\ Tokens = At(rx, TokenFrames) /\ Tokens' = At(rx', TokenFrames)
  BY DEF TypeOK, Tokens, TokenFrames
<1>1. \A k \in {"resp", "text", "dead"} : Plain(k) \in Frame \ TokenFrames
  BY PlainFrames DEF TokenFrames
<1>2. ASSUME NEW k \in {"resp", "text", "dead"},
             Emit(<<Plain(k)>>) \/ Emit(Append(<<>>, Plain(k)))
      PROVE  Tokens' = Tokens
  <2>1. Plain(k) \in Frame \ TokenFrames
    BY <1>1
  <2>2. rx' = Append(rx, Plain(k))
    BY <1>0, <1>2, <2>1, EmitFrames
  <2>3. QED
    BY <1>0, <2>1, <2>2, AtAppend
<1>3. ASSUME NEW k \in {"resp", "text"}, Emit(Append(<<Plain(k)>>, Plain("dead")))
      PROVE  Tokens' = Tokens
  <2>1. rx' = Append(Append(rx, Plain(k)), Plain("dead"))
    BY <1>0, <1>1, <1>3, EmitFrames
  <2>2. Append(rx, Plain(k)) \in Seq(Frame) /\ At(Append(rx, Plain(k)), TokenFrames) = Tokens
    BY <1>0, <1>1, AtAppend
  <2>3. QED
    BY <1>0, <1>1, <2>1, <2>2, AtAppend
<1>4. ASSUME Tokens' = Tokens, phase' = "call" => phase = "call"
      PROVE  (OneToken => OneToken') /\ (NoToken => NoToken')
  BY <1>4 DEF OneToken, NoToken
<1>5. CASE ServerCallsign
  <2>1. phase = "call" /\ phase' # "call"
    BY <1>5 DEF ServerCallsign, HangUp
  <2>2. ASSUME Tokens = {} PROVE One(Tokens')
    <3>1. ASSUME NEW d \in Disclaimers, Emit(<<[k |-> "disc", d |-> d, tk |-> 0]>>)
          PROVE  One(Tokens')
      <4>1. PICK f \in Frame : f = [k |-> "disc", d |-> d, tk |-> 0]
        BY DEF Frame
      <4>2. rx' = Append(rx, f)
        BY <1>0, <3>1, <4>1, EmitFrames
      <4>3. QED
        BY <1>0, <2>2, <4>2, AtAppend
    <3>2. CASE Emit(Append(<<Plain("prompt")>>, Plain("dead")))
      <4>1. Plain("prompt") \in Frame
        BY PlainFrames
      <4>2. rx' = Append(Append(rx, Plain("prompt")), Plain("dead"))
        BY <1>0, <1>1, <3>2, <4>1, EmitFrames
      <4>3. /\ Append(rx, Plain("prompt")) \in Seq(Frame)
            /\ One(At(Append(rx, Plain("prompt")), TokenFrames))
        BY <1>0, <2>2, <4>1, AtAppend
      <4>4. QED
        BY <1>0, <1>1, <4>2, <4>3, AtAppend
    <3>3. QED
      BY <1>5, <3>1, <3>2 DEF ServerCallsign, HangUp
  <2>3. QED
    BY <2>1, <2>2 DEF OneToken, NoToken
<1>6. CASE ServerAgree
  <2>1. phase' # "call"
    BY <1>6 DEF ServerAgree, HangUp
  <2>2. Tokens' = Tokens
    BY <1>0, <1>3, <1>6 DEF ServerAgree, HangUp
  <2>3. QED
    BY <1>4, <2>1, <2>2
<1>7. CASE ServerNoBrowser
  <2>1. phase' # "call" /\ Tokens' = Tokens
    BY <1>3, <1>7 DEF ServerNoBrowser, HangUp
  <2>2. QED
    BY <1>4, <2>1
<1>8. CASE ServerRequest
  <2>1. phase' # "call"
    BY <1>8 DEF ServerRequest, HangUp
  <2>2. Tokens' = Tokens
    <3>1. CASE Emit(<<[k |-> "resp", d |-> None, tk |-> Head(inq).tk]>>) /\ inq # <<>>
      <4>1. Head(inq).tk \in Nat
        <5>1. Head(inq) \in Line
          BY <3>1, HeadTailProperties DEF TypeOK
        <5>2. QED
          BY <5>1 DEF Line
      <4>2. PICK f \in Frame \ TokenFrames : f = [k |-> "resp", d |-> None, tk |-> Head(inq).tk]
        BY <4>1 DEF Frame, TokenFrames
      <4>3. rx' = Append(rx, f)
        BY <1>0, <3>1, <4>2, EmitFrames
      <4>4. QED
        BY <1>0, <4>3, AtAppend
    <3>2. QED
      BY <1>2, <1>8, <3>1 DEF ServerRequest, HangUp
  <2>3. QED
    BY <1>4, <2>1, <2>2
<1>9. CASE PeerEnds
  <2>1. phase' # "call"
    BY <1>9 DEF PeerEnds, HangUp
  <2>2. Tokens' = Tokens
    BY <1>0, <1>2, <1>3, <1>9 DEF PeerEnds, HangUp
  <2>3. QED
    BY <1>4, <2>1, <2>2
<1>10. CASE Noise
  BY <1>2, <1>4, <1>10 DEF Noise
<1>11. QED
  BY <1>5, <1>6, <1>7, <1>8, <1>9, <1>10 DEF Peer, NodeLine, ModemDies

\* Frames the client reads.
LEMMA TokensRead ==
  ASSUME rx \in Seq(Frame), rx # <<>>, rx' = Tail(rx), UNCHANGED phase
  PROVE  /\ OneToken => OneToken'
         /\ NoToken => NoToken'
         /\ OneToken /\ Head(rx) \in TokenFrames => NoToken'
         /\ Head(rx) \in TokenFrames => ~NoToken
<1>1. Tokens = At(rx, TokenFrames) /\ Tokens' = At(Tail(rx), TokenFrames)
  BY DEF Tokens, TokenFrames
<1>2. /\ Tokens = {} => Tokens' = {}
      /\ One(Tokens) => One(Tokens')
      /\ One(Tokens) /\ Head(rx) \in TokenFrames => Tokens' = {}
      /\ Head(rx) \in TokenFrames => Tokens # {}
  BY <1>1, AtTail
<1>3. QED
  BY <1>2 DEF OneToken, NoToken

\* The client sends another line.
LEMMA FencedSent ==
  ASSUME TypeOK, SessionInv, NEW k \in {"app", "call", "agree"}, Sent(k), UNCHANGED cur
  PROVE  /\ Fenced => Fenced'
         /\ modem = "up" /\ k = "app" => Fenced'
<1>0. inq \in Seq(Line) /\ cur.tk \in Nat
  BY DEF TypeOK, TransportCommand
<1>1. PICK x \in Line : x = [k |-> k, tk |-> cur.tk]
  BY <1>0 DEF Line
<1>2. CASE modem = "up" /\ phase # "none"
  <2>1. inq' = Append(inq, x) /\ phase' = phase /\ served' = served /\ x.k = k
    BY <1>1, <1>2 DEF Sent
  <2>2. QED
    BY <1>0, <2>1, LineSent DEF Fenced, HasApp
<1>3. CASE phase = "none"
  BY <1>3, NoLines DEF Sent, SessionInv, Fenced
<1>4. CASE modem # "up"
  BY <1>4 DEF Sent, Fenced
<1>5. QED
  BY <1>2, <1>3, <1>4

Critical == {"rc_app", "rc_call", "rc_disc", "rc_agree", "sr_check", "sr_send"}

\* Steps that lead to the program points of the retry.
LEMMA ActorCritical ==
  ASSUME Actor, pc' \in Critical
  PROVE  \/ LinkOpens \/ AppCommand \/ Callsign \/ SkipText \/ CompareDisclaimer \/ SendAgree
         \/ StartRequest \/ RequestCheck
<1> USE DEF Critical
<1>1. ASSUME NEW ans, Reply(ans) PROVE FALSE
  BY <1>1 DEF Reply
<1>2. ASSUME NEW ans, Fail(ans) PROVE FALSE
  BY <1>1, <1>2 DEF Fail
<1>3. CASE \/ StartConnectModem \/ StartDisconnectModem \/ StartQueryPorts \/ StartOpenSession
           \/ StartCloseSession
  BY <1>3 DEF StartConnectModem, StartDisconnectModem, StartQueryPorts, StartOpenSession,
     StartCloseSession, Dequeue
<1>4. CASE \/ TcpUp \/ TcpFails \/ Registered \/ RegistrationFails \/ DisconnectModem \/ QueryPorts
           \/ LinkFails
  BY <1>1, <1>2, <1>4 DEF TcpUp, TcpFails, Registered, RegistrationFails, DisconnectModem,
     QueryPorts, LinkFails, Proceed
<1>5. CASE \/ AskConsent \/ Consented \/ Declined \/ ConsentTimesOut \/ HandshakeFails
           \/ CloseSession
  BY <1>1, <1>2, <1>5 DEF AskConsent, Consented, Declined, ConsentTimesOut, HandshakeFails,
     CloseSession
<1>6. CASE \/ RequestSend \/ RequestAnswered \/ RequestText \/ SessionDied \/ RequestFails
           \/ ReopenModem
  BY <1>1, <1>6 DEF RequestSend, RequestAnswered, RequestText, SessionDied, RequestFails,
     ReopenModem
<1>7. QED
  BY <1>3, <1>4, <1>5, <1>6 DEF Actor

LEMMA RetryActor ==
  ASSUME IInv, SessionInv, NumberInv, RetryInv, Actor
  PROVE  RetryInv'
<1>0. /\ TypeOK /\ rx \in Seq(Frame) /\ inq \in Seq(Line)
      /\ queue \in Seq(TransportCommand) /\ cur.tk \in Nat
  BY DEF IInv, TypeOK, TransportCommand
<1>1. CASE pc' \notin Critical
  BY <1>1 DEF RetryInv, Critical
<1> USE DEF Critical
<1>2. CASE LinkOpens
  <2>1. pc' \in {"hs_app", "rc_app", "idle"}
    BY <1>2 DEF LinkOpens, Proceed, Fail, Reply
  <2>2. LinkEstablished /\ UNCHANGED cur
    BY <1>2 DEF LinkOpens
  <2>3. CASE phase = "none"
    <3>1. inq' = <<>> /\ served' = {}
      BY <2>2, <2>3 DEF LinkEstablished
    <3>2. Fenced'
      BY <3>1, NoLines DEF Fenced
    <3>3. QED
      BY <2>1, <3>2 DEF RetryInv
  <2>4. CASE phase # "none"
    <3>1. rx' = <<>>
      BY <2>2, <2>4 DEF LinkEstablished
    <3>2. Tokens' = {}
      BY <3>1, AtEmpty DEF Tokens
    <3>3. OneToken'
      BY <3>2, AtEmpty DEF OneToken
    <3>4. QED
      BY <2>1, <3>3 DEF RetryInv
  <2>5. QED
    BY <2>3, <2>4
<1>3. CASE AppCommand
  <2>1. UNCHANGED <<cur, modem, rx, phase, served>> /\ pc' \in {"hs_call", "rc_call", "idle"}
    BY <1>3 DEF AppCommand, Proceed, Fail, Reply
  <2>2. CASE SkipBpqApp
    <3>1. UNCHANGED inq
      BY <1>3, <2>2 DEF AppCommand
    <3>2. pc' = "rc_call" => pc = "rc_app"
      BY <1>3, <2>2 DEF AppCommand
    <3>3. Fenced' = Fenced /\ OneToken' = OneToken
      BY <2>1, <3>1 DEF Fenced, OneToken, Tokens
    <3>4. QED
      BY <2>1, <2>2, <3>2, <3>3 DEF RetryInv
  <2>3. CASE ~SkipBpqApp
    <3>1. Sent("app")
      BY <1>3, <2>1, <2>3 DEF AppCommand, Transmit, Sent
    <3>2. modem = "up" => Fenced'
      BY <1>0, <2>1, <3>1, FencedSent
    <3>3. QED
      BY <2>1, <2>3, <3>2 DEF RetryInv
  <2>4. QED
    BY <2>2, <2>3
<1>4. CASE Callsign
  <2>1. /\ UNCHANGED <<cur, modem, phase, served>> /\ pc' \in {"hs_disc", "rc_disc", "idle"}
        /\ pc' = "rc_disc" => pc = "rc_call"
    BY <1>4 DEF Callsign, Proceed, Fail, Reply
  <2>2. rx # <<>> /\ rx' = Tail(rx) /\ Head(rx).k \in {"prompt", "disc"}
    BY <1>4 DEF Callsign, Arrives
  <2>3. Head(rx) \in TokenFrames
    BY <1>0, <2>2, TailLines DEF TokenFrames
  <2>4. Sent("call")
    BY <1>4, <2>1 DEF Callsign, Transmit, Sent
  <2>5. Fenced => Fenced'
    BY <1>0, <2>1, <2>4, FencedSent
  <2>6. OneToken => NoToken'
    BY <1>0, <2>1, <2>2, <2>3, TokensRead
  <2>7. QED
    BY <2>1, <2>5, <2>6 DEF RetryInv
<1>5. CASE SkipText
  <2>1. UNCHANGED <<cur, modem, phase, served, inq, pc>> /\ rx # <<>> /\ rx' = Tail(rx)
        /\ pc \in {"hs_call", "rc_call", "hs_disc", "rc_disc"}
    BY <1>5 DEF SkipText, Arrives
  <2>2. Fenced' = Fenced
    BY <2>1 DEF Fenced
  <2>3. (OneToken => OneToken') /\ (NoToken => NoToken')
    BY <1>0, <2>1, TokensRead
  <2>4. QED
    BY <2>1, <2>2, <2>3 DEF RetryInv
<1>6. CASE CompareDisclaimer
  <2>1. UNCHANGED <<cur, modem, phase, served, inq>> /\ pc' \in {"rc_agree", "idle"}
        /\ pc = "rc_disc"
    BY <1>6 DEF CompareDisclaimer, Proceed, Fail, Reply
  <2>2. rx # <<>> /\ rx' = Tail(rx) /\ Head(rx).k = "disc"
    BY <1>6 DEF CompareDisclaimer, Arrives
  <2>3. Head(rx) \in TokenFrames
    BY <1>0, <2>2, TailLines DEF TokenFrames
  <2>4. ~NoToken
    BY <1>0, <2>1, <2>2, <2>3, TokensRead
  <2>5. modem = "up" => Fenced
    BY <2>1, <2>4 DEF RetryInv
  <2>6. Fenced' = Fenced
    BY <2>1 DEF Fenced
  <2>7. QED
    BY <2>1, <2>5, <2>6 DEF RetryInv
<1>7. CASE SendAgree
  <2>1. /\ UNCHANGED <<cur, modem, phase, served>> /\ pc' \in {"sr_check", "idle"}
        /\ pc' = "sr_check" => pc = "rc_agree"
    BY <1>7 DEF SendAgree, Reply
  <2>2. Sent("agree")
    BY <1>7, <2>1 DEF SendAgree, Transmit, Sent
  <2>3. Fenced => Fenced'
    BY <1>0, <2>1, <2>2, FencedSent
  <2>4. QED
    BY <2>1, <2>3 DEF RetryInv
<1>8. CASE StartRequest
  <2>1. pc' = "sr_check" /\ queue # <<>> /\ cur' = Head(queue) /\ Silent
    BY <1>8 DEF StartRequest, Dequeue, Silent
  <2>2. /\ Len(queue) \in Nat \ {0} /\ DOMAIN queue = 1 .. Len(queue)
        /\ Head(queue) = queue[1] /\ Head(queue) \in TransportCommand
    BY <1>0, <2>1, TailLines
  <2>3. PICK m \in Nat : m = cur'.tk
    BY <2>1, <2>2 DEF TransportCommand
  <2>4. cur.tk < m
    BY <2>1, <2>2, <2>3 DEF NumberInv
  <2>5. \A i \in DOMAIN inq : Req(inq, i) => inq[i].tk # m
    <3>1. \A i \in DOMAIN inq : inq[i].tk \in Nat
      <4>1. \A i \in 1 .. Len(inq) : inq[i] \in Line
        BY <1>0, ElementOfSeq
      <4>2. QED
        BY <1>0, <4>1, LenProperties DEF Line
    <3>2. QED
      BY <1>0, <2>4, <3>1 DEF NumberInv
  <2>6. m \notin served
    BY <1>0, <2>4 DEF NumberInv
  <2>7. Fenced'
    BY <2>1, <2>3, <2>5, <2>6 DEF Silent, Fenced, Closed
  <2>8. QED
    BY <2>1, <2>7 DEF RetryInv
<1>9. CASE RequestCheck
  <2>1. UNCHANGED <<cur, modem, phase, served, inq>> /\ pc' \in {"sr_send", "idle"}
        /\ pc = "sr_check"
    BY <1>9 DEF RequestCheck, Reply
  <2>2. Fenced' = Fenced
    BY <2>1 DEF Fenced
  <2>3. QED
    BY <2>1, <2>2 DEF RetryInv
<1>10. QED
  BY <1>1, <1>2, <1>3, <1>4, <1>5, <1>6, <1>7, <1>8, <1>9, ActorCritical

LEMMA RetryPreserved ==
  ASSUME IInv, SessionInv, NumberInv, RetryInv, Next
  PROVE  RetryInv'
<1>0. TypeOK
  BY DEF IInv
<1>1. CASE Actor
  BY <1>1, RetryActor
<1>2. ASSUME NEW p \in Handlers, Handler(p) \/ Operator(p) PROVE RetryInv'
  <2>1. UNCHANGED <<pc, cur, phase, inq, served, rx, modem>>
    BY <1>2, HandlerFrame, HandlerAir DEF Silent
  <2>2. QED
    BY <2>1 DEF RetryInv, Fenced, OneToken, NoToken, Tokens
<1>3. CASE Peer
  <2>1. UNCHANGED <<pc, cur>>
    BY <1>3, PeerFrame
  <2>2. modem' = "up" => modem = "up"
    BY <1>3 DEF Peer, NodeLine, ServerCallsign, ServerAgree, ServerNoBrowser, ServerRequest,
       PeerEnds, Noise, ModemDies
  <2>3. Fenced => Fenced'
    BY <1>0, <1>3, FencedPeer
  <2>4. modem' = "up" /\ SkipBpqApp => (OneToken => OneToken') /\ (NoToken => NoToken')
    BY <1>0, <1>3, <2>2, TokensPeer DEF SessionInv
  <2>5. QED
    BY <2>1, <2>2, <2>3, <2>4 DEF RetryInv
<1>4. QED
  BY <1>1, <1>2, <1>3 DEF Next

-----------------------------------------------------------------------------
(* Answers on a clean link.                                                *)

ReqLines   == {l \in Line : l.k = "req"}
RespFrames == {f \in Frame : f.k = "resp" /\ f.tk # 0}

\* Requests are read, answers stay as they are.
ReqsFewer ==
    /\ Reqs = {} => Reqs' = {}
    /\ One(Reqs) => One(Reqs')
    /\ \A i \in Reqs' : \E j \in Reqs : inq'[i] = inq[j]
RespsFewer ==
    /\ Resps = {} => Resps' = {}
    /\ One(Resps) => One(Resps')
    /\ \A i \in Resps' : \E j \in Resps : rx'[i] = rx[j]

LEMMA CleanFewer ==
  ASSUME CleanInv, tainted' = tainted, ReqsFewer, RespsFewer, UNCHANGED cur,
         pc = "sr_wait" => pc' = "sr_wait"
  PROVE  CleanInv'
<1> SUFFICES ASSUME ~tainted'
             PROVE  /\ pc' # "sr_wait" => Reqs' = {} /\ Resps' = {}
                    /\ One(Reqs') /\ One(Resps')
                    /\ Reqs' = {} \/ Resps' = {}
                    /\ \A i \in Resps' : rx'[i].tk = cur'.tk
                    /\ \A i \in Reqs' : inq'[i].tk = cur'.tk
  BY DEF CleanInv
<1>1. /\ pc # "sr_wait" => Reqs = {} /\ Resps = {}
      /\ One(Reqs) /\ One(Resps)
      /\ Reqs = {} \/ Resps = {}
      /\ \A i \in Resps : rx[i].tk = cur.tk
      /\ \A i \in Reqs : inq[i].tk = cur.tk
  BY DEF CleanInv
<1>2. QED
  BY <1>1 DEF ReqsFewer, RespsFewer

LEMMA ShorterReqs ==
  ASSUME inq \in Seq(Line), Shorter
  PROVE  ReqsFewer
<1>1. Reqs = At(inq, ReqLines) /\ Reqs' = At(inq', ReqLines)
  BY DEF Reqs, ReqLines
<1>2. CASE inq' = <<>>
  BY <1>1, <1>2, AtEmpty DEF ReqsFewer
<1>3. CASE inq' = inq
  BY <1>1, <1>3 DEF ReqsFewer
<1>4. CASE inq # <<>> /\ inq' = Tail(inq)
  <2>1. /\ At(inq, ReqLines) = {} => At(Tail(inq), ReqLines) = {}
        /\ One(At(inq, ReqLines)) => One(At(Tail(inq), ReqLines))
        /\ \A i \in At(Tail(inq), ReqLines) : \E j \in At(inq, ReqLines) : Tail(inq)[i] = inq[j]
    BY <1>4, AtTail
  <2>2. QED
    BY <1>1, <1>4, <2>1 DEF ReqsFewer
<1>5. QED
  BY <1>2, <1>3, <1>4 DEF Shorter

\* Frames that are no answers.
LEMMA OtherFrame ==
  ASSUME NEW q \in Seq(Frame), NEW f \in Frame, f \notin RespFrames
  PROVE  /\ Append(q, f) \in Seq(Frame)
         /\ At(Append(q, f), RespFrames) = At(q, RespFrames)
         /\ \A i \in At(q, RespFrames) : Append(q, f)[i] = q[i]
<1>1. Append(q, f) \in Seq(Frame) /\ At(Append(q, f), RespFrames) = At(q, RespFrames)
  BY AtAppend
<1>2. /\ Len(q) \in Nat /\ DOMAIN q = 1 .. Len(q)
      /\ \A i \in 1 .. Len(q) : Append(q, f)[i] = q[i]
  BY AppendProperties, LenProperties
<1>3. QED
  BY <1>1, <1>2 DEF At

LEMMA PeerRx ==
  ASSUME TypeOK, Peer
  PROVE  RespsFewer \/ (ServerRequest /\ Serves)
<1>0. rx \in Seq(Frame) /\ Resps = At(rx, RespFrames) /\ Resps' = At(rx', RespFrames)
  BY DEF TypeOK, Resps, RespFrames
<1>1. \A k \in {"prompt", "resp", "text", "dead"} : Plain(k) \in Frame /\ Plain(k) \notin RespFrames
  BY PlainFrames DEF RespFrames
<1>2. rx' = rx => RespsFewer
  BY <1>0 DEF RespsFewer
<1>3. ASSUME NEW f \in Frame, f \notin RespFrames, Emit(<<f>>) \/ Emit(Append(<<>>, f))
      PROVE  RespsFewer
  <2>1. CASE modem # "up"
    BY <1>0, <1>2, <1>3, <2>1, EmitFrames
  <2>2. CASE modem = "up"
    <3>1. rx' = Append(rx, f)
      BY <1>0, <1>3, <2>2, EmitFrames
    <3>2. Resps' = Resps /\ \A i \in Resps : rx'[i] = rx[i]
      BY <1>0, <1>3, <3>1, OtherFrame
    <3>3. QED
      BY <3>2 DEF RespsFewer
  <2>3. QED
    BY <2>1, <2>2
<1>4. ASSUME NEW f \in Frame, f \notin RespFrames, NEW g \in Frame, g \notin RespFrames,
             Emit(Append(<<f>>, g))
      PROVE  RespsFewer
  <2>1. CASE modem # "up"
    BY <1>0, <1>2, <1>4, <2>1, EmitFrames
  <2>2. CASE modem = "up"
    <3>1. rx' = Append(Append(rx, f), g)
      BY <1>0, <1>4, <2>2, EmitFrames
    <3>2. /\ Append(rx, f) \in Seq(Frame) /\ At(Append(rx, f), RespFrames) = Resps
          /\ \A i \in Resps : Append(rx, f)[i] = rx[i]
      BY <1>0, <1>4, OtherFrame
    <3>3. /\ At(rx', RespFrames) = At(Append(rx, f), RespFrames)
          /\ \A i \in At(Append(rx, f), RespFrames) : rx'[i] = Append(rx, f)[i]
      BY <1>4, <3>1, <3>2, OtherFrame
    <3>4. Resps' = Resps /\ \A i \in Resps : rx'[i] = rx[i]
      BY <1>0, <3>2, <3>3
    <3>5. QED
      BY <3>4 DEF RespsFewer
  <2>3. QED
    BY <2>1, <2>2
<1>5. ASSUME NEW k \in {"prompt", "resp", "text"}, NEW unread, HangUp(<<Plain(k)>>, unread)
      PROVE  RespsFewer
  BY <1>1, <1>4, <1>5 DEF HangUp
<1>6. CASE NodeLine
  BY <1>1, <1>3, <1>6 DEF NodeLine
<1>7. CASE ServerCallsign
  <2>1. ASSUME NEW d \in Disclaimers, Emit(<<[k |-> "disc", d |-> d, tk |-> 0]>>)
        PROVE  RespsFewer
    <3>1. PICK f \in Frame \ RespFrames : f = [k |-> "disc", d |-> d, tk |-> 0]
      BY DEF Frame, RespFrames
    <3>2. QED
      BY <1>3, <2>1, <3>1
  <2>2. QED
    BY <1>5, <1>7, <2>1 DEF ServerCallsign
<1>8. CASE ServerAgree
  BY <1>2, <1>5, <1>8 DEF ServerAgree
<1>9. CASE ServerNoBrowser
  BY <1>5, <1>9 DEF ServerNoBrowser
<1>10. CASE ServerRequest
  <2>1. CASE Serves
    BY <1>10, <2>1
  <2>2. CASE HangUp(<<>>, Tail(inq))
    BY <1>1, <1>3, <2>2 DEF HangUp
  <2>3. QED
    BY <1>10, <2>1, <2>2 DEF ServerRequest, Serves
<1>11. CASE PeerEnds
  BY <1>1, <1>2, <1>3, <1>5, <1>11 DEF PeerEnds
<1>12. CASE Noise \/ ModemDies
  BY <1>1, <1>2, <1>3, <1>12 DEF Noise, ModemDies
<1>13. QED
  BY <1>6, <1>7, <1>8, <1>9, <1>10, <1>11, <1>12 DEF Peer

LEMMA CleanPeer ==
  ASSUME TypeOK, SessionInv, CleanInv, Peer
  PROVE  CleanInv'
<1>0. inq \in Seq(Line) /\ rx \in Seq(Frame) /\ (SkipBpqApp => phase # "node")
  BY DEF TypeOK, SessionInv
<1>1. UNCHANGED <<pc, cur, tainted>>
  BY PeerFrame DEF Peer, NodeLine, ServerCallsign, ServerAgree, ServerNoBrowser, ServerRequest,
     PeerEnds, Noise, ModemDies
<1>2. Shorter
  BY <1>0, PeerAir DEF Silent, Ends, Begins, Named, Agrees, Serves, Shorter
<1>3. ReqsFewer
  BY <1>0, <1>2, ShorterReqs
<1>4. CASE RespsFewer
  BY <1>1, <1>3, <1>4, CleanFewer
<1>5. CASE ServerRequest /\ Serves
  <2> SUFFICES ASSUME ~tainted PROVE CleanInv'
    BY <1>1 DEF CleanInv
  <2>1. /\ Len(inq) \in Nat \ {0} /\ DOMAIN inq = 1 .. Len(inq) /\ Head(inq) = inq[1]
        /\ Head(inq) \in Line
    BY <1>0, <1>5, TailLines DEF Serves
  <2>2. Head(inq) \in ReqLines /\ inq # <<>> /\ inq' = Tail(inq)
    BY <1>5, <2>1 DEF Serves, ReqLines
  <2>3. Reqs = At(inq, ReqLines) /\ Reqs' = At(inq', ReqLines)
    BY DEF Reqs, ReqLines
  <2>4. 1 \in Reqs /\ One(Reqs)
    BY <1>0, <2>2, <2>3, AtTail DEF CleanInv
  <2>5. Reqs' = {} /\ Resps = {} /\ pc = "sr_wait" /\ Head(inq).tk = cur.tk
    BY <1>0, <2>1, <2>2, <2>3, <2>4, AtTail DEF CleanInv
  <2>6. PICK f \in Frame : f = [k |-> "resp", d |-> None, tk |-> Head(inq).tk]
    BY <2>1 DEF Line, Frame
  <2>7. f.tk = cur.tk /\ Emit(<<f>>)
    BY <1>5, <2>5, <2>6 DEF ServerRequest, Serves
  <2>8. rx' = rx \/ rx' = Append(rx, f)
    BY <1>0, <2>7, EmitFrames
  <2>9. Resps = At(rx, RespFrames) /\ Resps' = At(rx', RespFrames)
    BY DEF Resps, RespFrames
  <2>10. One(Resps') /\ \A i \in Resps' : rx'[i].tk = cur.tk
    <3>1. CASE rx' = rx
      BY <2>5, <2>9, <3>1, AtEmpty
    <3>2. CASE rx' = Append(rx, f)
      <4>1. One(Resps') /\ \A i \in Resps' : rx'[i] = f \/ i \in Resps
        BY <1>0, <2>5, <2>9, <3>2, AtAppend
      <4>2. QED
        BY <2>5, <2>7, <4>1
    <3>3. QED
      BY <2>8, <3>1, <3>2
  <2>11. QED
    BY <1>1, <2>5, <2>10 DEF CleanInv, One
<1>6. QED
  BY <1>4, <1>5, PeerRx

\* Frames are read, thrown away or replaced by those of a new link.
RxShorter ==
    \/ rx' \in {rx, <<>>} \/ (rx # <<>> /\ rx' = Tail(rx))
    \/ \E n \in 1 .. Len(rx) : rx' = SubSeq(rx, n + 1, Len(rx))

LEMMA AtSubSeq ==
  ASSUME NEW T, NEW q \in Seq(T), NEW n \in 1 .. Len(q), NEW S, At(q, S) = {}
  PROVE  At(SubSeq(q, n + 1, Len(q)), S) = {}
<1>1. Len(q) \in Nat /\ DOMAIN q = 1 .. Len(q)
  BY LenProperties
<1>2. PICK m \in Nat : m = Len(q)
  BY <1>1
<1>3. /\ SubSeq(q, n + 1, m) = [i \in 1 .. (m - n) |-> q[i + n]]
  BY <1>1, <1>2
<1>4. \A i \in DOMAIN SubSeq(q, n + 1, m) : i + n \in DOMAIN q /\ SubSeq(q, n + 1, m)[i] = q[i + n]
  BY <1>1, <1>2, <1>3
<1>5. QED
  BY <1>2, <1>4 DEF At

\* Steps of the actor away from a request on the air.
LEMMA ActorElsewhere ==
  ASSUME Actor
  PROVE  \/ RequestSend \/ RequestAnswered \/ RequestText \/ SessionDied \/ RequestFails
         \/ /\ pc \notin {"sr_wait", "sr_send"} /\ pc' # "sr_wait"
            /\ LinkEstablished \/ (RxShorter /\ UNCHANGED tainted)
<1> USE DEF RxShorter
<1>1. \A ans : Reply(ans) => pc' = "idle"
  BY DEF Reply
<1>2. \A ans : Fail(ans) => pc' = "idle"
  BY DEF Fail, Reply
<1>3. \A next : Proceed(next) => pc' \in {"idle", next}
  BY <1>2 DEF Proceed
<1>4. \A kinds : Arrives(kinds) => rx # <<>> /\ rx' = Tail(rx)
  BY DEF Arrives
<1>5. CASE \/ StartConnectModem \/ StartDisconnectModem \/ StartQueryPorts \/ StartOpenSession
           \/ StartCloseSession \/ StartRequest
  BY <1>5 DEF StartConnectModem, StartDisconnectModem, StartQueryPorts, StartOpenSession,
     StartCloseSession, StartRequest, Dequeue
<1>6. CASE \/ TcpUp \/ TcpFails \/ Registered \/ RegistrationFails \/ DisconnectModem
  BY <1>1, <1>2, <1>3, <1>6 DEF TcpUp, TcpFails, Registered, RegistrationFails, DisconnectModem
<1>7. CASE QueryPorts
  BY <1>1, <1>7 DEF QueryPorts
<1>8. CASE LinkOpens \/ LinkFails
  BY <1>1, <1>2, <1>3, <1>8 DEF LinkOpens, LinkFails
<1>9. CASE AppCommand \/ Callsign \/ SkipText
  BY <1>3, <1>4, <1>9 DEF AppCommand, Callsign, SkipText
<1>10. CASE AskConsent \/ Consented \/ Declined \/ ConsentTimesOut
  BY <1>2, <1>4, <1>10 DEF AskConsent, Consented, Declined, ConsentTimesOut
<1>11. CASE CompareDisclaimer \/ SendAgree
  BY <1>1, <1>3, <1>4, <1>11 DEF CompareDisclaimer, SendAgree
<1>12. CASE HandshakeFails
  BY <1>2, <1>4, <1>12 DEF HandshakeFails, RecvFails, HandshakePCs
<1>13. CASE CloseSession \/ ReopenModem \/ RequestCheck
  BY <1>1, <1>13 DEF CloseSession, ReopenModem, RequestCheck
<1>14. QED
  BY <1>5, <1>6, <1>7, <1>8, <1>9, <1>10, <1>11, <1>12, <1>13 DEF Actor

\* Away from a request nothing is on its way, whatever the actor does.
LEMMA CleanElsewhere ==
  ASSUME TypeOK, CleanInv, Actor, pc \notin {"sr_wait", "sr_send"}, pc' # "sr_wait",
         LinkEstablished \/ (RxShorter /\ UNCHANGED tainted)
  PROVE  CleanInv'
<1> SUFFICES ASSUME ~tainted' PROVE Reqs' = {} /\ Resps' = {}
  BY AtEmpty DEF CleanInv, One
<1>0. /\ inq \in Seq(Line) /\ rx \in Seq(Frame) /\ cur.tk \in Nat
      /\ Reqs = At(inq, ReqLines) /\ Reqs' = At(inq', ReqLines)
      /\ Resps = At(rx, RespFrames) /\ Resps' = At(rx', RespFrames)
  BY DEF TypeOK, TransportCommand, Reqs, Resps, ReqLines, RespFrames
<1>1. CASE LinkEstablished /\ phase = "none"
  <2>1. inq' = <<>> /\ rx' \in {<<>>, <<Plain("prompt")>>}
    BY <1>1 DEF LinkEstablished
  <2>2. At(<<Plain("prompt")>>, RespFrames) = {}
    BY PlainFrames DEF At, RespFrames
  <2>3. QED
    BY <1>0, <2>1, <2>2, AtEmpty
<1>2. CASE ~(LinkEstablished /\ phase = "none")
  <2>1. ~tainted
    BY <1>2 DEF LinkEstablished
  <2>2. Reqs = {} /\ Resps = {}
    BY <2>1 DEF CleanInv
  <2>3. RxShorter
    BY <1>2 DEF LinkEstablished, RxShorter
  <2>4. Resps' = {}
    <3>1. CASE rx' \in {rx, <<>>}
      BY <1>0, <2>2, <3>1, AtEmpty
    <3>2. CASE rx # <<>> /\ rx' = Tail(rx)
      <4>1. At(rx, RespFrames) = {} => At(Tail(rx), RespFrames) = {}
        BY <1>0, <3>2, AtTail
      <4>2. QED
        BY <1>0, <2>2, <3>2, <4>1
    <3>3. ASSUME NEW n \in 1 .. Len(rx), rx' = SubSeq(rx, n + 1, Len(rx))
          PROVE  Resps' = {}
      BY <1>0, <2>2, <3>3, AtSubSeq
    <3>4. QED
      BY <2>3, <3>1, <3>2, <3>3 DEF RxShorter
  <2>5. Reqs' = {}
    <3>1. CASE inq' = inq
      BY <1>0, <2>2, <3>1
    <3>2. CASE inq' = <<>>
      BY <1>0, <3>2, AtEmpty
    <3>3. ASSUME NEW k \in {"app", "call", "agree"}, inq' = Append(inq, [k |-> k, tk |-> cur.tk])
          PROVE  Reqs' = {}
      <4>1. PICK x \in Line : x = [k |-> k, tk |-> cur.tk]
        BY <1>0 DEF Line
      <4>2. x \notin ReqLines
        BY <4>1 DEF ReqLines
      <4>3. At(Append(inq, x), ReqLines) = At(inq, ReqLines)
        BY <1>0, <4>2, AtAppend
      <4>4. QED
        BY <1>0, <2>2, <3>3, <4>1, <4>3
    <3>4. QED
      BY <1>2, <3>1, <3>2, <3>3, ActorAir DEF Silent, Sent, Drains, LinkEstablished
  <2>6. QED
    BY <2>4, <2>5
<1>3. QED
  BY <1>1, <1>2

LEMMA CleanActor ==
  ASSUME TypeOK, NumberInv, CleanInv, Actor
  PROVE  CleanInv'
<1>0. /\ inq \in Seq(Line) /\ rx \in Seq(Frame) /\ cur.tk \in Nat
      /\ Reqs = At(inq, ReqLines) /\ Reqs' = At(inq', ReqLines)
      /\ Resps = At(rx, RespFrames) /\ Resps' = At(rx', RespFrames)
  BY DEF TypeOK, TransportCommand, Reqs, Resps, ReqLines, RespFrames
<1>1. CASE RequestSend
  <2> SUFFICES ASSUME ~tainted' PROVE CleanInv'
    BY DEF CleanInv
  <2>1. UNCHANGED <<rx, cur, tainted>> /\ pc = "sr_send"
    BY <1>1 DEF RequestSend
  <2>2. Reqs = {} /\ Resps = {} /\ Resps' = {}
    BY <1>0, <2>1 DEF CleanInv
  <2>3. CASE inq' = inq
    BY <1>0, <2>2, <2>3 DEF CleanInv, One
  <2>4. CASE inq' = Append(inq, [k |-> "req", tk |-> cur.tk]) /\ pc' = "sr_wait"
    <3>1. PICK x \in Line : x = [k |-> "req", tk |-> cur.tk]
      BY <1>0 DEF Line
    <3>2. inq' = Append(inq, x) /\ x.tk = cur.tk
      BY <2>4, <3>1
    <3>3. One(Reqs') /\ \A i \in Reqs' : inq'[i] = x \/ i \in Reqs
      BY <1>0, <2>2, <3>2, AtAppend
    <3>4. QED
      BY <2>1, <2>2, <2>4, <3>2, <3>3 DEF CleanInv, One
  <2>5. QED
    BY <1>1, <2>3, <2>4 DEF RequestSend, Transmit
<1>2. CASE RequestAnswered
  <2> SUFFICES ASSUME ~tainted' PROVE Reqs' = {} /\ Resps' = {}
    BY AtEmpty DEF CleanInv, One
  <2>1. /\ UNCHANGED <<inq, cur>> /\ pc = "sr_wait" /\ ~tainted
        /\ rx # <<>> /\ Head(rx).k = "resp" /\ rx' = Tail(rx) /\ Head(rx).tk = cur.tk
    BY <1>2 DEF RequestAnswered, Arrives
  <2>2. Head(rx) \in Frame /\ Head(rx).tk # 0
    BY <1>0, <2>1, TailLines DEF NumberInv
  <2>3. Head(rx) \in RespFrames
    BY <2>1, <2>2 DEF RespFrames
  <2>4. One(Resps) /\ (Reqs = {} \/ Resps = {})
    BY <2>1 DEF CleanInv
  <2>5. 1 \in Resps /\ Resps' = {}
    BY <1>0, <2>1, <2>3, <2>4, AtTail
  <2>6. QED
    BY <1>0, <2>1, <2>4, <2>5
<1>3. CASE RequestText
  <2>1. CASE abort
    BY <1>3, <2>1 DEF RequestText, CleanInv
  <2>2. CASE ~abort
    <3>1. UNCHANGED <<inq, cur, tainted, pc>> /\ rx # <<>> /\ rx' = Tail(rx)
      BY <1>3, <2>2 DEF RequestText, Arrives
    <3>2. ReqsFewer
      BY <1>0, <3>1 DEF ReqsFewer
    <3>3. /\ At(rx, RespFrames) = {} => At(Tail(rx), RespFrames) = {}
          /\ One(At(rx, RespFrames)) => One(At(Tail(rx), RespFrames))
          /\ \A i \in At(Tail(rx), RespFrames) : \E j \in At(rx, RespFrames) : Tail(rx)[i] = rx[j]
      BY <1>0, <3>1, AtTail
    <3>4. RespsFewer
      BY <1>0, <3>1, <3>3 DEF RespsFewer
    <3>5. QED
      BY <3>1, <3>2, <3>4, CleanFewer
  <2>3. QED
    BY <2>1, <2>2
<1>4. CASE SessionDied \/ RequestFails
  BY <1>4 DEF SessionDied, RequestFails, CleanInv
<1>5. QED
  BY <1>1, <1>2, <1>3, <1>4, ActorElsewhere, CleanElsewhere

-----------------------------------------------------------------------------
(* The invariant, and what follows from it.                                *)

LEMMA LinkInit == Init => LinkInv
<1> SUFFICES ASSUME Init PROVE LinkInv
  OBVIOUS
<1>1. /\ inq = <<>> /\ rx = <<>> /\ queue = <<>> /\ phase = "none" /\ served = {} /\ pc = "idle"
      /\ cur.tk = 0 /\ tick = 0 /\ modem = "none"
  BY DEF Init
<1>2. SessionInv
  BY <1>1, NoLines DEF SessionInv
<1>3. NumberInv
  BY <1>1 DEF NumberInv
<1>4. RetryInv
  BY <1>1 DEF RetryInv
<1>5. Reqs = {} /\ Resps = {}
  BY <1>1, AtEmpty DEF Reqs, Resps
<1>6. CleanInv
  BY <1>5 DEF CleanInv, One
<1>7. QED
  BY <1>2, <1>3, <1>4, <1>6 DEF LinkInv

LEMMA LinkStutter ==
  ASSUME LinkInv, UNCHANGED <<pc, cur, phase, inq, served, rx, modem, tainted>>,
         NumberInv'
  PROVE  LinkInv'
<1>1. SessionInv'
  BY DEF LinkInv, SessionInv
<1>2. RetryInv'
  BY DEF LinkInv, RetryInv, Fenced, OneToken, NoToken, Tokens
<1>3. CleanInv'
  BY DEF LinkInv, CleanInv, Reqs, Resps
<1>4. QED
  BY <1>1, <1>2, <1>3 DEF LinkInv

LEMMA LinkPreserved ==
  ASSUME IInv, LinkInv, [Next]_vars
  PROVE  LinkInv'
<1>0. TypeOK /\ SessionInv /\ NumberInv /\ RetryInv /\ CleanInv
  BY DEF IInv, LinkInv
<1>1. CASE UNCHANGED vars
  <2>1. NumberInv'
    BY <1>0, <1>1 DEF NumberInv, vars
  <2>2. QED
    BY <1>1, <2>1, LinkStutter DEF vars
<1>2. ASSUME Next, NEW p \in Handlers, Handler(p) \/ Operator(p)
      PROVE  LinkInv'
  <2>1. UNCHANGED <<pc, cur, phase, inq, served, rx, modem, tainted>>
    BY <1>2, HandlerFrame, HandlerAir DEF Silent
  <2>2. NumberInv'
    BY <1>0, <1>2, NumberPreserved
  <2>3. QED
    BY <2>1, <2>2, LinkStutter
<1>3. CASE Next /\ Actor
  <2>1. NumberInv' /\ RetryInv'
    BY <1>0, <1>3, NumberPreserved, RetryPreserved
  <2>2. SessionInv' /\ CleanInv'
    BY <1>0, <1>3, SessionActor, CleanActor
  <2>3. QED
    BY <2>1, <2>2 DEF LinkInv
<1>4. CASE Next /\ Peer
  <2>1. NumberInv' /\ RetryInv'
    BY <1>0, <1>4, NumberPreserved, RetryPreserved
  <2>2. SessionInv' /\ CleanInv'
    BY <1>0, <1>4, SessionPeer, CleanPeer
  <2>3. QED
    BY <2>1, <2>2 DEF LinkInv
<1>5. QED
  BY <1>1, <1>2, <1>3, <1>4 DEF Next

LEMMA LinkSafe == Spec => []LinkInv
<1>1. Init => LinkInv
  BY LinkInit
<1>2. IInv /\ LinkInv /\ [Next]_vars => LinkInv'
  BY LinkPreserved
<1>3. QED
  BY <1>1, <1>2, Inductive, PTL DEF Spec

\* A server session never gets the same request twice, whatever disconnects are
\* lost, sessions left behind and lines held back on the way: the retry of
\* handle_send_request_with_reconnect is fenced off by the application command
\* its handshake sends first, or by the handshake itself.
THEOREM NoReplaySafe == Spec => []NoReplayInSession
<1>1. TypeOK /\ SessionInv => NoReplayInSession
  <2> SUFFICES ASSUME TypeOK, SessionInv, phase = "serving", inq # <<>>, Head(inq).k = "req",
                      Head(inq).tk \in served
               PROVE  FALSE
    BY DEF NoReplayInSession
  <2>1. Len(inq) \in Nat \ {0} /\ DOMAIN inq = 1 .. Len(inq) /\ Head(inq) = inq[1]
    BY TailLines DEF TypeOK
  <2>2. 1 \in DOMAIN inq /\ Req(inq, 1) /\ inq[1].tk \in served
    BY <2>1 DEF Req
  <2>3. PICK a \in DOMAIN inq : a < 1
    BY <2>2 DEF SessionInv, Behind
  <2>4. QED
    BY <2>1, <2>3
<1>2. LinkInv => SessionInv
  BY DEF LinkInv
<1>3. QED
  BY <1>1, <1>2, TypeCorrect, LinkSafe, PTL

\* A reply goes to the handler of the current command, with the page it is made for.
LEMMA AnsweredPage ==
  ASSUME TypeOK, NEW ans, NEW page, h' = Answered(ans, page), NEW p \in Handlers,
         h[p].st = "wait", h'[p].st = "got"
  PROVE  h'[p].page = page /\ h[p].tk = cur.tk
<1>1. h[p] \in HandlerState
  BY DEF TypeOK
<1>2. h'[p] = IF h[p].st = "wait" /\ h[p].tk = cur.tk
              THEN [h[p] EXCEPT !.st = "got", !.ans = ans, !.page = page] ELSE h[p]
  BY DEF Answered
<1>3. QED
  BY <1>1, <1>2 DEF HandlerState

LEMMA ActorReplies ==
  ASSUME Actor
  PROVE  UNCHANGED h \/ (\E ans : Reply(ans)) \/ RequestAnswered
<1>1. \A ans : Fail(ans) => Reply(ans)
  BY DEF Fail
<1>2. \A next : Proceed(next) => UNCHANGED h \/ \E ans : Reply(ans)
  BY <1>1 DEF Proceed
<1>3. CASE \/ StartConnectModem \/ StartDisconnectModem \/ StartQueryPorts \/ StartOpenSession
           \/ StartCloseSession \/ StartRequest \/ TcpUp \/ SkipText \/ AskConsent \/ Consented
           \/ ReopenModem
  BY <1>3 DEF StartConnectModem, StartDisconnectModem, StartQueryPorts, StartOpenSession,
     StartCloseSession, StartRequest, TcpUp, SkipText, AskConsent, Consented, ReopenModem
<1>4. CASE \/ TcpFails \/ Registered \/ RegistrationFails \/ DisconnectModem \/ QueryPorts
  BY <1>1, <1>2, <1>4 DEF TcpFails, Registered, RegistrationFails, DisconnectModem, QueryPorts
<1>5. CASE \/ LinkOpens \/ LinkFails \/ AppCommand \/ Callsign
  BY <1>1, <1>2, <1>5 DEF LinkOpens, LinkFails, AppCommand, Callsign
<1>6. CASE \/ Declined \/ ConsentTimesOut \/ CompareDisclaimer \/ SendAgree \/ HandshakeFails
           \/ CloseSession
  BY <1>1, <1>2, <1>6 DEF Declined, ConsentTimesOut, CompareDisclaimer, SendAgree,
     HandshakeFails, CloseSession
<1>7. CASE RequestCheck \/ RequestSend \/ RequestText \/ SessionDied \/ RequestFails
  BY <1>7 DEF RequestCheck, RequestSend, RequestText, SessionDied, RequestFails
<1>8. QED
  BY <1>3, <1>4, <1>5, <1>6, <1>7 DEF Actor

\* No step of a handler delivers a reply.
LEMMA HandlerWaits ==
  ASSUME TypeOK, NEW q \in Handlers, Handler(q) \/ Operator(q), NEW p \in Handlers,
         h[p].st = "wait"
  PROVE  h'[p].st # "got"
<1>0. h \in [Handlers -> HandlerState]
  BY DEF TypeOK
<1>1. CASE p # q
  <2>1. h'[p] = h[p]
    BY <1>0, <1>1 DEF Handler, Enqueue, Return, ConsentRead, ConsentRecord, ConsentSend,
       Operator, Issue, Begin, DeclineDisconnects, ConsentGet, ConsentTake, Abandon
  <2>2. QED
    BY <2>1
<1>2. CASE p = q
  <2>1. Abandon(q)
    BY <1>2 DEF Handler, Enqueue, Return, ConsentRead, ConsentRecord, ConsentSend,
       Operator, Issue, Begin, DeclineDisconnects, ConsentGet, ConsentTake
  <2>2. h'[p] = Idle
    BY <1>0, <1>2, <2>1 DEF Abandon
  <2>3. QED
    BY <2>2 DEF Idle
<1>3. QED
  BY <1>1, <1>2

\* Responses carry no request id: still, on a link on which no request was given
\* up after it had been sent, the page a handler of /browse gets is that of its
\* own request (or the error of a server that could not start its browser).
THEOREM CleanAnswersSafe == Spec => CleanLinkAnswers
<1>1. ASSUME IInv, LinkInv, [Next]_vars, NEW p \in Handlers,
             h[p].st = "wait", h'[p].st = "got", ~tainted
      PROVE  h'[p].page \in {0, h[p].tk}
  <2>0. TypeOK /\ CleanInv
    BY <1>1 DEF IInv, LinkInv
  <2>1. CASE UNCHANGED h
    BY <1>1, <2>1
  <2>2. CASE Peer
    BY <2>1, <2>2, PeerFrame
  <2>3. ASSUME NEW q \in Handlers, Handler(q) \/ Operator(q) PROVE FALSE
    BY <1>1, <2>0, <2>3, HandlerWaits
  <2>4. ASSUME NEW ans, h' = Answered(ans, 0) PROVE h'[p].page = 0
    BY <1>1, <2>0, <2>4, AnsweredPage
  <2>5. CASE RequestAnswered
    <3>1. CASE abort
      BY <2>4, <2>5, <3>1 DEF RequestAnswered
    <3>2. CASE ~abort
      <4>1. h' = Answered("ok", Head(rx).tk) /\ rx # <<>> /\ Head(rx).k = "resp"
        BY <2>5, <3>2 DEF RequestAnswered, Arrives
      <4>2. h'[p].page = Head(rx).tk /\ h[p].tk = cur.tk
        BY <1>1, <2>0, <4>1, AnsweredPage
      <4>3. /\ Len(rx) \in Nat \ {0} /\ DOMAIN rx = 1 .. Len(rx) /\ Head(rx) = rx[1]
            /\ Head(rx) \in Frame
        BY <2>0, <4>1, TailLines DEF TypeOK
      <4>4. Head(rx).tk # 0 => 1 \in Resps
        BY <4>1, <4>3 DEF Resps, At
      <4>5. \A i \in Resps : rx[i].tk = cur.tk
        BY <1>1, <2>0 DEF CleanInv
      <4>6. QED
        BY <4>2, <4>3, <4>4, <4>5
    <3>3. QED
      BY <3>1, <3>2
  <2>6. CASE Actor
    BY <2>1, <2>4, <2>5, <2>6, ActorReplies DEF Reply
  <2>7. UNCHANGED vars => UNCHANGED h
    BY DEF vars
  <2>8. QED
    BY <1>1, <2>1, <2>2, <2>3, <2>6, <2>7 DEF Next
<1>2. IInv /\ LinkInv /\ [Next]_vars
      => [\A p \in Handlers :
            /\ h[p].st = "wait" /\ h'[p].st = "got" /\ h'[p].ans = "ok"
            /\ cur.op \in SendOps /\ ~tainted
            => h'[p].page \in {0, h[p].tk}]_vars
  BY <1>1
<1>3. QED
  BY <1>2, Inductive, LinkSafe, PTL DEF Spec, CleanLinkAnswers
=============================================================================
