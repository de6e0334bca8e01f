------------------------ MODULE ClientSessionProofs ------------------------
(***************************************************************************)
(* Safety of the client session layer for every number of handlers, set of *)
(* disclaimers, channel capacity, configuration and budget of events.      *)
(***************************************************************************)
EXTENDS ClientSession, TLAPS, SequenceTheorems

(* The inductive invariant.                                                *)

\* A handler that is about to enqueue has a command.
HandlerInv == \A p \in Handlers : h[p].st = "enq" => h[p].cmd \in CommandOps

\* What connection_state shows while the actor is inside a command, and which
\* commands reach which program points.
ControlInv ==
    /\ pc \in {"os_link", "hs_app", "hs_call", "hs_disc"} => conn.st = "Connecting"
    /\ pc \in {"consent", "hs_agree"} => conn = AwaitingConsent(text) /\ text \in Disclaimers
    /\ pc \in ReconnectPCs <=> conn.st = "Reconnecting"

\* A POST that holds a sender holds that of an earlier prompt, or of this one and
\* then the slot is empty; if it accepts, it was made on the text on show.
SenderInv ==
    \A p \in Handlers : h[p].st \in {"taken", "read", "recorded"} =>
        /\ h[p].tk \in 1..prompts /\ h[p].tk # pending
        /\ h[p].op = "accept" /\ h[p].tk = prompts /\ pc = "consent" => text \in accepted

\* Every text that can become, or can be compared with, the recorded consent has
\* been shown.
ShownInv ==
    /\ conn.text \in displayed \cup {None}
    /\ agreed \in displayed \cup {None}
    /\ \A p \in Handlers : h[p].st = "read" => h[p].text \in displayed \cup {None}

YesInv == pc = "consent" /\ chan = "yes" => text \in accepted

\* The program points from which the next frame is sent without another look at
\* the abort flag are reached with nothing sent since it was raised; after the
\* disconnect of a reopening only the modem's TCP stream is touched.
SendPoints == {"rc_link", "rc_app", "rc_call", "rc_disc", "rc_agree", "sr_send"}
AbortInv ==
    cur.op \in SendOps =>
        /\ pc \in {"idle"} \cup ReconnectPCs \cup RequestPCs
        /\ afterAbort \in {<<>>, <<"line">>, <<"disc">>, <<"line", "disc">>}
        /\ afterAbort # <<>> => abort /\ pc \notin SendPoints
        /\ afterAbort \notin {<<>>, <<"line">>} => pc \in {"idle", "rc_tcp", "rc_reg"}

IInv ==
    /\ TypeOK /\ HandlerInv /\ ControlInv /\ SlotMatchesPrompt /\ SenderInv /\ ShownInv
    /\ YesInv /\ AgreeIsConsented /\ ConnectedIsAgreed /\ AbortInv

USE DEF appVars, apiVars, actorVars, airVars, histVars,
        apiRest, stepRest, histRest, shared, clientSide

-----------------------------------------------------------------------------
(* Lemmas about the operators the actions are built from.                  *)

\* The commands a handler may issue are commands of the actor.
LEMMA CommandOfType ==
  ASSUME NEW op \in Ops \ {"accept", "decline"}
  PROVE  CommandOf(op) \in CommandOps
  BY DEF Ops, CommandOf, CommandOps, SendOps

\* Spending one event leaves a budget.
LEMMA SpendType ==
  ASSUME left \in [Kinds -> Nat], NEW e \in Kinds, Spend(e)
  PROVE  left' \in [Kinds -> Nat]
  BY DEF Spend

\* A reply changes only the stage, answer and page of handlers that wait.
LEMMA AnsweredProperties ==
  ASSUME TypeOK, NEW ans \in Answers, NEW page \in Nat
  PROVE  /\ Answered(ans, page) \in [Handlers -> HandlerState]
         /\ \A p \in Handlers :
              LET r == Answered(ans, page)[p]
              IN  /\ r.op = h[p].op /\ r.cmd = h[p].cmd /\ r.tk = h[p].tk /\ r.text = h[p].text
                  /\ r.st \in {h[p].st, "got"}
<1> SUFFICES ASSUME NEW p \in Handlers
    PROVE LET r == Answered(ans, page)[p]
          IN  /\ r \in HandlerState
              /\ r.op = h[p].op /\ r.cmd = h[p].cmd /\ r.tk = h[p].tk /\ r.text = h[p].text
              /\ r.st \in {h[p].st, "got"}
    BY DEF Answered
<1>1. h[p] \in HandlerState BY DEF TypeOK
<1>2. "got" \in Stages BY DEF Stages
<1> QED BY <1>1, <1>2 DEF Answered, HandlerState

\* The empty sequence is a sequence of anything.
LEMMA EmptyType == <<>> \in Seq(Frame) /\ <<>> \in Seq(Line) /\ <<>> \in Seq(TransportCommand)
  OBVIOUS

\* A frame that arrives is a frame, and leaves frames behind.
LEMMA ArrivesType ==
  ASSUME rx \in Seq(Frame), NEW ks, Arrives(ks)
  PROVE  Head(rx) \in Frame /\ Head(rx).k \in ks /\ rx' \in Seq(Frame)
  BY DEF Arrives

\* A frame that carries a disclaimer carries one of the texts.
LEMMA DisclaimerArrives ==
  ASSUME TypeOK, Arrives({"disc"})
  PROVE  Head(rx).d \in Disclaimers /\ rx' \in Seq(Frame)
<1>1. rx \in Seq(Frame) BY DEF TypeOK
<1>2. rx' \in Seq(Frame) /\ Head(rx) \in Frame /\ Head(rx).k \in {"disc"}
  BY <1>1, ArrivesType
<1> QED BY <1>2 DEF Frame

\* Frames without a disclaimer.
LEMMA PlainType ==
  ASSUME NEW k \in {"prompt", "resp", "text", "dead"}
  PROVE  Plain(k) \in Frame
  BY DEF Plain, Frame

\* What the far end sends arrives as frames.
LEMMA EmitType ==
  ASSUME rx \in Seq(Frame), NEW fs \in Seq(Frame), Emit(fs)
  PROVE  rx' \in Seq(Frame)
  BY ConcatProperties DEF Emit

\* Types after the server has closed its end.
LEMMA HangUpType ==
  ASSUME TypeOK, NEW fs \in Seq(Frame), NEW u \in Seq(Line), HangUp(fs, u)
  PROVE  phase' \in Phases /\ inq' \in Seq(Line) /\ rx' \in Seq(Frame)
<1>1. Append(fs, Plain("dead")) \in Seq(Frame) /\ Append(fs, Plain("text")) \in Seq(Frame)
  BY PlainType, AppendProperties
<1>2. rx \in Seq(Frame) BY DEF TypeOK
<1>3. rx' \in Seq(Frame) BY <1>1, <1>2, EmitType DEF HangUp
<1>4. phase' \in {"none", "node"} /\ (inq' = <<>> \/ inq' = u) BY DEF HangUp
<1>5. phase' \in Phases BY <1>4 DEF Phases
<1>6. inq' \in Seq(Line) BY <1>4, EmptyType
<1> QED BY <1>3, <1>5, <1>6

\* The record of frames sent after an abort.
LEMMA OnAirType ==
  ASSUME TypeOK, NEW k \in AirFrames
  PROVE  OnAir(k) \in Seq(AirFrames)
<1>1. afterAbort \in Seq(AirFrames) BY DEF TypeOK
<1> QED BY <1>1, AppendProperties DEF OnAir

\* Types after a line has been put on the air.
LEMMA TransmitType ==
  ASSUME TypeOK, NEW k \in {"app", "call", "agree", "req"}, Transmit(k)
  PROVE  inq' \in Seq(Line) /\ afterAbort' \in Seq(AirFrames)
<1>1. [k |-> k, tk |-> cur.tk] \in Line BY DEF TypeOK, Line, TransportCommand
<1>2. inq \in Seq(Line) BY DEF TypeOK
<1>3. OnAir("line") \in Seq(AirFrames) BY OnAirType DEF AirFrames
<1> QED BY <1>1, <1>2, <1>3, AppendProperties DEF Transmit

\* Types after the AX.25 link is up, fresh or resumed.
LEMMA LinkEstablishedType ==
  ASSUME TypeOK, LinkEstablished
  PROVE  /\ rx' \in Seq(Frame) /\ phase' \in Phases /\ inq' \in Seq(Line)
         /\ served' \subseteq Nat /\ tainted' \in BOOLEAN
<1>1. Plain("prompt") \in Frame BY PlainType
<1>2. /\ rx' \in {<<>>, <<Plain("prompt")>>} /\ phase' \in {phase, "call", "node"}
      /\ inq' \in {<<>>, inq} /\ served' \in {{}, served} /\ tainted' \in {FALSE, tainted}
  BY DEF LinkEstablished, FreshPhase
<1>3. rx' \in Seq(Frame) 
  <2>1. <<Plain("prompt")>> \in Seq(Frame) BY <1>1
  <2> QED BY <2>1, <1>2, EmptyType, Zenon
<1>4. phase' \in Phases /\ tainted' \in BOOLEAN BY <1>2 DEF TypeOK, Phases
<1>5. inq' \in Seq(Line) /\ served' \subseteq Nat BY <1>2, EmptyType, Zenon DEF TypeOK
<1> QED BY <1>3, <1>4, <1>5

\* Types after the disconnect frame.
LEMMA DisconnectAndDrainType ==
  ASSUME TypeOK, DisconnectAndDrain
  PROVE  phase' \in Phases /\ inq' \in Seq(Line) /\ left' \in [Kinds -> Nat]
<1>1. "lostDisc" \in Kinds BY DEF Kinds, EnvEvents
<1>2. left \in [Kinds -> Nat] BY DEF TypeOK
<1>3. left' \in [Kinds -> Nat] BY <1>1, <1>2, SpendType DEF DisconnectAndDrain
<1>4. phase' \in {phase, "none"} /\ inq' \in {inq, <<>>} BY DEF DisconnectAndDrain
<1>5. phase' \in Phases BY <1>4 DEF TypeOK, Phases
<1>6. inq' \in Seq(Line) BY <1>4, EmptyType, Zenon DEF TypeOK
<1> QED BY <1>3, <1>5, <1>6

\* States without a text.
LEMMA StatusType ==
  ASSUME NEW s \in States
  PROVE  Status(s) \in ConnectionState /\ Status(s).st = s /\ Status(s).text = None
  BY DEF Status, ConnectionState

\* The state that carries a text.
LEMMA AwaitingConsentType ==
  ASSUME NEW d \in Disclaimers
  PROVE  /\ AwaitingConsent(d) \in ConnectionState
         /\ AwaitingConsent(d).st = "AwaitingConsent" /\ AwaitingConsent(d).text = d
  BY DEF AwaitingConsent, ConnectionState, States

\* Types after a reply.
LEMMA ReplyType ==
  ASSUME TypeOK, NEW ans \in Answers, Reply(ans)
  PROVE  pc' = "idle" /\ pc' \in PCs /\ h' \in [Handlers -> HandlerState]
<1>1. h' \in [Handlers -> HandlerState] BY AnsweredProperties DEF Reply
<1> QED BY <1>1 DEF Reply, PCs

\* Types after a failure, which always shows Error.
LEMMA FailType ==
  ASSUME TypeOK, NEW ans \in Answers, Fail(ans)
  PROVE  /\ conn' \in ConnectionState /\ conn'.st = "Error" /\ conn'.text = None
         /\ pc' = "idle" /\ pc' \in PCs /\ h' \in [Handlers -> HandlerState]
<1>1. "Error" \in States BY DEF States
<1> QED BY <1>1, ReplyType, StatusType DEF Fail

\* Types after a look at the abort flag.
LEMMA ProceedType ==
  ASSUME TypeOK, NEW next \in PCs, Proceed(next)
  PROVE  conn' \in ConnectionState /\ pc' \in PCs /\ h' \in [Handlers -> HandlerState]
<1>1. "byOperator" \in Answers BY DEF Answers
<1>2. CASE abort BY <1>1, <1>2, FailType DEF Proceed
<1>3. CASE ~abort BY <1>3 DEF Proceed, TypeOK
<1> QED BY <1>2, <1>3

\* Types after a command is taken from the channel.
LEMMA DequeueType ==
  ASSUME TypeOK, NEW op \in CommandOps, NEW next \in PCs, Dequeue(op, next)
  PROVE  /\ cur' \in TransportCommand /\ queue' \in Seq(TransportCommand)
         /\ Len(queue') <= Capacity
         /\ pc' \in PCs /\ retried' \in BOOLEAN /\ afterAbort' \in Seq(AirFrames)
<1>1. queue \in Seq(TransportCommand) BY DEF TypeOK
<1>2. Head(queue) \in TransportCommand /\ Tail(queue) \in Seq(TransportCommand)
  BY <1>1 DEF Dequeue
<1>3. Len(Tail(queue)) <= Capacity
  BY <1>1, ConstantsAssumption DEF TypeOK, Dequeue
<1>4. <<>> \in Seq(AirFrames) BY EmptyType
<1> QED BY <1>2, <1>3, <1>4 DEF Dequeue

-----------------------------------------------------------------------------
(* Every step preserves the types.                                         *)

\* The initial state has the right types.
LEMMA InitType == Init => TypeOK
<1> SUFFICES ASSUME Init PROVE TypeOK OBVIOUS
<1> USE DEF Init
<1>1. conn \in ConnectionState BY DEF ConnectionState, Status, States
<1>2. h \in [Handlers -> HandlerState] BY DEF HandlerState, Idle, Stages, Answers
<1>3. left \in [Kinds -> Nat] BY ConstantsAssumption
<1>4. cur \in TransportCommand BY DEF TransportCommand, CommandOps
<1>5. queue \in Seq(TransportCommand) /\ rx \in Seq(Frame) /\ inq \in Seq(Line) BY EmptyType
<1>6. pc \in PCs /\ phase \in Phases BY DEF PCs, Phases
<1>7. Len(queue) <= Capacity /\ afterAbort \in Seq(AirFrames)
  BY EmptyType, ConstantsAssumption
<1> QED BY <1>1, <1>2, <1>3, <1>4, <1>5, <1>6, <1>7 DEF TypeOK

\* The handlers' own steps.
LEMMA TypeHandler ==
  ASSUME TypeOK, HandlerInv, NEW p \in Handlers, Handler(p)
  PROVE  TypeOK'
<1> h[p] \in HandlerState BY DEF TypeOK
<1>1. CASE Enqueue(p)
  <2> DEFINE n == tick + 1
  <2>1. n \in Nat BY DEF TypeOK
  <2> HIDE DEF n
  <2>2. [h[p] EXCEPT !.st = "wait", !.tk = n] \in HandlerState
    BY <2>1 DEF HandlerState, Stages
  <2>3. h' \in [Handlers -> HandlerState]
    BY <1>1, <2>2 DEF TypeOK, Enqueue, n
  <2>4. queue' \in Seq(TransportCommand)
    BY <1>1 DEF TypeOK, Enqueue, TransportCommand, HandlerInv
  <2>5. Len(queue') <= Capacity
    BY <1>1, ConstantsAssumption DEF TypeOK, Enqueue
  <2> QED BY <1>1, <2>3, <2>4, <2>5 DEF TypeOK, Enqueue
<1>2. CASE Return(p)
  <2>2. Idle \in HandlerState BY DEF Idle, HandlerState, Stages, Answers
  <2>a. "modem" \in Ops /\ "enq" \in Stages /\ "QueryPorts" \in CommandOps
    BY DEF Stages, Ops, CommandOps
  <2>1. [Idle EXCEPT !.op = "modem", !.st = "enq", !.cmd = "QueryPorts"] \in HandlerState
    BY <2>2, <2>a DEF HandlerState
  <2>3. h' \in [Handlers -> HandlerState] BY <1>2, <2>1, <2>2 DEF TypeOK, Return
  <2> QED BY <1>2, <2>3 DEF TypeOK, Return
<1>3. CASE ConsentRead(p)
  <2>1. [h[p] EXCEPT !.st = "read", !.text = conn.text] \in HandlerState
    BY DEF TypeOK, HandlerState, Stages, ConnectionState
  <2> QED BY <1>3, <2>1 DEF TypeOK, ConsentRead
<1>4. CASE ConsentRecord(p)
  <2>1. [h[p] EXCEPT !.st = "recorded"] \in HandlerState BY DEF HandlerState, Stages
  <2> QED BY <1>4, <2>1 DEF TypeOK, ConsentRecord, HandlerState
<1>5. CASE ConsentSend(p)
  <2>1. Idle \in HandlerState BY DEF Idle, HandlerState, Stages, Answers
  <2>2. [Idle EXCEPT !.op = "decline", !.st = "timer"] \in HandlerState
    BY <2>1 DEF HandlerState, Stages, Ops
  <2>3. h' \in [Handlers -> HandlerState] BY <1>5, <2>1, <2>2 DEF TypeOK, ConsentSend
  <2> QED BY <1>5, <2>3 DEF TypeOK, ConsentSend
<1> QED BY <1>1, <1>2, <1>3, <1>4, <1>5 DEF Handler

\* The operator's steps.
LEMMA TypeOperator ==
  ASSUME TypeOK, ControlInv, SlotMatchesPrompt, NEW p \in Handlers, Operator(p)
  PROVE  TypeOK'
<1> h[p] \in HandlerState BY DEF TypeOK
<1>a. ASSUME NEW op \in Ops \ {"accept", "decline"}, Issue(p, op), left' \in [Kinds -> Nat]
      PROVE TypeOK'
  <2>1. [Idle EXCEPT !.op = op, !.st = "enq", !.cmd = CommandOf(op)] \in HandlerState
    BY CommandOfType DEF Idle, HandlerState, Stages, Answers
  <2>2. h' \in [Handlers -> HandlerState] BY <1>a, <2>1 DEF TypeOK, Issue
  <2> QED BY <1>a, <2>2 DEF TypeOK, Issue
<1>1. ASSUME NEW op \in Ops \ {"accept", "decline"}, Begin(p, op) PROVE TypeOK'
  <2>1. left' \in [Kinds -> Nat]
    BY <1>1, SpendType DEF TypeOK, Begin, Kinds
  <2> QED BY <1>1, <1>a, <2>1 DEF Begin
<1>5. CASE DeclineDisconnects(p)
  <2>1. "disconnect" \in Ops \ {"accept", "decline"} BY DEF Ops
  <2>2. left' \in [Kinds -> Nat] BY <1>5 DEF DeclineDisconnects, TypeOK
  <2> QED BY <1>5, <1>a, <2>1, <2>2 DEF DeclineDisconnects
<1>2. ASSUME NEW op \in {"accept", "decline"}, ConsentGet(p, op) PROVE TypeOK'
  <2>1. [Idle EXCEPT !.op = op, !.st = "modal", !.text = conn.text] \in HandlerState
    BY DEF TypeOK, Idle, HandlerState, Stages, Answers, Ops, ConnectionState
  <2>2. left' \in [Kinds -> Nat]
    BY <1>2, SpendType DEF TypeOK, ConsentGet, Kinds, Ops
  <2>3. h' \in [Handlers -> HandlerState] BY <1>2, <2>1 DEF TypeOK, ConsentGet
  <2> QED BY <1>2, <2>2, <2>3 DEF TypeOK, ConsentGet
<1>3. CASE ConsentTake(p)
  <2>a. Idle \in HandlerState BY DEF Idle, HandlerState, Stages, Answers
  <2>b. h[p].op \in Ops \cup {"none"} /\ pending \in Nat BY DEF TypeOK, HandlerState
  <2>c. \A st \in {"taken", "recorded"} :
          [Idle EXCEPT !.op = h[p].op, !.tk = pending, !.st = st] \in HandlerState
    BY <2>a, <2>b DEF HandlerState, Stages
  <2>1. h' \in [Handlers -> HandlerState]
    BY <1>3, <2>a, <2>c DEF TypeOK, ConsentTake
  <2>2. accepted' \subseteq Disclaimers
    BY <1>3, AwaitingConsentType DEF TypeOK, ConsentTake, SlotMatchesPrompt, ControlInv
  <2> QED BY <1>3, <2>1, <2>2 DEF TypeOK, ConsentTake
<1>4. CASE Abandon(p)
  <2>1. h' \in [Handlers -> HandlerState]
    BY <1>4 DEF TypeOK, Abandon, Idle, HandlerState, Stages, Answers
  <2>2. left' \in [Kinds -> Nat]
    BY <1>4, SpendType DEF TypeOK, Abandon, Kinds, EnvEvents
  <2> QED BY <1>4, <2>1, <2>2 DEF TypeOK, Abandon
<1> QED BY <1>1, <1>2, <1>3, <1>4, <1>5 DEF Operator

\* What the operator's side can do, but for the budget of events.
LEMMA OperatorSteps ==
  ASSUME NEW p, Operator(p)
  PROVE  \/ \E op \in Ops \ {"accept", "decline"} : Issue(p, op)
         \/ \E op \in {"accept", "decline"} : ConsentGet(p, op)
         \/ ConsentTake(p) \/ Abandon(p)
<1>1. "disconnect" \in Ops \ {"accept", "decline"} BY DEF Ops
<1> QED BY <1>1 DEF Operator, Begin, DeclineDisconnects

\* The steps of node, server and modem.
LEMMA TypePeer ==
  ASSUME TypeOK, Peer
  PROVE  TypeOK'
<1> rx \in Seq(Frame) /\ inq \in Seq(Line) /\ left \in [Kinds -> Nat] BY DEF TypeOK
<1>a. /\ <<Plain("prompt")>> \in Seq(Frame) /\ <<Plain("text")>> \in Seq(Frame)
      /\ <<Plain("resp")>> \in Seq(Frame) /\ <<Plain("dead")>> \in Seq(Frame)
  BY PlainType
<1>b. {"peerEnds", "noise", "modemDies"} \subseteq Kinds BY DEF Kinds, EnvEvents
<1>c. inq # <<>> => Tail(inq) \in Seq(Line) /\ Head(inq) \in Line OBVIOUS
<1>1. CASE NodeLine
  <2>1. rx' \in Seq(Frame) BY <1>1, <1>a, EmitType DEF NodeLine
  <2>2. phase' \in Phases /\ served' \subseteq Nat BY <1>1 DEF NodeLine, TypeOK, Phases
  <2> QED BY <1>1, <1>c, <2>1, <2>2 DEF TypeOK, NodeLine
<1>2. CASE ServerCallsign
  <2>1. \A d \in Disclaimers : <<[k |-> "disc", d |-> d, tk |-> 0]>> \in Seq(Frame)
    BY DEF Frame
  <2>2. phase' \in Phases /\ inq' \in Seq(Line) /\ rx' \in Seq(Frame)
    <3>1. CASE HangUp(<<Plain("prompt")>>, Tail(inq))
      BY <1>2, <3>1, <1>a, <1>c, HangUpType DEF ServerCallsign
    <3>2. CASE /\ phase' = "agree" /\ inq' \in {inq, Tail(inq)}
               /\ \E d \in Disclaimers : Emit(<<[k |-> "disc", d |-> d, tk |-> 0]>>)
      <4>1. rx' \in Seq(Frame) BY <3>2, <2>1, EmitType
      <4>2. inq' \in Seq(Line) BY <1>2, <1>c, <3>2 DEF ServerCallsign
      <4> QED BY <3>2, <4>1, <4>2 DEF Phases
    <3> QED BY <1>2, <3>1, <3>2 DEF ServerCallsign
  <2> QED BY <1>2, <2>2 DEF TypeOK, ServerCallsign
<1>3. CASE ServerAgree
  <2>1. phase' \in Phases /\ inq' \in Seq(Line) /\ rx' \in Seq(Frame)
    <3>1. CASE HangUp(<<Plain("text")>>, Tail(inq))
      BY <1>3, <3>1, <1>a, <1>c, HangUpType DEF ServerAgree
    <3>2. CASE inq' = Tail(inq) /\ UNCHANGED rx /\ phase' \in {phase, "serving"}
      BY <1>3, <3>2, <1>c DEF ServerAgree, Phases, TypeOK
    <3> QED BY <1>3, <3>1, <3>2 DEF ServerAgree
  <2> QED BY <1>3, <2>1 DEF TypeOK, ServerAgree
<1>4. CASE ServerNoBrowser
  <2>1. phase' \in Phases /\ inq' \in Seq(Line) /\ rx' \in Seq(Frame)
    BY <1>4, <1>a, <1>c, HangUpType DEF ServerNoBrowser
  <2>2. left' \in [Kinds -> Nat] BY <1>4, <1>b, SpendType DEF ServerNoBrowser
  <2> QED BY <1>4, <2>1, <2>2 DEF TypeOK, ServerNoBrowser
<1>5. CASE ServerRequest
  <2>1. CASE HangUp(<<>>, Tail(inq)) /\ UNCHANGED served
    <3>1. phase' \in Phases /\ inq' \in Seq(Line) /\ rx' \in Seq(Frame)
      BY <1>5, <2>1, <1>c, EmptyType, HangUpType DEF ServerRequest
    <3> QED BY <1>5, <2>1, <3>1 DEF TypeOK, ServerRequest
  <2>2. CASE /\ inq' = Tail(inq) /\ UNCHANGED phase
             /\ Emit(<<[k |-> "resp", d |-> None, tk |-> Head(inq).tk]>>)
             /\ served' = served \cup {Head(inq).tk}
    <3>1. Head(inq).tk \in Nat BY <1>5, <1>c DEF ServerRequest, Line
    <3>2. <<[k |-> "resp", d |-> None, tk |-> Head(inq).tk]>> \in Seq(Frame)
      BY <3>1 DEF Frame
    <3>3. rx' \in Seq(Frame) BY <2>2, <3>2, EmitType
    <3>4. inq' \in Seq(Line) BY <1>5, <1>c, <2>2 DEF ServerRequest
    <3>5. served' \subseteq Nat BY <2>2, <3>1 DEF TypeOK
    <3>6. phase' = phase BY <2>2
    <3> QED BY <1>5, <3>3, <3>4, <3>5, <3>6 DEF TypeOK, ServerRequest
  <2> QED BY <1>5, <2>1, <2>2 DEF ServerRequest
<1>6. CASE PeerEnds
  <2>1. phase' \in Phases /\ inq' \in Seq(Line) /\ rx' \in Seq(Frame)
    <3>1. CASE HangUp(<<Plain("text")>>, inq) BY <3>1, <1>a, HangUpType
    <3>2. CASE phase' = "none" /\ inq' = <<>> /\ (UNCHANGED rx \/ Emit(<<Plain("dead")>>))
      <4>1. rx' \in Seq(Frame) BY <3>2, <1>a, EmitType
      <4>2. inq' \in Seq(Line) BY <3>2, EmptyType, Zenon
      <4> QED BY <3>2, <4>1, <4>2 DEF Phases
    <3> QED BY <1>6, <3>1, <3>2 DEF PeerEnds
  <2>2. left' \in [Kinds -> Nat] BY <1>6, <1>b, SpendType DEF PeerEnds
  <2> QED BY <1>6, <2>1, <2>2 DEF TypeOK, PeerEnds
<1>7. CASE Noise
  <2>1. rx' \in Seq(Frame) BY <1>7, <1>a, EmitType DEF Noise
  <2>2. left' \in [Kinds -> Nat] BY <1>7, <1>b, SpendType DEF Noise
  <2> QED BY <1>7, <2>1, <2>2 DEF TypeOK, Noise
<1>8. CASE ModemDies
  <2>1. left' \in [Kinds -> Nat] BY <1>8, <1>b, SpendType DEF ModemDies
  <2> QED BY <1>8, <2>1 DEF TypeOK, ModemDies
<1> QED BY <1>1, <1>2, <1>3, <1>4, <1>5, <1>6, <1>7, <1>8 DEF Peer

\* The actor's steps.
LEMMA TypeActor ==
  ASSUME TypeOK, Actor
  PROVE  TypeOK'
<1> USE EmptyType
<1>a. /\ {"ok", "err", "died", "byOperator", "needsReconsent"} \subseteq Answers
      /\ {"AgwpeConnected", "Connecting", "Connected", "Reconnecting", "Disconnected"}
           \subseteq States
      /\ {"cm_tcp", "dm", "qp", "os_link", "cs", "sr_check"} \subseteq PCs
      /\ {"ConnectModem", "DisconnectModem", "QueryPorts", "OpenSession", "CloseSession"}
           \subseteq CommandOps
      /\ SendOps \subseteq CommandOps
  BY DEF Answers, States, PCs, RequestPCs, CommandOps
<1>b. rx \in Seq(Frame) BY DEF TypeOK
<1>1. CASE StartConnectModem
  BY <1>1, <1>a, DequeueType DEF TypeOK, StartConnectModem
<1>2. CASE TcpUp
  BY <1>2 DEF TypeOK, TcpUp, PCs, ReconnectPCs
<1>3. CASE TcpFails
  BY <1>3, <1>a, FailType DEF TypeOK, TcpFails
<1>4. CASE Registered
  <2>1. CASE pc = "cm_reg"
    BY <1>4, <2>1, <1>a, ReplyType, StatusType DEF TypeOK, Registered
  <2>2. CASE pc # "cm_reg"
    <3>1. "rc_link" \in PCs BY DEF PCs, ReconnectPCs
    <3> QED BY <1>4, <2>2, <3>1, ProceedType DEF TypeOK, Registered
  <2> QED BY <2>1, <2>2
<1>5. CASE RegistrationFails
  BY <1>5, <1>a, FailType DEF TypeOK, RegistrationFails
<1>6. CASE StartDisconnectModem
  BY <1>6, <1>a, DequeueType DEF TypeOK, StartDisconnectModem
<1>7. CASE DisconnectModem
  BY <1>7, <1>a, ReplyType, StatusType DEF TypeOK, DisconnectModem
<1>8. CASE StartQueryPorts
  BY <1>8, <1>a, DequeueType DEF TypeOK, StartQueryPorts
<1>9. CASE QueryPorts
  <2>1. \A n \in 1..Len(rx) : SubSeq(rx, n + 1, Len(rx)) \in Seq(Frame)
    <3> TAKE n \in 1..Len(rx)
    <3>1. \A i \in n + 1 .. Len(rx) : rx[i] \in Frame BY <1>b
    <3>2. n + 1 \in Int /\ Len(rx) \in Int BY <1>b
    <3> QED BY <3>1, <3>2, SubSeqProperties
  <2>3. rx' \in Seq(Frame) BY <1>9, <1>b, <2>1 DEF QueryPorts
  <2>2. pc' \in PCs /\ h' \in [Handlers -> HandlerState]
    BY <1>9, <1>a, ReplyType DEF QueryPorts
  <2> QED BY <1>9, <2>2, <2>3 DEF TypeOK, QueryPorts
<1>10. CASE StartOpenSession
  BY <1>10, <1>a, DequeueType, StatusType DEF TypeOK, StartOpenSession
<1>11. CASE LinkOpens
  <2>1. /\ rx' \in Seq(Frame) /\ phase' \in Phases /\ inq' \in Seq(Line)
        /\ served' \subseteq Nat /\ tainted' \in BOOLEAN
    BY <1>11, LinkEstablishedType DEF LinkOpens
  <2>2. conn' \in ConnectionState /\ pc' \in PCs /\ h' \in [Handlers -> HandlerState]
    <3>1. "rc_app" \in PCs /\ "hs_app" \in PCs BY DEF PCs, ReconnectPCs, HandshakePCs
    <3> QED BY <1>11, <3>1, ProceedType DEF TypeOK, LinkOpens
  <2>3. afterAbort' \in Seq(AirFrames) BY <1>11, OnAirType DEF LinkOpens, AirFrames
  <2> QED BY <1>11, <2>1, <2>2, <2>3 DEF TypeOK, LinkOpens
<1>12. CASE LinkFails
  <2>1. /\ rx' \in Seq(Frame) /\ phase' \in Phases /\ inq' \in Seq(Line)
        /\ served' \subseteq Nat /\ tainted' \in BOOLEAN /\ left' \in [Kinds -> Nat]
    <3>1. CASE UNCHANGED <<rx, phase, inq, served, tainted, left>> BY <3>1 DEF TypeOK
    <3>2. CASE Spend("lateLink") /\ LinkEstablished
      BY <3>2, LinkEstablishedType, SpendType DEF TypeOK, Kinds, EnvEvents
    <3> QED BY <1>12, <3>1, <3>2 DEF LinkFails
  <2>2. conn' \in ConnectionState /\ pc' \in PCs /\ h' \in [Handlers -> HandlerState]
    BY <1>12, <1>a, ReplyType, FailType DEF TypeOK, LinkFails
  <2>3. afterAbort' \in Seq(AirFrames) BY <1>12, OnAirType DEF LinkFails, AirFrames
  <2> QED BY <1>12, <2>1, <2>2, <2>3 DEF TypeOK, LinkFails
<1>13. CASE AppCommand
  <2>1. conn' \in ConnectionState /\ pc' \in PCs /\ h' \in [Handlers -> HandlerState]
    <3>1. "rc_call" \in PCs /\ "hs_call" \in PCs BY DEF PCs, ReconnectPCs, HandshakePCs
    <3> QED BY <1>13, <3>1, ProceedType DEF TypeOK, AppCommand
  <2>2. inq' \in Seq(Line) /\ afterAbort' \in Seq(AirFrames)
    BY <1>13, TransmitType DEF TypeOK, AppCommand
  <2> QED BY <1>13, <2>1, <2>2 DEF TypeOK, AppCommand
<1>14. CASE Callsign
  <2>1. conn' \in ConnectionState /\ pc' \in PCs /\ h' \in [Handlers -> HandlerState]
    <3>1. "rc_disc" \in PCs /\ "hs_disc" \in PCs BY DEF PCs, ReconnectPCs, HandshakePCs
    <3> QED BY <1>14, <3>1, ProceedType DEF TypeOK, Callsign
  <2>2. inq' \in Seq(Line) /\ afterAbort' \in Seq(AirFrames) BY <1>14, TransmitType DEF Callsign
  <2>3. rx' \in Seq(Frame) BY <1>14, <1>b, ArrivesType DEF Callsign
  <2> QED BY <1>14, <2>1, <2>2, <2>3 DEF TypeOK, Callsign
<1>15. CASE SkipText
  <2>1. rx' \in Seq(Frame) BY <1>15, <1>b, ArrivesType DEF SkipText
  <2> QED BY <1>15, <2>1 DEF TypeOK, SkipText
<1>16. CASE AskConsent
  <2>1. rx' \in Seq(Frame) BY <1>16, DisclaimerArrives DEF AskConsent
  <2>2. Head(rx).d \in Disclaimers BY <1>16, DisclaimerArrives DEF AskConsent
  <2>3. conn' \in ConnectionState BY <1>16, <2>2, AwaitingConsentType DEF AskConsent
  <2> QED BY <1>16, <2>1, <2>2, <2>3 DEF TypeOK, AskConsent, PCs
<1>17. CASE Consented
  BY <1>17 DEF TypeOK, Consented, PCs, HandshakePCs
<1>18. CASE Declined
  BY <1>18, <1>a, FailType DEF TypeOK, Declined
<1>19. CASE ConsentTimesOut
  BY <1>19, <1>a, FailType DEF TypeOK, ConsentTimesOut
<1>20. CASE CompareDisclaimer
  <2>1. rx' \in Seq(Frame) BY <1>20, DisclaimerArrives DEF CompareDisclaimer
  <2>2. Head(rx).d \in Disclaimers BY <1>20, DisclaimerArrives DEF CompareDisclaimer
  <2>3. /\ conn' \in ConnectionState /\ pc' \in PCs /\ h' \in [Handlers -> HandlerState]
        /\ displayed' \subseteq Disclaimers
    <3>1. CASE ~abort /\ Head(rx).d # agreed
      BY <1>20, <3>1, <2>2, <1>a, AwaitingConsentType, ReplyType DEF CompareDisclaimer, TypeOK
    <3>2. CASE ~(~abort /\ Head(rx).d # agreed)
      <4>1. "rc_agree" \in PCs BY DEF PCs, ReconnectPCs
      <4> QED BY <1>20, <3>2, <4>1, ProceedType DEF CompareDisclaimer, TypeOK
    <3> QED BY <3>1, <3>2
  <2> QED BY <1>20, <2>1, <2>2, <2>3 DEF TypeOK, CompareDisclaimer
<1>21. CASE SendAgree
  <2>1. conn' \in ConnectionState /\ pc' \in PCs /\ h' \in [Handlers -> HandlerState]
    BY <1>21, <1>a, ReplyType, StatusType DEF TypeOK, SendAgree
  <2>2. inq' \in Seq(Line) /\ afterAbort' \in Seq(AirFrames) BY <1>21, TransmitType DEF SendAgree
  <2> QED BY <1>21, <2>1, <2>2 DEF TypeOK, SendAgree
<1>22. CASE HandshakeFails
  <2>1. rx' \in Seq(Frame) BY <1>22, <1>b, ArrivesType DEF HandshakeFails, RecvFails
  <2>2. conn' \in ConnectionState /\ pc' \in PCs /\ h' \in [Handlers -> HandlerState]
    BY <1>22, <1>a, FailType DEF HandshakeFails
  <2> QED BY <1>22, <2>1, <2>2 DEF TypeOK, HandshakeFails
<1>23. CASE StartCloseSession
  BY <1>23, <1>a, DequeueType DEF TypeOK, StartCloseSession
<1>24. CASE CloseSession
  <2>1. CASE modem = "none"
    BY <1>24, <2>1, <1>a, ReplyType DEF TypeOK, CloseSession
  <2>2. CASE modem # "none"
    <3>1. afterAbort' \in Seq(AirFrames)
      BY <1>24, <2>2, OnAirType DEF CloseSession, DisconnectAndDrain, AirFrames
    <3> QED BY <1>24, <2>2, <3>1, <1>a, ReplyType, StatusType, DisconnectAndDrainType, EmptyType
            DEF TypeOK, CloseSession
  <2> QED BY <2>1, <2>2
<1>25. CASE StartRequest
  BY <1>25, <1>a, DequeueType DEF TypeOK, StartRequest
<1>26. CASE RequestCheck
  <2>1. "sr_send" \in PCs BY DEF PCs, RequestPCs
  <2>2. pc' \in PCs /\ h' \in [Handlers -> HandlerState]
    BY <1>26, <2>1, <1>a, ReplyType DEF TypeOK, RequestCheck
  <2> QED BY <1>26, <2>2 DEF TypeOK, RequestCheck
<1>27. CASE RequestSend
  <2>1. "sr_wait" \in PCs BY DEF PCs, RequestPCs
  <2>2. pc' \in PCs /\ h' \in [Handlers -> HandlerState]
    BY <1>27, <2>1, <1>a, ReplyType DEF TypeOK, RequestSend
  <2>3. inq' \in Seq(Line) /\ afterAbort' \in Seq(AirFrames)
    BY <1>27, TransmitType DEF TypeOK, RequestSend
  <2> QED BY <1>27, <2>2, <2>3 DEF TypeOK, RequestSend
<1>28. CASE RequestAnswered
  <2>1. rx' \in Seq(Frame) /\ Head(rx).tk \in Nat
    BY <1>28, <1>b, ArrivesType DEF RequestAnswered, Frame
  <2>2. h' \in [Handlers -> HandlerState]
    BY <1>28, <2>1, <1>a, AnsweredProperties DEF RequestAnswered
  <2> QED BY <1>28, <2>1, <2>2 DEF TypeOK, RequestAnswered, PCs
<1>29. CASE RequestText
  <2>1. rx' \in Seq(Frame) BY <1>29, <1>b, ArrivesType DEF RequestText
  <2>2. pc' \in PCs /\ h' \in [Handlers -> HandlerState] /\ tainted' \in BOOLEAN
    BY <1>29, <1>a, ReplyType DEF TypeOK, RequestText
  <2> QED BY <1>29, <2>1, <2>2 DEF TypeOK, RequestText
<1>30. CASE SessionDied
  <2>1. rx' \in Seq(Frame) BY <1>30, <1>b, ArrivesType DEF SessionDied
  <2>2. /\ pc' \in PCs /\ h' \in [Handlers -> HandlerState] /\ retried' \in BOOLEAN
        /\ conn' \in ConnectionState
    <3>1. "rc_drain" \in PCs BY DEF PCs, ReconnectPCs
    <3> QED BY <1>30, <3>1, <1>a, ReplyType, StatusType DEF TypeOK, SessionDied
  <2> QED BY <1>30, <2>1, <2>2 DEF TypeOK, SessionDied
<1>31. CASE RequestFails
  <2>1. rx' \in Seq(Frame) BY <1>31, <1>b, ArrivesType DEF RequestFails
  <2>2. pc' \in PCs /\ h' \in [Handlers -> HandlerState]
    BY <1>31, <1>a, ReplyType DEF RequestFails
  <2> QED BY <1>31, <2>1, <2>2 DEF TypeOK, RequestFails
<1>32. CASE ReopenModem
  <2>1. "rc_tcp" \in PCs BY DEF PCs, ReconnectPCs
  <2>2. afterAbort' \in Seq(AirFrames)
    BY <1>32, OnAirType DEF ReopenModem, DisconnectAndDrain, AirFrames
  <2> QED BY <1>32, <2>1, <2>2, DisconnectAndDrainType, EmptyType DEF TypeOK, ReopenModem
<1> QED BY <1>1, <1>2, <1>3, <1>4, <1>5, <1>6, <1>7, <1>8, <1>9, <1>10, <1>11, <1>12, <1>13,
           <1>14, <1>15, <1>16, <1>17, <1>18, <1>19, <1>20, <1>21, <1>22, <1>23, <1>24, <1>25,
           <1>26, <1>27, <1>28, <1>29, <1>30, <1>31, <1>32 DEF Actor

-----------------------------------------------------------------------------
(* What each part of the system leaves alone.                              *)

\* The far end touches only the air and what it has served.
LEMMA PeerFrame ==
  ASSUME Peer
  PROVE  UNCHANGED <<conn, pending, agreed, abort, pc, cur, text, prompts, chan, h,
                     displayed, accepted, signed, afterAbort>>
  BY DEF Peer, NodeLine, ServerCallsign, ServerAgree, ServerNoBrowser, ServerRequest,
         PeerEnds, Noise, ModemDies

\* Handlers touch neither the actor's state nor connection_state, and only raise
\* the abort flag.
LEMMA HandlerFrame ==
  ASSUME NEW p \in Handlers, Handler(p) \/ Operator(p)
  PROVE  /\ UNCHANGED <<conn, pc, cur, text, prompts, displayed, signed, afterAbort>>
         /\ abort => abort'
<1>1. CASE Handler(p)
  BY <1>1 DEF Handler, Enqueue, Return, ConsentRead, ConsentRecord, ConsentSend
<1>2. CASE \E op \in Ops : Issue(p, op) BY <1>2 DEF Issue
<1>3. CASE \E op \in {"accept", "decline"} : ConsentGet(p, op) BY <1>3 DEF ConsentGet
<1>4. CASE ConsentTake(p) \/ Abandon(p) BY <1>4 DEF ConsentTake, Abandon
<1> QED BY <1>1, <1>2, <1>3, <1>4, OperatorSteps

\* The actor moves a handler from "wait" to "got" and changes nothing else of it
\* that the invariant reads.
SameHandlers ==
    \A p \in Handlers : /\ h'[p].op = h[p].op /\ h'[p].cmd = h[p].cmd
                        /\ h'[p].tk = h[p].tk /\ h'[p].text = h[p].text
                        /\ h'[p].st \in {h[p].st, "got"}

\* A reply is such a step.
LEMMA ReplyHandlers ==
  ASSUME TypeOK, NEW ans \in Answers, Reply(ans)
  PROVE  SameHandlers
  BY AnsweredProperties DEF Reply, SameHandlers

\* So is every step of the actor.
LEMMA ActorHandlers ==
  ASSUME TypeOK, Actor
  PROVE  SameHandlers
<1>a. {"ok", "err", "died", "byOperator", "needsReconsent"} \subseteq Answers BY DEF Answers
<1>1. CASE UNCHANGED h BY <1>1 DEF SameHandlers
<1>2. CASE \E ans \in Answers : Reply(ans) BY <1>2, ReplyHandlers
<1>3. CASE RequestAnswered
  <2>1. Head(rx).tk \in Nat BY <1>3, ArrivesType DEF TypeOK, RequestAnswered, Frame
  <2> QED BY <1>3, <1>a, <2>1, AnsweredProperties DEF RequestAnswered, SameHandlers
<1>4. ASSUME NEW next, Proceed(next) PROVE SameHandlers
  BY <1>4, <1>1, <1>2, <1>a DEF Proceed, Fail
<1>5. CASE \/ StartConnectModem \/ TcpUp \/ StartDisconnectModem \/ StartQueryPorts
           \/ StartOpenSession \/ SkipText \/ AskConsent \/ Consented
           \/ StartCloseSession \/ StartRequest \/ ReopenModem
  BY <1>5, <1>1 DEF StartConnectModem, TcpUp, StartDisconnectModem, StartQueryPorts,
     StartOpenSession, SkipText, AskConsent, Consented, StartCloseSession, StartRequest,
     ReopenModem
<1>6. CASE \/ TcpFails \/ RegistrationFails \/ DisconnectModem \/ QueryPorts \/ LinkFails
           \/ Declined \/ ConsentTimesOut \/ HandshakeFails \/ CloseSession \/ RequestFails
  BY <1>6, <1>2, <1>a DEF TcpFails, RegistrationFails, DisconnectModem, QueryPorts, LinkFails,
     Declined, ConsentTimesOut, HandshakeFails, CloseSession, RequestFails, Fail
<1>7. CASE Registered BY <1>7, <1>2, <1>4, <1>a DEF Registered
<1>8. CASE LinkOpens \/ AppCommand \/ Callsign
  BY <1>8, <1>1, <1>4 DEF LinkOpens, AppCommand, Callsign
<1>9. CASE CompareDisclaimer \/ SendAgree
  BY <1>9, <1>1, <1>2, <1>4, <1>a DEF CompareDisclaimer, SendAgree
<1>10. CASE RequestCheck \/ RequestSend \/ RequestText \/ SessionDied
  BY <1>10, <1>1, <1>2, <1>a DEF RequestCheck, RequestSend, RequestText, SessionDied
<1> QED BY <1>3, <1>5, <1>6, <1>7, <1>8, <1>9, <1>10 DEF Actor

-----------------------------------------------------------------------------
(* The parts of the invariant about handlers.                              *)

\* A handler that waits for room in the channel has a command.
LEMMA HandlerPreserved ==
  ASSUME IInv, [Next]_vars
  PROVE  HandlerInv'
<1> TypeOK /\ HandlerInv BY DEF IInv
<1> USE DEF HandlerInv
<1>1. CASE UNCHANGED vars BY <1>1 DEF vars
<1>2. CASE Peer BY <1>2, PeerFrame
<1>3. CASE Actor BY <1>3, ActorHandlers DEF SameHandlers
<1>4. ASSUME NEW p \in Handlers, Handler(p) PROVE HandlerInv'
  <2>1. CASE Enqueue(p) BY <2>1 DEF TypeOK, HandlerState, Enqueue
  <2>2. CASE Return(p) BY <2>2 DEF TypeOK, HandlerState, Return, Idle, CommandOps
  <2>3. CASE ConsentRead(p) BY <2>3 DEF TypeOK, HandlerState, ConsentRead
  <2>4. CASE ConsentRecord(p) BY <2>4 DEF TypeOK, HandlerState, ConsentRecord
  <2>5. CASE ConsentSend(p) BY <2>5 DEF TypeOK, HandlerState, ConsentSend, Idle
  <2> QED BY <1>4, <2>1, <2>2, <2>3, <2>4, <2>5 DEF Handler
<1>5. ASSUME NEW p \in Handlers, Operator(p) PROVE HandlerInv'
  <2>1. ASSUME NEW op \in Ops \ {"accept", "decline"}, Issue(p, op) PROVE HandlerInv'
    BY <2>1, CommandOfType DEF TypeOK, HandlerState, Issue, Idle
  <2>2. ASSUME NEW op \in {"accept", "decline"}, ConsentGet(p, op) PROVE HandlerInv'
    BY <2>2 DEF TypeOK, HandlerState, ConsentGet, Idle
  <2>3. CASE ConsentTake(p) BY <2>3 DEF TypeOK, HandlerState, ConsentTake, Idle
  <2>4. CASE Abandon(p) BY <2>4 DEF TypeOK, HandlerState, Abandon, Idle
  <2> QED BY <1>5, <2>1, <2>2, <2>3, <2>4, OperatorSteps
<1> QED BY <1>1, <1>2, <1>3, <1>4, <1>5 DEF Next

-----------------------------------------------------------------------------
(* The parts about the actor's program points.                             *)

\* The shown state follows the program point.
LEMMA ControlPreserved ==
  ASSUME IInv, [Next]_vars
  PROVE  ControlInv'
<1> TypeOK /\ ControlInv BY DEF IInv
<1> USE DEF ControlInv, ReconnectPCs
<1>1. CASE UNCHANGED vars BY <1>1 DEF vars
<1>2. CASE Peer BY <1>2, PeerFrame
<1>3. ASSUME NEW p \in Handlers, Handler(p) \/ Operator(p) PROVE ControlInv'
  BY <1>3, HandlerFrame
<1>4. CASE Actor
  <2>a. ASSUME NEW ans, Fail(ans) PROVE ControlInv'
    BY <2>a DEF Fail, Reply, Status
  <2>b. ASSUME NEW s \in States \ {"Reconnecting"}, conn' = Status(s), pc' = "idle"
        PROVE  ControlInv'
    BY <2>b DEF Status
  <2>c. ASSUME pc \notin ReconnectPCs, UNCHANGED conn,
               pc' \in {"idle", "cm_tcp", "cm_reg", "dm", "qp", "cs"} \cup RequestPCs
        PROVE  ControlInv'
    BY <2>c DEF RequestPCs
  <2>d. ASSUME NEW next \in ReconnectPCs, pc \in ReconnectPCs, Proceed(next) PROVE ControlInv'
    BY <2>d, <2>a DEF Proceed
  <2>1. CASE StartConnectModem \/ StartDisconnectModem \/ StartQueryPorts \/ StartCloseSession
    BY <2>1, <2>c DEF StartConnectModem, StartDisconnectModem, StartQueryPorts,
       StartCloseSession, Dequeue
  <2>2. CASE StartRequest BY <2>2, <2>c DEF StartRequest, Dequeue, RequestPCs
  <2>3. CASE StartOpenSession BY <2>3 DEF StartOpenSession, Dequeue, Status
  <2>4. CASE TcpUp
    <3>1. CASE pc = "cm_tcp" BY <2>4, <3>1, <2>c DEF TcpUp
    <3>2. CASE pc = "rc_tcp" BY <2>4, <3>2 DEF TcpUp
    <3> QED BY <2>4, <3>1, <3>2 DEF TcpUp
  <2>5. CASE \/ TcpFails \/ RegistrationFails \/ Declined \/ ConsentTimesOut \/ HandshakeFails
    BY <2>5, <2>a DEF TcpFails, RegistrationFails, Declined, ConsentTimesOut, HandshakeFails
  <2>6. CASE Registered
    BY <2>6, <2>b, <2>d DEF Registered, Reply, States
  <2>7. CASE DisconnectModem BY <2>7, <2>b DEF DisconnectModem, Reply, States
  <2>8. CASE QueryPorts
    <3>1. pc' = "idle" /\ UNCHANGED conn BY <2>8 DEF QueryPorts, Reply
    <3> QED BY <2>8, <3>1, <2>c DEF QueryPorts
  <2>9. CASE LinkOpens BY <2>9, <2>d DEF LinkOpens
  <2>10. CASE LinkFails BY <2>10, <2>a, <2>c DEF LinkFails, Reply
  <2>11. CASE AppCommand BY <2>11, <2>d DEF AppCommand
  <2>12. CASE Callsign
    <3>1. CASE pc = "hs_call" BY <2>12, <3>1 DEF Callsign
    <3>2. CASE pc = "rc_call" BY <2>12, <3>2, <2>d DEF Callsign
    <3> QED BY <2>12, <3>1, <3>2 DEF Callsign
  <2>13. CASE SkipText BY <2>13 DEF SkipText
  <2>14. CASE AskConsent
    <3>1. Head(rx).d \in Disclaimers BY <2>14, DisclaimerArrives DEF AskConsent
    <3> QED BY <2>14, <3>1 DEF AskConsent, AwaitingConsent
  <2>15. CASE Consented BY <2>15 DEF Consented
  <2>16. CASE CompareDisclaimer
    <3>1. Head(rx).d \in Disclaimers BY <2>16, DisclaimerArrives DEF CompareDisclaimer
    <3>2. CASE ~abort /\ Head(rx).d # agreed
      BY <2>16, <3>2 DEF CompareDisclaimer, AwaitingConsent, Reply
    <3>3. CASE ~(~abort /\ Head(rx).d # agreed)
      BY <2>16, <3>3, <2>d DEF CompareDisclaimer
    <3> QED BY <3>2, <3>3
  <2>17. CASE SendAgree BY <2>17 DEF SendAgree, Status, Reply
  <2>18. CASE CloseSession BY <2>18, <2>b, <2>c DEF CloseSession, Reply, States
  <2>19. CASE RequestCheck \/ RequestSend \/ RequestAnswered \/ RequestText \/ RequestFails
    BY <2>19, <2>c DEF RequestCheck, RequestSend, RequestAnswered, RequestText, RequestFails,
       Reply, RequestPCs
  <2>20. CASE SessionDied BY <2>20, <2>c DEF SessionDied, Reply, Status
  <2>21. CASE ReopenModem BY <2>21 DEF ReopenModem
  <2> QED BY <1>4, <2>1, <2>2, <2>3, <2>4, <2>5, <2>6, <2>7, <2>8, <2>9, <2>10, <2>11, <2>12,
             <2>13, <2>14, <2>15, <2>16, <2>17, <2>18, <2>19, <2>20, <2>21 DEF Actor
<1> QED BY <1>1, <1>2, <1>3, <1>4 DEF Next

\* Connected stands for an AGREE on the current link.
LEMMA ConnectedPreserved ==
  ASSUME IInv, [Next]_vars
  PROVE  ConnectedIsAgreed'
<1> TypeOK /\ ControlInv /\ AgreeIsConsented /\ ConnectedIsAgreed BY DEF IInv
<1> USE DEF ConnectedIsAgreed
<1>1. CASE UNCHANGED vars BY <1>1 DEF vars
<1>2. CASE Peer BY <1>2, PeerFrame
<1>3. ASSUME NEW p \in Handlers, Handler(p) \/ Operator(p) PROVE ConnectedIsAgreed'
  BY <1>3, HandlerFrame
<1>4. CASE Actor
  <2>a. ASSUME NEW s, s # "Connected", conn' = Status(s) PROVE ConnectedIsAgreed'
    BY <2>a DEF Status
  <2>b. ASSUME pc # "cm_reg", UNCHANGED <<conn, signed>> PROVE ConnectedIsAgreed'
    BY <2>b
  <2>c. ASSUME conn.st # "Connected", UNCHANGED conn PROVE ConnectedIsAgreed'
    BY <2>c
  <2>d. ASSUME NEW next, Proceed(next), pc \in ReconnectPCs PROVE ConnectedIsAgreed'
    BY <2>d, <2>a, <2>c DEF Proceed, Fail, ControlInv
  <2>1. CASE \/ StartConnectModem \/ StartDisconnectModem \/ StartQueryPorts
             \/ StartCloseSession \/ StartRequest
    BY <2>1, <2>b DEF StartConnectModem, StartDisconnectModem, StartQueryPorts,
       StartCloseSession, StartRequest, Dequeue
  <2>2. CASE StartOpenSession BY <2>2, <2>a DEF StartOpenSession
  <2>3. CASE TcpUp BY <2>3, <2>c DEF TcpUp, ControlInv, ReconnectPCs
  <2>4. CASE \/ TcpFails \/ RegistrationFails \/ Declined \/ ConsentTimesOut \/ HandshakeFails
    BY <2>4, <2>a DEF TcpFails, RegistrationFails, Declined, ConsentTimesOut, HandshakeFails, Fail
  <2>5. CASE Registered BY <2>5, <2>a, <2>d DEF Registered, ReconnectPCs
  <2>6. CASE DisconnectModem BY <2>6, <2>a DEF DisconnectModem
  <2>7. CASE LinkOpens BY <2>7, <2>c, <2>d DEF LinkOpens, ControlInv, ReconnectPCs
  <2>8. CASE LinkFails BY <2>8, <2>a, <2>c DEF LinkFails, Fail, ControlInv
  <2>9. CASE AppCommand BY <2>9, <2>b, <2>d DEF AppCommand, ReconnectPCs
  <2>10. CASE Callsign BY <2>10, <2>b, <2>d DEF Callsign, ReconnectPCs
  <2>11. CASE SkipText BY <2>11 DEF SkipText
  <2>12. CASE AskConsent BY <2>12 DEF AskConsent, AwaitingConsent
  <2>13. CASE Consented BY <2>13, <2>b DEF Consented
  <2>14. CASE CompareDisclaimer
    BY <2>14, <2>d DEF CompareDisclaimer, AwaitingConsent, ReconnectPCs
  <2>15. CASE SendAgree
    <3>1. text \in Disclaimers BY <2>15 DEF SendAgree, TypeOK, ControlInv, AgreeIsConsented
    <3> QED BY <2>15, <3>1, ConstantsAssumption DEF SendAgree
  <2>16. CASE CloseSession BY <2>16, <2>a, <2>b DEF CloseSession
  <2>17. CASE \/ QueryPorts \/ RequestCheck \/ RequestSend \/ RequestAnswered \/ RequestText
              \/ RequestFails
    BY <2>17, <2>b DEF QueryPorts, RequestCheck, RequestSend, RequestAnswered, RequestText,
       RequestFails
  <2>18. CASE SessionDied BY <2>18, <2>a, <2>b DEF SessionDied
  <2>19. CASE ReopenModem BY <2>19, <2>c DEF ReopenModem, ControlInv, ReconnectPCs
  <2> QED BY <1>4, <2>1, <2>2, <2>3, <2>4, <2>5, <2>6, <2>7, <2>8, <2>9, <2>10, <2>11, <2>12,
             <2>13, <2>14, <2>15, <2>16, <2>17, <2>18, <2>19 DEF Actor
<1> QED BY <1>1, <1>2, <1>3, <1>4 DEF Next

\* One more frame after none, or after one line.
LEMMA OnAirIs ==
  ASSUME NEW k \in AirFrames
  PROVE  /\ OnAir(k) # afterAbort => abort
         /\ afterAbort = <<>> => OnAir(k) \in {<<>>, <<k>>}
         /\ afterAbort = <<"line">> => OnAir(k) \in {<<"line">>, <<"line", k>>}
<1>1. /\ <<>> \in Seq(AirFrames) /\ <<"line">> \in Seq(AirFrames)
      /\ <<k>> \in Seq(AirFrames) /\ <<"line", k>> \in Seq(AirFrames)
  BY DEF AirFrames
<1>2. Append(<<>>, k) = <<k>>
  <2>1. Append(<<>>, k) \in Seq(AirFrames) /\ Len(Append(<<>>, k)) = 1 /\ Append(<<>>, k)[1] = k
    BY <1>1, AppendProperties
  <2> QED BY <2>1, <1>1, SeqEqual
<1>3. Append(<<"line">>, k) = <<"line", k>>
  <2>1. /\ Append(<<"line">>, k) \in Seq(AirFrames) /\ Len(Append(<<"line">>, k)) = 2
        /\ Append(<<"line">>, k)[1] = "line" /\ Append(<<"line">>, k)[2] = k
    BY <1>1, AppendProperties
  <2>2. PICK a : a = Append(<<"line">>, k) OBVIOUS
  <2>3. PICK b : b = <<"line", k>> OBVIOUS
  <2>4. Len(b) = 2 /\ b[1] = "line" /\ b[2] = k BY <2>3
  <2>5. a \in Seq(AirFrames) /\ Len(a) = 2 /\ a[1] = "line" /\ a[2] = k BY <2>1, <2>2
  <2>6. b \in Seq(AirFrames) BY <1>1, <2>3
  <2>7. \A i \in 1 .. Len(a) : a[i] = b[i]
    <3> SUFFICES ASSUME NEW i \in 1 .. 2 PROVE a[i] = b[i] BY <2>5
    <3>1. i = 1 \/ i = 2 OBVIOUS
    <3> QED BY <3>1, <2>4, <2>5
  <2>8. a = b BY <2>4, <2>5, <2>6, <2>7, SeqEqual
  <2> QED BY <2>2, <2>3, <2>8
<1> QED BY <1>2, <1>3 DEF OnAir

\* What is sent since the abort flag was raised.
LEMMA AbortPreserved ==
  ASSUME IInv, [Next]_vars
  PROVE  AbortInv'
<1> TypeOK /\ AbortInv BY DEF IInv
<1> USE DEF AbortInv, SendPoints, ReconnectPCs, RequestPCs
<1>1. CASE UNCHANGED vars BY <1>1 DEF vars
<1>2. CASE Peer BY <1>2, PeerFrame
<1>3. ASSUME NEW p \in Handlers, Handler(p) \/ Operator(p) PROVE AbortInv'
  BY <1>3, HandlerFrame
<1>4. CASE Actor
  <2>a. ASSUME NEW op, NEW next, Dequeue(op, next), op \notin SendOps PROVE AbortInv'
    BY <2>a DEF Dequeue
  <2>b. ASSUME UNCHANGED <<cur, abort, afterAbort>>, pc' = "idle" PROVE AbortInv'
    BY <2>b
  <2>c. ASSUME UNCHANGED <<cur, abort>>, afterAbort' = OnAir("line"),
               pc \in SendPoints, pc' \in {"idle", "sr_check", "sr_wait"}
        PROVE AbortInv'
    BY <2>c, OnAirIs DEF AirFrames
  <2>d. ASSUME UNCHANGED <<cur, abort>>, NEW next \in SendPoints,
               afterAbort' = OnAir("line"),
               pc \in SendPoints, Proceed(next)
        PROVE AbortInv'
    BY <2>d, OnAirIs DEF Proceed, Fail, Reply, AirFrames
  <2>e. ASSUME pc \in {"cm_tcp", "cm_reg", "dm", "qp", "os_link", "cs", "consent"} \cup HandshakePCs,
               UNCHANGED cur
        PROVE AbortInv'
    BY <2>e DEF HandshakePCs
  <2>1. CASE \/ StartConnectModem \/ StartDisconnectModem \/ StartQueryPorts
             \/ StartOpenSession \/ StartCloseSession
    BY <2>1, <2>a DEF StartConnectModem, StartDisconnectModem, StartQueryPorts,
       StartOpenSession, StartCloseSession, SendOps
  <2>2. CASE StartRequest BY <2>2 DEF StartRequest, Dequeue
  <2>3. CASE TcpUp BY <2>3, <2>e DEF TcpUp
  <2>4. CASE \/ TcpFails \/ RegistrationFails \/ DisconnectModem \/ QueryPorts \/ Declined
             \/ ConsentTimesOut \/ HandshakeFails \/ RequestFails
    BY <2>4, <2>b DEF TcpFails, RegistrationFails, DisconnectModem, QueryPorts, Declined,
       ConsentTimesOut, HandshakeFails, RequestFails, Fail, Reply
  <2>20. CASE CloseSession BY <2>20, <2>e DEF CloseSession
  <2>5. CASE Registered
    BY <2>5, <2>b DEF Registered, Proceed, Fail, Reply
  <2>6. CASE LinkOpens BY <2>6, <2>d, <2>e DEF LinkOpens
  <2>7. CASE LinkFails BY <2>7, <2>c, <2>e DEF LinkFails, Fail, Reply
  <2>8. CASE AppCommand
    BY <2>8, <2>d, <2>e DEF AppCommand, Transmit, HandshakePCs
  <2>9. CASE Callsign
    BY <2>9, <2>d, <2>e DEF Callsign, Transmit, HandshakePCs
  <2>10. CASE SkipText BY <2>10 DEF SkipText
  <2>11. CASE AskConsent \/ Consented BY <2>11, <2>e DEF AskConsent, Consented, HandshakePCs
  <2>12. CASE CompareDisclaimer
    BY <2>12, <2>b DEF CompareDisclaimer, Proceed, Fail, Reply
  <2>13. CASE SendAgree BY <2>13, <2>c, <2>e DEF SendAgree, Transmit, HandshakePCs
  <2>14. CASE RequestCheck BY <2>14, <2>b DEF RequestCheck, Reply
  <2>15. CASE RequestSend BY <2>15, <2>b, <2>c DEF RequestSend, Transmit, Reply
  <2>16. CASE RequestAnswered BY <2>16, <2>b DEF RequestAnswered
  <2>17. CASE RequestText BY <2>17, <2>b DEF RequestText, Reply
  <2>18. CASE SessionDied BY <2>18, <2>b DEF SessionDied, Reply
  <2>19. CASE ReopenModem
    BY <2>19, OnAirIs DEF ReopenModem, DisconnectAndDrain, AirFrames
  <2> QED BY <1>4, <2>1, <2>2, <2>3, <2>4, <2>5, <2>6, <2>7, <2>8, <2>9, <2>10, <2>11, <2>12,
             <2>13, <2>14, <2>15, <2>16, <2>17, <2>18, <2>19, <2>20 DEF Actor
<1> QED BY <1>1, <1>2, <1>3, <1>4 DEF Next

-----------------------------------------------------------------------------
(* The parts about consent.                                                *)

\* The slot belongs to the parked handshake.
LEMMA SlotPreserved ==
  ASSUME IInv, [Next]_vars
  PROVE  SlotMatchesPrompt'
<1> TypeOK /\ SlotMatchesPrompt /\ SenderInv BY DEF IInv
<1> USE DEF SlotMatchesPrompt
<1>1. CASE UNCHANGED vars BY <1>1 DEF vars
<1>2. CASE Peer BY <1>2, PeerFrame
<1>3. ASSUME NEW p \in Handlers, Handler(p) PROVE SlotMatchesPrompt'
  <2>1. CASE ConsentSend(p)
    <3>1. h[p].tk # pending BY <2>1 DEF ConsentSend, SenderInv
    <3> QED BY <2>1, <3>1 DEF ConsentSend, StillAsked
  <2>2. CASE Enqueue(p) \/ Return(p) \/ ConsentRead(p) \/ ConsentRecord(p)
    BY <2>2 DEF Enqueue, Return, ConsentRead, ConsentRecord
  <2> QED BY <1>3, <2>1, <2>2 DEF Handler
<1>4. ASSUME NEW p \in Handlers, Operator(p) PROVE SlotMatchesPrompt'
  <2>1. CASE ConsentTake(p) BY <2>1 DEF ConsentTake
  <2>2. CASE \E op \in Ops : Issue(p, op) BY <2>2 DEF Issue
  <2>3. CASE \E op \in {"accept", "decline"} : ConsentGet(p, op) BY <2>3 DEF ConsentGet
  <2>4. CASE Abandon(p) BY <2>4 DEF Abandon
  <2> QED BY <1>4, <2>1, <2>2, <2>3, <2>4, OperatorSteps
<1>5. CASE Actor
  <2>a. ASSUME pc # "consent", UNCHANGED pending PROVE SlotMatchesPrompt' BY <2>a
  <2>1. CASE AskConsent BY <2>1 DEF AskConsent, TypeOK
  <2>2. CASE Consented \/ Declined BY <2>2 DEF Consented, Declined
  <2>3. CASE ConsentTimesOut BY <2>3 DEF ConsentTimesOut
  <2>4. CASE \/ StartConnectModem \/ StartDisconnectModem \/ StartQueryPorts
             \/ StartOpenSession \/ StartCloseSession \/ StartRequest
    BY <2>4, <2>a DEF StartConnectModem, StartDisconnectModem, StartQueryPorts,
       StartOpenSession, StartCloseSession, StartRequest, Dequeue
  <2>5. CASE \/ TcpUp \/ TcpFails \/ Registered \/ RegistrationFails \/ DisconnectModem
             \/ QueryPorts \/ LinkOpens \/ LinkFails
    BY <2>5, <2>a DEF TcpUp, TcpFails, Registered, RegistrationFails, DisconnectModem,
       QueryPorts, LinkOpens, LinkFails
  <2>6. CASE \/ AppCommand \/ Callsign \/ SkipText \/ CompareDisclaimer \/ SendAgree
             \/ HandshakeFails
    BY <2>6, <2>a DEF AppCommand, Callsign, SkipText, CompareDisclaimer, SendAgree,
       HandshakeFails, HandshakePCs
  <2>7. CASE \/ CloseSession \/ RequestCheck \/ RequestSend \/ RequestAnswered \/ RequestText
             \/ SessionDied \/ RequestFails \/ ReopenModem
    BY <2>7, <2>a DEF CloseSession, RequestCheck, RequestSend, RequestAnswered, RequestText,
       SessionDied, RequestFails, ReopenModem
  <2> QED BY <1>5, <2>1, <2>2, <2>3, <2>4, <2>5, <2>6, <2>7 DEF Actor
<1> QED BY <1>1, <1>2, <1>3, <1>4, <1>5 DEF Next

\* What the actor does to the consent protocol: it opens a new prompt, takes a
\* positive decision, leaves the prompt, or is not there at all.
ConsentStep ==
    \/ AskConsent
    \/ /\ pc = "consent" /\ pc' = "hs_agree" /\ chan = "yes"
       /\ UNCHANGED <<pending, prompts, chan, text, accepted>>
    \/ /\ pc = "consent" /\ pc' = "idle" /\ pending' \in {0, pending}
       /\ UNCHANGED <<prompts, chan, text, accepted>>
    \/ /\ pc # "consent" /\ pc' \notin {"consent", "hs_agree"}
       /\ UNCHANGED <<pending, prompts, chan, accepted>>

\* Every step of the actor is one of these.
LEMMA ActorConsent ==
  ASSUME TypeOK, Actor
  PROVE  ConsentStep
<1>a. ASSUME pc # "consent", pc' \notin {"consent", "hs_agree"},
             UNCHANGED <<pending, prompts, chan, accepted>>
      PROVE  ConsentStep
  BY <1>a DEF ConsentStep
<1>1. CASE AskConsent BY <1>1 DEF ConsentStep
<1>2. CASE Consented BY <1>2 DEF Consented, ConsentStep
<1>3. CASE Declined \/ ConsentTimesOut
  BY <1>3 DEF Declined, ConsentTimesOut, Fail, Reply, ConsentStep
<1>4. CASE \/ StartConnectModem \/ StartDisconnectModem \/ StartQueryPorts
           \/ StartOpenSession \/ StartCloseSession
  BY <1>4, <1>a DEF StartConnectModem, StartDisconnectModem, StartQueryPorts,
     StartOpenSession, StartCloseSession, Dequeue
<1>5. CASE StartRequest BY <1>5, <1>a DEF StartRequest, Dequeue
<1>6. CASE \/ TcpUp \/ TcpFails \/ RegistrationFails \/ DisconnectModem
           \/ QueryPorts \/ LinkFails \/ CloseSession
  BY <1>6, <1>a DEF TcpUp, TcpFails, RegistrationFails, DisconnectModem,
     QueryPorts, LinkFails, CloseSession, Fail, Reply
<1>7. CASE Registered BY <1>7, <1>a DEF Registered, Proceed, Fail, Reply
<1>8. CASE LinkOpens BY <1>8, <1>a DEF LinkOpens, Proceed, Fail, Reply
<1>9. CASE AppCommand BY <1>9, <1>a DEF AppCommand, Proceed, Fail, Reply
<1>10. CASE Callsign BY <1>10, <1>a DEF Callsign, Proceed, Fail, Reply
<1>11. CASE SkipText BY <1>11, <1>a DEF SkipText
<1>12. CASE CompareDisclaimer BY <1>12, <1>a DEF CompareDisclaimer, Proceed, Fail, Reply
<1>13. CASE SendAgree BY <1>13, <1>a DEF SendAgree, Reply
<1>14. CASE HandshakeFails BY <1>14, <1>a DEF HandshakeFails, HandshakePCs, Fail, Reply
<1>15. CASE RequestCheck \/ RequestSend \/ RequestAnswered \/ RequestText \/ RequestFails
  BY <1>15, <1>a DEF RequestCheck, RequestSend, RequestAnswered, RequestText, RequestFails, Reply
<1>16. CASE SessionDied BY <1>16, <1>a DEF SessionDied, Reply
<1>17. CASE ReopenModem BY <1>17, <1>a DEF ReopenModem
<1> QED BY <1>1, <1>2, <1>3, <1>4, <1>5, <1>6, <1>7, <1>8, <1>9, <1>10, <1>11, <1>12, <1>13,
           <1>14, <1>15, <1>16, <1>17 DEF Actor

\* A sender that was taken is spent, and an accepting one has its text on record.
LEMMA SenderPreserved ==
  ASSUME IInv, [Next]_vars
  PROVE  SenderInv'
<1> TypeOK /\ SenderInv /\ SlotMatchesPrompt /\ ControlInv BY DEF IInv
<1> prompts \in Nat /\ pending \in Nat BY DEF TypeOK
<1>1. CASE UNCHANGED vars BY <1>1 DEF vars, SenderInv
<1>2. CASE Peer BY <1>2, PeerFrame DEF SenderInv
<1>3. CASE Actor
  <2> SUFFICES ASSUME NEW q \in Handlers, h'[q].st \in {"taken", "read", "recorded"}
      PROVE  /\ h'[q].tk \in 1..prompts' /\ h'[q].tk # pending'
             /\ h'[q].op = "accept" /\ h'[q].tk = prompts' /\ pc' = "consent" => text' \in accepted'
      BY DEF SenderInv
  <2>1. /\ h[q].st \in {"taken", "read", "recorded"}
        /\ h'[q].tk = h[q].tk /\ h'[q].op = h[q].op
    BY <1>3, ActorHandlers DEF SameHandlers
  <2>2. /\ h[q].tk \in 1..prompts /\ h[q].tk # pending
        /\ h[q].op = "accept" /\ h[q].tk = prompts /\ pc = "consent" => text \in accepted
    BY <2>1 DEF SenderInv
  <2>3. CASE AskConsent BY <2>1, <2>2, <2>3 DEF AskConsent
  <2>4. CASE ~AskConsent BY <1>3, <2>1, <2>2, <2>4, ActorConsent DEF ConsentStep
  <2> QED BY <2>3, <2>4
<1>4. ASSUME NEW p \in Handlers, Handler(p) PROVE SenderInv'
  <2>a. UNCHANGED <<prompts, pc, text>> BY <1>4, HandlerFrame
  <2>1. CASE Enqueue(p) BY <2>1, <2>a DEF SenderInv, Enqueue, TypeOK, HandlerState
  <2>2. CASE Return(p) BY <2>2, <2>a DEF SenderInv, Return, Idle, TypeOK, HandlerState
  <2>3. CASE ConsentRead(p) BY <2>3, <2>a DEF SenderInv, ConsentRead, TypeOK, HandlerState
  <2>4. CASE ConsentRecord(p) BY <2>4, <2>a DEF SenderInv, ConsentRecord, TypeOK, HandlerState
  <2>5. CASE ConsentSend(p) BY <2>5, <2>a DEF SenderInv, ConsentSend, Idle, TypeOK, HandlerState
  <2> QED BY <1>4, <2>1, <2>2, <2>3, <2>4, <2>5 DEF Handler
<1>5. ASSUME NEW p \in Handlers, Operator(p) PROVE SenderInv'
  <2>a. UNCHANGED <<prompts, pc, text>> BY <1>5, HandlerFrame
  <2>1. ASSUME NEW op \in Ops, Issue(p, op) PROVE SenderInv'
    BY <2>1, <2>a DEF SenderInv, Issue, Idle, TypeOK, HandlerState
  <2>2. ASSUME NEW op \in {"accept", "decline"}, ConsentGet(p, op) PROVE SenderInv'
    BY <2>2, <2>a DEF SenderInv, ConsentGet, Idle, TypeOK, HandlerState
  <2>3. CASE Abandon(p) BY <2>3, <2>a DEF SenderInv, Abandon, Idle, TypeOK, HandlerState
  <2>4. CASE ConsentTake(p)
    <3>1. pending # 0 => conn.text = text
      BY DEF SlotMatchesPrompt, AwaitingConsent
    <3>2. accepted \subseteq accepted' /\ pending' = 0 BY <2>4 DEF ConsentTake
    <3> SUFFICES ASSUME NEW q \in Handlers, h'[q].st \in {"taken", "read", "recorded"}
        PROVE  /\ h'[q].tk \in 1..prompts /\ h'[q].tk # 0
               /\ h'[q].op = "accept" /\ h'[q].tk = prompts /\ pc = "consent" => text \in accepted'
        BY <2>a, <3>2 DEF SenderInv
    <3>3. CASE q # p
      <4>1. h'[q] = h[q] BY <2>4, <3>3 DEF ConsentTake, TypeOK
      <4> QED BY <3>2, <4>1 DEF SenderInv
    <3>4. CASE q = p
      <4>1. pending # 0 /\ h'[p].tk = pending /\ h'[p].op = h[p].op
        BY <2>4, <3>4 DEF ConsentTake, TypeOK, Idle
      <4>2. pending = prompts BY <4>1 DEF SlotMatchesPrompt
      <4>3. h[p].op = "accept" => text \in accepted'
        BY <2>4, <3>1, <4>1 DEF ConsentTake
      <4> QED BY <3>4, <4>1, <4>2, <4>3
    <3> QED BY <3>3, <3>4
  <2> QED BY <1>5, <2>1, <2>2, <2>3, <2>4, OperatorSteps
<1> QED BY <1>1, <1>2, <1>3, <1>4, <1>5 DEF Next

\* The actor shows a text only together with recording that it was shown, and it
\* never touches the recorded consent.
LEMMA ActorShown ==
  ASSUME Actor
  PROVE  /\ displayed \subseteq displayed' /\ UNCHANGED agreed
         /\ conn'.text \in displayed' \cup {None} \/ UNCHANGED conn
<1>a. ASSUME NEW s, conn' = Status(s) PROVE conn'.text = None BY <1>a DEF Status
<1>1. CASE \/ StartConnectModem \/ StartDisconnectModem \/ StartQueryPorts
           \/ StartCloseSession \/ StartRequest
  BY <1>1 DEF StartConnectModem, StartDisconnectModem, StartQueryPorts, StartCloseSession,
     StartRequest
<1>2. CASE StartOpenSession BY <1>2, <1>a DEF StartOpenSession
<1>3. CASE \/ TcpUp \/ TcpFails \/ Registered \/ RegistrationFails \/ DisconnectModem \/ QueryPorts
  BY <1>3, <1>a DEF TcpUp, TcpFails, Registered, RegistrationFails, DisconnectModem,
     QueryPorts, Proceed, Fail
<1>4. CASE LinkOpens \/ LinkFails BY <1>4, <1>a DEF LinkOpens, LinkFails, Proceed, Fail
<1>5. CASE AppCommand \/ Callsign \/ SkipText
  BY <1>5, <1>a DEF AppCommand, Callsign, SkipText, Proceed, Fail
<1>6. CASE AskConsent BY <1>6 DEF AskConsent, AwaitingConsent
<1>7. CASE Consented \/ Declined \/ ConsentTimesOut
  BY <1>7, <1>a DEF Consented, Declined, ConsentTimesOut, Fail
<1>8. CASE CompareDisclaimer
  BY <1>8, <1>a DEF CompareDisclaimer, AwaitingConsent, Proceed, Fail
<1>9. CASE SendAgree \/ HandshakeFails BY <1>9, <1>a DEF SendAgree, HandshakeFails, Fail
<1>10. CASE CloseSession BY <1>10, <1>a DEF CloseSession
<1>11. CASE \/ RequestCheck \/ RequestSend \/ RequestAnswered \/ RequestText \/ SessionDied
            \/ RequestFails \/ ReopenModem
  BY <1>11, <1>a DEF RequestCheck, RequestSend, RequestAnswered, RequestText, SessionDied,
     RequestFails, ReopenModem
<1> QED BY <1>1, <1>2, <1>3, <1>4, <1>5, <1>6, <1>7, <1>8, <1>9, <1>10, <1>11 DEF Actor

\* Only texts that were shown are read, recorded or kept.
LEMMA ShownPreserved ==
  ASSUME IInv, [Next]_vars
  PROVE  ShownInv'
<1> TypeOK /\ ShownInv BY DEF IInv
<1>1. CASE UNCHANGED vars BY <1>1 DEF vars, ShownInv
<1>2. CASE Peer BY <1>2, PeerFrame DEF ShownInv
<1>3. CASE Actor BY <1>3, ActorShown, ActorHandlers DEF ShownInv, SameHandlers
<1>4. ASSUME NEW p \in Handlers, Handler(p) PROVE ShownInv'
  <2>a. UNCHANGED <<conn, displayed>> BY <1>4, HandlerFrame
  <2>1. CASE Enqueue(p) BY <2>1, <2>a DEF ShownInv, Enqueue, TypeOK, HandlerState
  <2>2. CASE Return(p) BY <2>2, <2>a DEF ShownInv, Return, Idle, TypeOK, HandlerState
  <2>3. CASE ConsentRead(p) BY <2>3, <2>a DEF ShownInv, ConsentRead, TypeOK, HandlerState
  <2>4. CASE ConsentRecord(p) BY <2>4, <2>a DEF ShownInv, ConsentRecord, TypeOK, HandlerState
  <2>5. CASE ConsentSend(p) BY <2>5, <2>a DEF ShownInv, ConsentSend, Idle, TypeOK, HandlerState
  <2> QED BY <1>4, <2>1, <2>2, <2>3, <2>4, <2>5 DEF Handler
<1>5. ASSUME NEW p \in Handlers, Operator(p) PROVE ShownInv'
  <2>a. UNCHANGED <<conn, displayed>> BY <1>5, HandlerFrame
  <2>1. ASSUME NEW op \in Ops, Issue(p, op) PROVE ShownInv'
    BY <2>1, <2>a DEF ShownInv, Issue, Idle, TypeOK, HandlerState
  <2>2. ASSUME NEW op \in {"accept", "decline"}, ConsentGet(p, op) PROVE ShownInv'
    BY <2>2, <2>a DEF ShownInv, ConsentGet, Idle, TypeOK, HandlerState
  <2>3. CASE ConsentTake(p) BY <2>3, <2>a DEF ShownInv, ConsentTake, Idle, TypeOK, HandlerState
  <2>4. CASE Abandon(p) BY <2>4, <2>a DEF ShownInv, Abandon, Idle, TypeOK, HandlerState
  <2> QED BY <1>5, <2>1, <2>2, <2>3, <2>4, OperatorSteps
<1> QED BY <1>1, <1>2, <1>3, <1>4, <1>5 DEF Next

\* Handlers only ever add to the accepted texts, and only ConsentSend decides.
LEMMA HandlerConsent ==
  ASSUME NEW p \in Handlers, Handler(p) \/ Operator(p)
  PROVE  accepted \subseteq accepted' /\ (UNCHANGED chan \/ ConsentSend(p))
<1>1. CASE Handler(p)
  BY <1>1 DEF Handler, Enqueue, Return, ConsentRead, ConsentRecord, ConsentSend
<1>2. CASE \E op \in Ops : Issue(p, op) BY <1>2 DEF Issue
<1>3. CASE \E op \in {"accept", "decline"} : ConsentGet(p, op) BY <1>3 DEF ConsentGet
<1>4. CASE ConsentTake(p) \/ Abandon(p) BY <1>4 DEF ConsentTake, Abandon
<1> QED BY <1>1, <1>2, <1>3, <1>4, OperatorSteps

\* A positive decision has its text on record.
LEMMA YesPreserved ==
  ASSUME IInv, [Next]_vars
  PROVE  YesInv'
<1> TypeOK /\ YesInv /\ SenderInv BY DEF IInv
<1> USE DEF YesInv
<1>1. CASE UNCHANGED vars BY <1>1 DEF vars
<1>2. CASE Peer BY <1>2, PeerFrame
<1>3. CASE Actor BY <1>3, ActorConsent DEF ConsentStep, AskConsent
<1>4. ASSUME NEW p \in Handlers, Handler(p) \/ Operator(p) PROVE YesInv'
  <2>a. UNCHANGED <<pc, text>> /\ accepted \subseteq accepted'
    BY <1>4, HandlerFrame, HandlerConsent
  <2>1. CASE UNCHANGED chan BY <2>1, <2>a
  <2>2. CASE ConsentSend(p) BY <2>2, <2>a DEF ConsentSend, StillAsked, SenderInv
  <2> QED BY <1>4, <2>1, <2>2, HandlerConsent
<1> QED BY <1>1, <1>2, <1>3, <1>4 DEF Next

\* The automatic AGREE is reached only through the comparison of the texts.
LEMMA AgreePoint ==
  ASSUME Actor, pc' = "rc_agree"
  PROVE  CompareDisclaimer
<1> USE DEF Dequeue, Proceed, Fail, Reply
<1>1. CASE StartConnectModem BY <1>1 DEF StartConnectModem
<1>2. CASE TcpUp \/ TcpFails BY <1>2 DEF TcpUp, TcpFails
<1>3. CASE Registered \/ RegistrationFails BY <1>3 DEF Registered, RegistrationFails
<1>4. CASE StartDisconnectModem \/ DisconnectModem
  BY <1>4 DEF StartDisconnectModem, DisconnectModem
<1>5. CASE StartQueryPorts \/ QueryPorts BY <1>5 DEF StartQueryPorts, QueryPorts
<1>6. CASE StartOpenSession BY <1>6 DEF StartOpenSession
<1>7. CASE LinkOpens \/ LinkFails BY <1>7 DEF LinkOpens, LinkFails
<1>8. CASE AppCommand \/ Callsign BY <1>8 DEF AppCommand, Callsign
<1>9. CASE SkipText BY <1>9 DEF SkipText
<1>10. CASE AskConsent \/ Consented BY <1>10 DEF AskConsent, Consented
<1>11. CASE Declined \/ ConsentTimesOut BY <1>11 DEF Declined, ConsentTimesOut
<1>12. CASE SendAgree \/ HandshakeFails BY <1>12 DEF SendAgree, HandshakeFails
<1>13. CASE StartCloseSession \/ CloseSession BY <1>13 DEF StartCloseSession, CloseSession
<1>14. CASE StartRequest \/ RequestCheck BY <1>14 DEF StartRequest, RequestCheck
<1>15. CASE RequestSend \/ RequestAnswered BY <1>15 DEF RequestSend, RequestAnswered
<1>16. CASE RequestText \/ RequestFails BY <1>16 DEF RequestText, RequestFails
<1>17. CASE SessionDied \/ ReopenModem BY <1>17 DEF SessionDied, ReopenModem
<1> QED BY <1>1, <1>2, <1>3, <1>4, <1>5, <1>6, <1>7, <1>8, <1>9, <1>10, <1>11, <1>12, <1>13,
           <1>14, <1>15, <1>16, <1>17 DEF Actor

\* AGREE is reached with consent only.
LEMMA AgreePreserved ==
  ASSUME IInv, [Next]_vars
  PROVE  AgreeIsConsented'
<1> TypeOK /\ YesInv /\ ShownInv /\ AgreeIsConsented BY DEF IInv
<1> USE DEF AgreeIsConsented
<1>1. CASE UNCHANGED vars BY <1>1 DEF vars
<1>2. CASE Peer BY <1>2, PeerFrame
<1>3. ASSUME NEW p \in Handlers, Handler(p) \/ Operator(p) PROVE AgreeIsConsented'
  BY <1>3, HandlerFrame, HandlerConsent
<1>4. CASE Actor
  <2>1. pc' = "hs_agree" => text' \in accepted'
    BY <1>4, ActorConsent DEF ConsentStep, AskConsent, YesInv
  <2>2. ASSUME pc' = "rc_agree" PROVE text' \in displayed'
    <3>1. CompareDisclaimer BY <1>4, <2>2, AgreePoint
    <3>2. Head(rx).d \in Disclaimers BY <3>1, DisclaimerArrives DEF CompareDisclaimer
    <3>3. ~abort /\ Head(rx).d = agreed
      BY <2>2, <3>1 DEF CompareDisclaimer, Proceed, Fail, Reply
    <3>4. agreed \in displayed BY <3>2, <3>3, ConstantsAssumption DEF ShownInv
    <3> QED BY <3>1, <3>3, <3>4, <1>4, ActorShown DEF CompareDisclaimer
  <2> QED BY <2>1, <2>2
<1> QED BY <1>1, <1>2, <1>3, <1>4 DEF Next

-----------------------------------------------------------------------------
(* The theorems.                                                           *)

\* The invariant holds at the start.
LEMMA InitInvariant == Init => IInv
<1> SUFFICES ASSUME Init PROVE IInv OBVIOUS
<1>1. TypeOK BY InitType
<1>2. HandlerInv /\ SenderInv BY DEF Init, HandlerInv, SenderInv, Idle
<1>3. ShownInv BY DEF Init, ShownInv, Status, Idle
<1>4. ControlInv /\ ConnectedIsAgreed
  BY DEF Init, ControlInv, ConnectedIsAgreed, Status, ReconnectPCs
<1>5. SlotMatchesPrompt /\ YesInv /\ AgreeIsConsented
  BY DEF Init, SlotMatchesPrompt, YesInv, AgreeIsConsented
<1>6. AbortInv BY DEF Init, AbortInv, SendOps
<1> QED BY <1>1, <1>2, <1>3, <1>4, <1>5, <1>6 DEF IInv

\* Types, over all steps.
LEMMA TypePreserved ==
  ASSUME IInv, [Next]_vars
  PROVE  TypeOK'
<1> TypeOK /\ HandlerInv /\ ControlInv /\ SlotMatchesPrompt BY DEF IInv
<1>1. CASE UNCHANGED vars BY <1>1 DEF vars, TypeOK
<1>2. CASE Next BY <1>2, TypeHandler, TypeOperator, TypeActor, TypePeer DEF Next
<1> QED BY <1>1, <1>2

\* Every reachable state satisfies the inductive invariant.
THEOREM Inductive == Spec => []IInv
<1>1. Init => IInv BY InitInvariant
<1>2. IInv /\ [Next]_vars => IInv'
  <2> SUFFICES ASSUME IInv, [Next]_vars PROVE IInv' OBVIOUS
  <2> QED BY TypePreserved, HandlerPreserved, ControlPreserved, SlotPreserved, SenderPreserved,
             ShownPreserved, YesPreserved, AgreePreserved, ConnectedPreserved, AbortPreserved
          DEF IInv
<1> QED BY <1>1, <1>2, PTL DEF Spec

\* All variables keep their types: no action of the session layer, whatever the
\* peer sends and whenever the operator clicks, leaves the states of state.rs.
THEOREM TypeCorrect == Spec => []TypeOK
<1>1. IInv => TypeOK BY DEF IInv
<1> QED BY <1>1, Inductive, PTL

\* A decision taken from pending_consent always reaches the handshake that is
\* parked, on the text it is parked with.
THEOREM SlotSafe == Spec => []SlotMatchesPrompt
<1>1. IInv => SlotMatchesPrompt BY DEF IInv
<1> QED BY <1>1, Inductive, PTL

\* The client sends AGREE only for texts that were accepted, or automatically for
\* texts that were shown, with any number of tabs posting decisions at any time.
THEOREM AgreeSafe == Spec => []AgreeIsConsented
<1>1. IInv => AgreeIsConsented BY DEF IInv
<1> QED BY <1>1, Inductive, PTL

\* Connected is shown only while the AGREE of the current link stands.
THEOREM ConnectedSafe == Spec => []ConnectedIsAgreed
<1>1. IInv => ConnectedIsAgreed BY DEF IInv
<1> QED BY <1>1, Inductive, PTL

\* Reconnecting is shown only while handle_reconnect runs.
THEOREM ReconnectingSafe == Spec => []NoStuckReconnecting
<1>1. IInv => NoStuckReconnecting BY DEF IInv, ControlInv, NoStuckReconnecting, ReconnectPCs
<1> QED BY <1>1, Inductive, PTL

\* However often the flag is raised, and wherever the request, its reconnect or
\* its retry stands, at most one more frame that carries the session on goes out,
\* and after it only the one disconnect of a reopening.
THEOREM AbortSafe == Spec => []QuietAfterAbort
<1>1. IInv => QuietAfterAbort BY DEF IInv, AbortInv, QuietAfterAbort
<1> QED BY <1>1, Inductive, PTL
=============================================================================
