--------------------------- MODULE ClientSession ---------------------------
(***************************************************************************)
(* The client's session layer: the TransportManager actor                  *)
(* (client/src/transport/manager.rs), the session driver it runs           *)
(* (session.rs), the AGWPE transport below it (agwpe.rs), and the HTTP     *)
(* handlers above it that enqueue commands and answer the consent prompt   *)
(* (client/src/proxy.rs).  The other end of the radio link -- the BPQ node *)
(* and the packet-browser server's per-connection loop                     *)
(* (server/src/main.rs) -- is the peer.                                    *)
(*                                                                         *)
(* The actor is serial: one command runs to its reply before the next one  *)
(* is dequeued.  The handlers run concurrently with it; they reach it only *)
(* through the command queue, the abort flag and the AppState mutex.  One  *)
(* action stands for the code between two awaits or, where another thread  *)
(* can act in between, between two accesses to shared state.               *)
(***************************************************************************)
EXTENDS Naturals, Sequences

CONSTANTS
    Handlers,       \* HTTP request tasks that can run at the same time
    Disclaimers,    \* texts the disclaimer loop may accumulate
    None,           \* Rust's Option::None
    Capacity,       \* mpsc::channel(32) in TransportManager::spawn
    AutoReconnect,  \* config.connection.auto_reconnect
    SkipBpqApp,     \* config.skip_bpq_app
    Budget          \* how often each operator or environment event may happen

Ops == {"connect", "disconnect", "browse", "modem", "shutdown", "accept", "decline"}
EnvEvents == {"abandon", "peerEnds", "noise", "modemDies", "lateLink", "lostDisc"}
Kinds == Ops \cup EnvEvents

ASSUME ConstantsAssumption ==
    /\ None \notin Disclaimers
    /\ Capacity \in Nat \ {0}
    /\ AutoReconnect \in BOOLEAN
    /\ SkipBpqApp \in BOOLEAN
    /\ Budget \in [Kinds -> Nat]

VARIABLES
    (* AppState, behind one mutex *)
    conn,       \* connection_state
    pending,    \* pending_consent: the number of the prompt whose sender it holds, 0 = None
    agreed,     \* last_agreed_disclaimer
    (* shared with the actor *)
    abort,      \* abort_flag
    queue,      \* the mpsc channel
    (* the HTTP handlers *)
    h,          \* one record per running handler
    tick,       \* number of commands issued: names each command's reply channel
    left,       \* what remains of Budget
    (* the actor *)
    pc, cur, retried, text, prompts, chan,
    (* the AGWPE transport and the far end *)
    modem,      \* the TCP stream to the modem: none, up, or broken (Some, but dead)
    rx,         \* frames on their way to, or buffered by, the client
    phase,      \* the far end: no link, the node's command line, or a server session
    inq,        \* lines on their way to the far end
    (* history, read by the properties only *)
    displayed,  \* disclaimers connection_state has ever shown
    accepted,   \* disclaimers on show when an accepting POST took the sender
    signed,     \* the text AGREE was sent for since the link was last opened
    served,     \* requests the current server session has answered
    tainted,    \* a request was given up since the link was last opened afresh
    afterAbort  \* what the current command sent while the abort flag was set

appVars   == <<conn, pending, agreed>>
apiVars   == <<h, tick, left>>
actorVars == <<cur, retried, text, prompts, chan>>
airVars   == <<modem, rx, phase, inq>>
histVars  == <<displayed, accepted, signed, served, tainted, afterAbort>>
vars == <<appVars, abort, queue, apiVars, pc, actorVars, airVars, histVars>>

States == {"Disconnected", "AgwpeConnected", "Connecting", "AwaitingConsent",
           "Connected", "Reconnecting", "Error"}
ConnectionState == [st : States, text : Disclaimers \cup {None}]
Status(s) == [st |-> s, text |-> None]
AwaitingConsent(d) == [st |-> "AwaitingConsent", text |-> d]

SendOps == {"SendRequest", "SendRequestWithReconnect"}
CommandOps == SendOps \cup
    {"ConnectModem", "DisconnectModem", "QueryPorts", "OpenSession", "CloseSession"}
TransportCommand == [op : CommandOps, tk : Nat]

Answers == {"none", "ok", "err", "died", "byOperator", "needsReconsent"}
Stages == {"idle", "enq", "wait", "got", "modal", "taken", "read", "recorded",
           "timer"}
HandlerState == [op : Ops \cup {"none"}, st : Stages, cmd : CommandOps \cup {"none"},
                 tk : Nat, ans : Answers, page : Nat, text : Disclaimers \cup {None}]
Idle == [op |-> "none", st |-> "idle", cmd |-> "none", tk |-> 0,
         ans |-> "none", page |-> 0, text |-> None]

Frame == [k : {"disc"}, d : Disclaimers, tk : {0}]
         \cup [k : {"prompt", "resp", "text", "dead"}, d : {None}, tk : Nat]
Plain(k) == [k |-> k, d |-> None, tk |-> 0]
Line == [k : {"app", "call", "agree", "req"}, tk : Nat]
Phases == {"none", "node", "call", "agree", "serving"}

HandshakePCs == {"hs_app", "hs_call", "hs_disc", "hs_agree"}
ReconnectPCs == {"rc_drain", "rc_tcp", "rc_reg", "rc_link",
                 "rc_app", "rc_call", "rc_disc", "rc_agree"}
RequestPCs == {"sr_check", "sr_send", "sr_wait"}
PCs == {"idle", "cm_tcp", "cm_reg", "dm", "qp", "os_link", "cs", "consent"}
       \cup HandshakePCs \cup ReconnectPCs \cup RequestPCs

Init ==
    /\ conn = Status("Disconnected") /\ pending = 0 /\ agreed = None
    /\ abort = FALSE /\ queue = <<>>
    /\ h = [p \in Handlers |-> Idle] /\ tick = 0 /\ left = Budget
    /\ pc = "idle" /\ cur = [op |-> "QueryPorts", tk |-> 0]
    /\ retried = FALSE /\ text = None /\ prompts = 0 /\ chan = "open"
    /\ modem = "none" /\ rx = <<>> /\ phase = "none" /\ inq = <<>>
    /\ displayed = {} /\ accepted = {} /\ signed = None
    /\ served = {} /\ tainted = FALSE /\ afterAbort = <<>>

Spend(e) == left[e] > 0 /\ left' = [left EXCEPT ![e] = @ - 1]

-----------------------------------------------------------------------------
(* HTTP handlers.                                                          *)

CommandOf(op) ==
    CASE op = "connect"    -> "OpenSession"
      [] op = "disconnect" -> "CloseSession"
      [] op = "modem"      -> "ConnectModem"
      [] op = "shutdown"   -> "DisconnectModem"
      [] op = "browse"     -> IF AutoReconnect THEN "SendRequestWithReconnect"
                                               ELSE "SendRequest"

\* disconnect and disconnect_modem raise the abort flag before they touch the
\* queue.
Issue(p, op) ==
    /\ abort' = (abort \/ op \in {"disconnect", "shutdown"})
    /\ h' = [h EXCEPT ![p] = [Idle EXCEPT !.op = op, !.st = "enq", !.cmd = CommandOf(op)]]
    /\ UNCHANGED <<appVars, queue, tick, pc, actorVars, airVars, histVars>>

\* A handler starts.  /browse reads connection_state once, here.
Begin(p, op) ==
    /\ h[p].st = "idle"
    /\ Spend(op)
    /\ op = "browse" => conn.st = "Connected"
    /\ Issue(p, op)

\* Defect: the channel takes one command more than its capacity.
EnqueueOneTooMany(p) ==
    /\ h[p].st = "enq"
    /\ Len(queue) <= Capacity
    /\ queue' = Append(queue, [op |-> h[p].cmd, tk |-> tick + 1])
    /\ tick' = tick + 1
    /\ h' = [h EXCEPT ![p].st = "wait", ![p].tk = tick + 1]
    /\ UNCHANGED <<appVars, abort, left, pc, actorVars, airVars, histVars>>

\* command_tx.send(..).await: waits while the channel is full.
Enqueue(p) ==
    /\ h[p].st = "enq"
    /\ Len(queue) < Capacity
    /\ queue' = Append(queue, [op |-> h[p].cmd, tk |-> tick + 1])
    /\ tick' = tick + 1
    /\ h' = [h EXCEPT ![p].st = "wait", ![p].tk = tick + 1]
    /\ UNCHANGED <<appVars, abort, left, pc, actorVars, airVars, histVars>>

\* The browser closes the HTTP connection: the handler's future is dropped at
\* its await, whatever it has already put in the queue stays there.  A closed
\* tab's timer does not fire.
Abandon(p) ==
    /\ h[p].st \in {"enq", "wait", "timer"}
    /\ Spend("abandon")
    /\ h' = [h EXCEPT ![p] = Idle]
    /\ UNCHANGED <<appVars, abort, queue, tick, pc, actorVars, airVars, histVars>>

\* The reply is in.  A successful disconnect forgets the recorded consent under
\* a lock of its own; a successful modem connect goes on to query the ports.
Return(p) ==
    /\ h[p].st = "got"
    /\ agreed' = IF h[p].op = "disconnect" /\ h[p].ans = "ok" THEN None ELSE agreed
    /\ h' = [h EXCEPT ![p] =
                IF h[p].cmd = "ConnectModem" /\ h[p].ans = "ok"
                THEN [Idle EXCEPT !.op = "modem", !.st = "enq", !.cmd = "QueryPorts"]
                ELSE Idle]
    /\ UNCHANGED <<conn, pending, abort, queue, tick, left, pc, actorVars, airVars, histVars>>

\* GET /api/consent fills the modal of one browser tab.
ConsentGet(p, op) ==
    /\ h[p].st = "idle"
    /\ op \in {"accept", "decline"}
    /\ Spend(op)
    /\ conn.st = "AwaitingConsent"
    /\ h' = [h EXCEPT ![p] = [Idle EXCEPT !.op = op, !.st = "modal", !.text = conn.text]]
    /\ UNCHANGED <<appVars, abort, queue, tick, pc, actorVars, airVars, histVars>>

\* POST /api/consent, first lock: take the sender.  The body carries the
\* decision and not the text it was made on.
ConsentTake(p) ==
    /\ h[p].st = "modal"
    /\ pending' = 0
    /\ accepted' = IF h[p].op = "accept" /\ pending # 0
                   THEN accepted \cup {conn.text} ELSE accepted
    /\ h' = [h EXCEPT ![p] =
                IF pending = 0 THEN Idle
                ELSE [Idle EXCEPT !.op = h[p].op, !.tk = pending,
                          !.st = IF h[p].op = "accept" THEN "taken" ELSE "recorded"]]
    /\ UNCHANGED <<conn, agreed, abort, queue, tick, left, pc, actorVars, airVars,
                   displayed, signed, served, tainted, afterAbort>>

\* Second lock: read the text connection_state shows now.
ConsentRead(p) ==
    /\ h[p].st = "taken"
    /\ h' = [h EXCEPT ![p].st = "read", ![p].text = conn.text]
    /\ UNCHANGED <<appVars, abort, queue, tick, left, pc, actorVars, airVars, histVars>>

\* Third lock: record it.
ConsentRecord(p) ==
    /\ h[p].st = "read"
    /\ agreed' = IF h[p].text = None THEN agreed ELSE h[p].text
    /\ h' = [h EXCEPT ![p].st = "recorded"]
    /\ UNCHANGED <<conn, pending, abort, queue, tick, left, pc, actorVars, airVars, histVars>>

\* tx.send: reaches the handshake only if that handshake still waits.  The tab
\* whose decline was delivered sets a 250 ms timer ...
StillAsked(p) == pc = "consent" /\ h[p].tk = prompts
ConsentSend(p) ==
    /\ h[p].st = "recorded"
    /\ chan' = IF StillAsked(p) THEN IF h[p].op = "accept" THEN "yes" ELSE "no" ELSE chan
    /\ h' = [h EXCEPT ![p] = IF StillAsked(p) /\ h[p].op = "decline"
                             THEN [Idle EXCEPT !.op = "decline", !.st = "timer"] ELSE Idle]
    /\ UNCHANGED <<appVars, abort, queue, tick, left, pc, cur, retried, text, prompts,
                   airVars, histVars>>

\* ... and then calls ax25Disconnect, whatever session there is by then.
DeclineDisconnects(p) ==
    /\ h[p].st = "timer"
    /\ Issue(p, "disconnect")
    /\ UNCHANGED left

-----------------------------------------------------------------------------
(* The actor: dequeuing, replies, and what it does to the air.             *)

Dequeue(op, next) ==
    /\ pc = "idle" /\ queue # <<>> /\ Head(queue).op = op
    /\ cur' = Head(queue) /\ queue' = Tail(queue)
    /\ pc' = next /\ retried' = FALSE /\ afterAbort' = <<>>

\* reply.send(..): a handler that has gone away simply does not hear it.
Answered(ans, page) ==
    [p \in Handlers |->
        IF h[p].st = "wait" /\ h[p].tk = cur.tk
        THEN [h[p] EXCEPT !.st = "got", !.ans = ans, !.page = page] ELSE h[p]]
Reply(ans) == pc' = "idle" /\ h' = Answered(ans, 0)

\* A frame handed to the modem after the operator's Disconnect: one that carries
\* the session on (a line, or the Connect), or the teardown's own disconnect.
AirFrames == {"line", "disc"}
OnAir(k) == IF abort /\ modem # "none" THEN Append(afterAbort, k) ELSE afterAbort

\* A line leaves for the far end; with no link or a dead stream it is lost.
Transmit(k) ==
    /\ modem # "none"
    /\ inq' = IF modem = "up" /\ phase # "none" THEN Append(inq, [k |-> k, tk |-> cur.tk])
                                                ELSE inq
    /\ afterAbort' = OnAir("line")
SendFails == modem # "up"

\* recv: the next frame is here, or the deadline passes first (rx unchanged: the
\* frame is late or never comes; end of file on a dead stream looks the same).
Arrives(kinds) == rx # <<>> /\ Head(rx).k \in kinds /\ rx' = Tail(rx)
RecvFails == UNCHANGED rx \/ Arrives({"dead"})

\* Defect: a failed handshake or reconnect leaves the shown state as it is.
FailSilently(ans) == UNCHANGED conn /\ Reply(ans)
Fail(ans) == conn' = Status("Error") /\ Reply(ans)

\* Defect: handle_reconnect does not look at the abort flag.
ProceedUnchecked(next) == pc' = next /\ UNCHANGED <<conn, h>>
\* Every await of handle_reconnect is followed by a look at the abort flag.
Proceed(next) ==
    IF abort THEN Fail("byOperator")
             ELSE pc' = next /\ UNCHANGED <<conn, h>>

apiRest   == <<tick, left>>
stepRest  == <<cur, retried, text, prompts, chan>>
histRest  == <<displayed, accepted, signed, served, tainted>>
shared    == <<pending, agreed, abort, queue>>

-----------------------------------------------------------------------------
(* ConnectModem, DisconnectModem, QueryPorts.                              *)

StartConnectModem ==
    /\ Dequeue("ConnectModem", "cm_tcp")
    /\ abort' = FALSE
    /\ UNCHANGED <<appVars, apiVars, text, prompts, chan, airVars, histRest>>

\* connect_modem_internal, also the second half of reopen_modem_connection: the
\* new stream replaces the old one and the read buffer is cleared ...
TcpUp ==
    /\ pc \in {"cm_tcp", "rc_tcp"}
    /\ pc' = IF pc = "cm_tcp" THEN "cm_reg" ELSE "rc_reg"
    /\ modem' = "up" /\ rx' = <<>> /\ signed' = None
    /\ UNCHANGED <<conn, shared, apiVars, stepRest, phase, inq,
                   displayed, accepted, served, tainted, afterAbort>>

\* ... or the TCP connect fails and an earlier stream stays in place.
TcpFails ==
    /\ pc \in {"cm_tcp", "rc_tcp"}
    /\ Fail("err")
    /\ UNCHANGED <<shared, apiRest, stepRest, airVars, histVars>>

Registered ==
    /\ pc \in {"cm_reg", "rc_reg"}
    /\ IF pc = "cm_reg" THEN conn' = Status("AgwpeConnected") /\ Reply("ok")
                        ELSE Proceed("rc_link")
    /\ UNCHANGED <<shared, apiRest, stepRest, airVars, histVars>>

RegistrationFails ==
    /\ pc \in {"cm_reg", "rc_reg"}
    /\ Fail("err")
    /\ modem' = "none" /\ rx' = <<>>
    /\ UNCHANGED <<shared, apiRest, stepRest, phase, inq, histVars>>

StartDisconnectModem ==
    /\ Dequeue("DisconnectModem", "dm")
    /\ UNCHANGED <<appVars, abort, apiVars, text, prompts, chan, airVars, histRest>>

DisconnectModem ==
    /\ pc = "dm"
    /\ modem' = "none" /\ rx' = <<>> /\ signed' = None
    /\ conn' = Status("Disconnected") /\ Reply("ok")
    /\ UNCHANGED <<shared, apiRest, stepRest, phase, inq,
                   displayed, accepted, served, tainted, afterAbort>>

StartQueryPorts ==
    /\ Dequeue("QueryPorts", "qp")
    /\ UNCHANGED <<appVars, abort, apiVars, text, prompts, chan, airVars, histRest>>

\* Waits for the port list; every other frame read on the way is thrown away.
QueryPorts ==
    /\ pc = "qp"
    /\ \/ modem = "up" /\ Reply("ok")
       \/ Reply("err")
    /\ \/ modem # "none" /\ \E n \in 1..Len(rx) : rx' = SubSeq(rx, n + 1, Len(rx))
       \/ UNCHANGED rx
    /\ UNCHANGED <<appVars, abort, queue, apiRest, stepRest, modem, phase, inq, histVars>>

-----------------------------------------------------------------------------
(* OpenSession and the handshake, which handle_reconnect runs as well.     *)

\* Defect: the old state stays on show while the new link is opened.
StartOpenSessionUnannounced ==
    /\ Dequeue("OpenSession", "os_link")
    /\ abort' = FALSE
    /\ UNCHANGED <<appVars, apiVars, text, prompts, chan, airVars, histRest>>

\* reset_abort, the AGWPE transport records the target, Connecting is shown.
StartOpenSession ==
    /\ Dequeue("OpenSession", "os_link")
    /\ abort' = FALSE
    /\ conn' = Status("Connecting")
    /\ UNCHANGED <<pending, agreed, apiVars, text, prompts, chan, airVars, histRest>>

\* A Connect on a link the far end still holds resumes the session it has.
FreshPhase == IF SkipBpqApp THEN "call" ELSE "node"
LinkEstablished ==
    IF phase = "none"
    THEN /\ phase' = FreshPhase /\ inq' = <<>>
         /\ rx' = IF SkipBpqApp THEN <<Plain("prompt")>> ELSE <<>>
         /\ served' = {} /\ tainted' = FALSE
    ELSE rx' = <<>> /\ UNCHANGED <<phase, inq, served, tainted>>

\* open_ax25_link: frames ahead of the confirmation are discarded.
LinkOpens ==
    /\ pc \in {"os_link", "rc_link"}
    /\ modem = "up"
    /\ LinkEstablished
    /\ afterAbort' = OnAir("line")
    /\ signed' = None
    /\ IF pc = "os_link" THEN pc' = "hs_app" /\ UNCHANGED <<conn, h>>
                         ELSE Proceed("rc_app")
    /\ UNCHANGED <<shared, apiRest, stepRest, modem, displayed, accepted>>

\* No stream, a rejection, the 30 s deadline, or a confirmation that comes after
\* it.  handle_open_session returns with `?` and leaves Connecting in place.
LinkFails ==
    /\ pc \in {"os_link", "rc_link"}
    /\ IF pc = "os_link" THEN Reply("err") /\ UNCHANGED conn ELSE Fail("err")
    /\ afterAbort' = OnAir("line")
    /\ \/ UNCHANGED <<rx, phase, inq, served, tainted, left>>
       \/ modem = "up" /\ Spend("lateLink") /\ LinkEstablished
    /\ signed' = None
    /\ UNCHANGED <<shared, tick, stepRest, modem, displayed, accepted>>

AppCommand ==
    /\ pc \in {"hs_app", "rc_app"}
    /\ IF SkipBpqApp THEN UNCHANGED <<inq, afterAbort>> ELSE Transmit("app")
    /\ IF pc = "rc_app" /\ ~SkipBpqApp THEN Proceed("rc_call")
       ELSE pc' = (IF pc = "hs_app" THEN "hs_call" ELSE "rc_call") /\ UNCHANGED <<conn, h>>
    /\ UNCHANGED <<shared, apiRest, stepRest, modem, rx, phase, histRest>>

\* The prompt (or any text with AGREE in it) is answered with the callsign.
Callsign ==
    /\ pc \in {"hs_call", "rc_call"}
    /\ Arrives({"prompt", "disc"})
    /\ Transmit("call")
    /\ IF pc = "hs_call" THEN pc' = "hs_disc" /\ UNCHANGED <<conn, h>>
                         ELSE Proceed("rc_disc")
    /\ UNCHANGED <<shared, apiRest, stepRest, modem, phase, histRest>>

\* Text without the awaited word is accumulated and the loop reads on.
SkipText ==
    /\ \/ pc \in {"hs_call", "rc_call"} /\ Arrives({"resp", "text"})
       \/ pc \in {"hs_disc", "rc_disc"} /\ Arrives({"prompt", "resp", "text"})
    /\ UNCHANGED <<appVars, abort, queue, apiVars, pc, actorVars, modem, phase, inq, histVars>>

\* perform_bpq_handshake parks on the operator's decision: sender and state are
\* set under one lock.
AskConsent ==
    /\ pc = "hs_disc"
    /\ Arrives({"disc"})
    /\ text' = Head(rx).d
    /\ prompts' = prompts + 1 /\ pending' = prompts + 1 /\ chan' = "open"
    /\ conn' = AwaitingConsent(Head(rx).d)
    /\ displayed' = displayed \cup {Head(rx).d}
    /\ pc' = "consent"
    /\ UNCHANGED <<agreed, abort, queue, apiVars, cur, retried, modem, phase, inq,
                   accepted, signed, served, tainted, afterAbort>>

\* Defect: any decision that arrives counts as consent.
ConsentedByAnyDecision ==
    /\ pc = "consent" /\ chan # "open"
    /\ pc' = "hs_agree"
    /\ UNCHANGED <<appVars, abort, queue, apiVars, actorVars, airVars, histVars>>

Consented ==
    /\ pc = "consent" /\ chan = "yes"
    /\ pc' = "hs_agree"
    /\ UNCHANGED <<appVars, abort, queue, apiVars, actorVars, airVars, histVars>>

Declined ==
    /\ pc = "consent" /\ chan = "no"
    /\ Fail("err")
    /\ UNCHANGED <<shared, apiRest, stepRest, airVars, histVars>>

\* Defect: the time-out forgets to clear the slot.
ConsentTimesOutKeepsSlot ==
    /\ pc = "consent" /\ chan = "open"
    /\ Fail("err")
    /\ UNCHANGED <<shared, apiRest, stepRest, airVars, histVars>>

\* 300 s without a decision: the slot is cleared.
ConsentTimesOut ==
    /\ pc = "consent" /\ chan = "open"
    /\ pending' = 0
    /\ Fail("err")
    /\ UNCHANGED <<agreed, abort, queue, apiRest, stepRest, airVars, histVars>>

\* Defect: the automatic answer does not compare the texts.
AgreeToAnyDisclaimer ==
    /\ pc = "rc_disc"
    /\ Arrives({"disc"})
    /\ text' = Head(rx).d
    /\ Proceed("rc_agree")
    /\ UNCHANGED <<shared, apiRest, cur, retried, prompts, chan, modem, phase, inq,
                   displayed, accepted, signed, served, tainted, afterAbort>>

\* handle_reconnect: exact comparison with the recorded consent; a mismatch shows
\* the new text and ends the command without a sender for a decision.
CompareDisclaimer ==
    /\ pc = "rc_disc"
    /\ Arrives({"disc"})
    /\ text' = Head(rx).d
    /\ IF ~abort /\ Head(rx).d # agreed
       THEN /\ conn' = AwaitingConsent(Head(rx).d)
            /\ displayed' = displayed \cup {Head(rx).d}
            /\ Reply("needsReconsent")
       ELSE Proceed("rc_agree") /\ UNCHANGED displayed
    /\ UNCHANGED <<shared, apiRest, cur, retried, prompts, chan, modem, phase, inq,
                   accepted, signed, served, tainted, afterAbort>>

\* AGREE goes out and Connected is shown; a reconnect goes on to the retry.
SendAgree ==
    /\ pc \in {"hs_agree", "rc_agree"}
    /\ Transmit("agree")
    /\ signed' = text
    /\ conn' = Status("Connected")
    /\ IF pc = "hs_agree" THEN Reply("ok") ELSE pc' = "sr_check" /\ UNCHANGED h
    /\ UNCHANGED <<shared, apiRest, stepRest, modem, rx, phase,
                   displayed, accepted, served, tainted>>

\* Any error of the handshake -- a send on a dead stream, a deadline, the peer
\* hanging up -- ends the command in Error.  The link is left as it is.
HandshakeFails ==
    /\ pc \in HandshakePCs \cup {"rc_app", "rc_call", "rc_disc", "rc_agree"}
    /\ \/ pc \in {"hs_app", "hs_agree", "rc_app", "rc_agree"} /\ SendFails /\ UNCHANGED rx
       \/ pc \in {"hs_call", "rc_call"} /\ Arrives({"prompt", "disc"}) /\ SendFails
       \/ pc \in {"hs_call", "hs_disc", "rc_call", "rc_disc"} /\ RecvFails
    /\ Fail("err")
    /\ UNCHANGED <<shared, apiRest, stepRest, modem, phase, inq, histVars>>

-----------------------------------------------------------------------------
(* CloseSession, and requests with or without a reconnect.                 *)

StartCloseSession ==
    /\ Dequeue("CloseSession", "cs")
    /\ abort' = TRUE
    /\ UNCHANGED <<appVars, apiVars, text, prompts, chan, airVars, histRest>>

\* send_disconnect_and_drain: confirmed, everything before it drained; or the
\* frame or its confirmation is lost and the 3 s deadline ends the wait.
DisconnectAndDrain ==
    /\ \/ modem = "up" /\ phase' = "none" /\ inq' = <<>> /\ UNCHANGED left
       \/ modem = "up" /\ Spend("lostDisc") /\ UNCHANGED <<phase, inq>>
       \/ modem # "up" /\ UNCHANGED <<phase, inq, left>>
    /\ afterAbort' = OnAir("disc")

CloseSession ==
    /\ pc = "cs"
    /\ \/ /\ modem = "none"
          /\ Reply("err") /\ UNCHANGED <<conn, rx, phase, inq, left, signed, afterAbort>>
       \/ /\ modem # "none"
          /\ DisconnectAndDrain
          /\ rx' = <<>> /\ signed' = None
          /\ conn' = Status("AgwpeConnected") /\ Reply("ok")
    /\ UNCHANGED <<shared, tick, stepRest, modem, displayed, accepted, served, tainted>>

StartRequest ==
    /\ \E op \in SendOps : Dequeue(op, "sr_check")
    /\ UNCHANGED <<appVars, abort, apiVars, text, prompts, chan, airVars, histRest>>

\* The abort check ahead of any wire I/O, first try and retry alike.
RequestCheck ==
    /\ pc = "sr_check"
    /\ IF abort THEN Reply("byOperator") ELSE pc' = "sr_send" /\ UNCHANGED h
    /\ UNCHANGED <<conn, shared, apiRest, stepRest, airVars, histVars>>

RequestSend ==
    /\ pc = "sr_send"
    /\ \/ Transmit("req") /\ pc' = "sr_wait" /\ UNCHANGED h
       \/ SendFails /\ Reply("err") /\ UNCHANGED <<inq, afterAbort>>
    /\ UNCHANGED <<conn, shared, apiRest, stepRest, modem, rx, phase, histRest>>

\* Defect: the answered frame stays in the buffer.
RequestAnsweredKeepsFrame ==
    /\ pc = "sr_wait"
    /\ rx # <<>> /\ Head(rx).k = "resp"
    /\ pc' = "idle"
    /\ h' = IF abort THEN Answered("byOperator", 0) ELSE Answered("ok", Head(rx).tk)
    /\ tainted' = (tainted \/ Head(rx).tk # cur.tk)
    /\ UNCHANGED <<conn, shared, apiRest, stepRest, modem, rx, phase, inq,
                   displayed, accepted, signed, served, afterAbort>>

\* A complete RESP frame.  Nothing in it names the request it answers.
RequestAnswered ==
    /\ pc = "sr_wait"
    /\ Arrives({"resp"})
    /\ pc' = "idle"
    /\ h' = IF abort THEN Answered("byOperator", 0) ELSE Answered("ok", Head(rx).tk)
    /\ tainted' = (tainted \/ Head(rx).tk # cur.tk)
    /\ UNCHANGED <<conn, shared, apiRest, stepRest, modem, phase, inq,
                   displayed, accepted, signed, served, afterAbort>>

\* Other text: read on, unless the operator has disconnected.
RequestText ==
    /\ pc = "sr_wait"
    /\ Arrives({"text", "prompt", "disc"})
    /\ IF abort THEN Reply("byOperator") /\ tainted' = TRUE
                ELSE UNCHANGED <<pc, h, tainted>>
    /\ UNCHANGED <<conn, shared, apiRest, stepRest, modem, phase, inq,
                   displayed, accepted, signed, served, afterAbort>>

\* Defect: the retry is made without a reconnect.
RetryOnSameSession ==
    /\ pc = "sr_wait"
    /\ UNCHANGED rx \/ Arrives({"dead", "text", "prompt", "disc"})
    /\ IF cur.op = "SendRequestWithReconnect" /\ ~retried
       THEN retried' = TRUE /\ pc' = "sr_check" /\ UNCHANGED <<conn, h>>
       ELSE Reply("died") /\ UNCHANGED <<conn, retried>>
    /\ tainted' = TRUE
    /\ UNCHANGED <<shared, apiRest, cur, text, prompts, chan, modem, phase, inq,
                   displayed, accepted, signed, served, afterAbort>>

\* Defect: the read has no time-out.
SessionDiesOnlyByNotice ==
    /\ pc = "sr_wait"
    /\ Arrives({"dead"})
    /\ Reply("died")
    /\ tainted' = TRUE
    /\ UNCHANGED <<conn, shared, apiRest, stepRest, modem, phase, inq,
                   displayed, accepted, signed, served, afterAbort>>

\* SessionDied: no answer within the timeout, too much text without a header, or
\* the peer hung up.  Only SendRequestWithReconnect, and only once, reconnects;
\* otherwise the error is returned and connection_state is left as it is.
SessionDied ==
    /\ pc = "sr_wait"
    /\ UNCHANGED rx \/ Arrives({"dead", "text", "prompt", "disc"})
    /\ IF cur.op = "SendRequestWithReconnect" /\ ~retried
       THEN conn' = Status("Reconnecting") /\ retried' = TRUE /\ pc' = "rc_drain" /\ UNCHANGED h
       ELSE Reply("died") /\ UNCHANGED <<conn, retried>>
    /\ tainted' = TRUE
    /\ UNCHANGED <<shared, apiRest, cur, text, prompts, chan, modem, phase, inq,
                   displayed, accepted, signed, served, afterAbort>>

\* End of file on the modem stream, an undecodable AGWPE frame or an oversized
\* response: not SessionDied, returned as it is.
RequestFails ==
    /\ pc = "sr_wait"
    /\ \/ modem = "broken" /\ UNCHANGED rx
       \/ Arrives({"text"})
    /\ Reply("err")
    /\ tainted' = TRUE
    /\ UNCHANGED <<conn, shared, apiRest, stepRest, modem, phase, inq,
                   displayed, accepted, signed, served, afterAbort>>

\* reopen_modem_connection, first half: disconnect, drain, drop the stream.
ReopenModem ==
    /\ pc = "rc_drain"
    /\ DisconnectAndDrain
    /\ modem' = "none" /\ rx' = <<>> /\ signed' = None
    /\ pc' = "rc_tcp"
    /\ UNCHANGED <<conn, shared, h, tick, stepRest, displayed, accepted, served, tainted>>

-----------------------------------------------------------------------------
(* The far end: the BPQ node and the server's handle_connection.           *)

Emit(frames) == rx' = IF modem = "up" THEN rx \o frames ELSE rx
clientSide == <<appVars, abort, queue, pc, actorVars, modem>>

\* The server closes: the node hangs up the link or takes the user back; lines
\* the server has not read are lost or reach the node.
HangUp(frames, unread) ==
    \/ /\ phase' = "none" /\ inq' = <<>>
       /\ Emit(Append(frames, Plain("dead")))
    \/ /\ ~SkipBpqApp
       /\ phase' = "node" /\ inq' \in {<<>>, unread}
       /\ Emit(Append(frames, Plain("text")))

\* The node's command line: the application command starts a server session,
\* which prompts at once; anything else is an unknown command.
NodeLine ==
    /\ phase = "node" /\ inq # <<>>
    /\ inq' = Tail(inq)
    /\ IF Head(inq).k = "app"
       THEN phase' = "call" /\ Emit(<<Plain("prompt")>>) /\ served' = {}
       ELSE Emit(<<Plain("text")>>) /\ UNCHANGED <<phase, served>>
    /\ UNCHANGED <<clientSide, apiVars, displayed, accepted, signed, tainted, afterAbort>>

\* handle_connection, callsign line: valid, the disclaimer follows (LinBPQ may
\* deliver this first line twice); invalid, a text with "callsign" in it.
ServerCallsign ==
    /\ phase = "call" /\ inq # <<>>
    /\ \/ /\ Head(inq).k = "call"
          /\ phase' = "agree" /\ inq' \in {inq, Tail(inq)}
          /\ \E d \in Disclaimers : Emit(<<[k |-> "disc", d |-> d, tk |-> 0]>>)
       \/ Head(inq).k # "call" /\ HangUp(<<Plain("prompt")>>, Tail(inq))
    /\ UNCHANGED <<clientSide, apiVars, histVars>>

\* A repeated callsign is discarded, AGREE opens the request loop, any other
\* line ends the session.
ServerAgree ==
    /\ phase = "agree" /\ inq # <<>>
    /\ \/ Head(inq).k = "call" /\ inq' = Tail(inq) /\ UNCHANGED <<phase, rx>>
       \/ Head(inq).k = "agree" /\ inq' = Tail(inq) /\ phase' = "serving" /\ UNCHANGED rx
       \/ Head(inq).k \notin {"call", "agree"} /\ HangUp(<<Plain("text")>>, Tail(inq))
    /\ UNCHANGED <<clientSide, apiVars, histVars>>

\* The browser does not start: an error response nobody asked for, then the end.
ServerNoBrowser ==
    /\ phase = "agree" /\ inq # <<>> /\ Head(inq).k = "agree"
    /\ Spend("peerEnds")
    /\ HangUp(<<Plain("resp")>>, Tail(inq))
    /\ UNCHANGED <<clientSide, h, tick, histVars>>

\* The request loop: a response per request; a line that is none ends it.
ServerRequest ==
    /\ phase = "serving" /\ inq # <<>>
    /\ \/ /\ Head(inq).k = "req"
          /\ inq' = Tail(inq) /\ UNCHANGED phase
          /\ Emit(<<[k |-> "resp", d |-> None, tk |-> Head(inq).tk]>>)
          /\ served' = served \cup {Head(inq).tk}
       \/ Head(inq).k # "req" /\ HangUp(<<>>, Tail(inq)) /\ UNCHANGED served
    /\ UNCHANGED <<clientSide, apiVars, displayed, accepted, signed, tainted, afterAbort>>

\* A server deadline passes, or the radio link fails, with or without a notice.
PeerEnds ==
    /\ phase # "none"
    /\ Spend("peerEnds")
    /\ \/ phase # "node" /\ HangUp(<<Plain("text")>>, inq)
       \/ phase' = "none" /\ inq' = <<>> /\ (UNCHANGED rx \/ Emit(<<Plain("dead")>>))
    /\ UNCHANGED <<clientSide, h, tick, histVars>>

\* LinBPQ status lines and AGWPE frames of no interest reach recv as text.
Noise ==
    /\ modem = "up"
    /\ Spend("noise")
    /\ Emit(<<Plain("text")>>)
    /\ UNCHANGED <<clientSide, h, tick, phase, inq, histVars>>

ModemDies ==
    /\ modem = "up"
    /\ Spend("modemDies")
    /\ modem' = "broken"
    /\ UNCHANGED <<appVars, abort, queue, h, tick, pc, actorVars, rx, phase, inq, histVars>>

-----------------------------------------------------------------------------
Handler(p) ==
    \/ Enqueue(p) \/ Return(p)
    \/ ConsentRead(p) \/ ConsentRecord(p) \/ ConsentSend(p)

Operator(p) ==
    \/ \E op \in Ops \ {"accept", "decline"} : Begin(p, op)
    \/ \E op \in {"accept", "decline"} : ConsentGet(p, op)
    \/ ConsentTake(p) \/ DeclineDisconnects(p) \/ Abandon(p)

Actor ==
    \/ StartConnectModem \/ TcpUp \/ TcpFails \/ Registered \/ RegistrationFails
    \/ StartDisconnectModem \/ DisconnectModem \/ StartQueryPorts \/ QueryPorts
    \/ StartOpenSession \/ LinkOpens \/ LinkFails \/ AppCommand \/ Callsign \/ SkipText
    \/ AskConsent \/ Consented \/ Declined \/ ConsentTimesOut
    \/ CompareDisclaimer \/ SendAgree \/ HandshakeFails
    \/ StartCloseSession \/ CloseSession
    \/ StartRequest \/ RequestCheck \/ RequestSend \/ RequestAnswered \/ RequestText
    \/ SessionDied \/ RequestFails \/ ReopenModem

Peer ==
    \/ NodeLine \/ ServerCallsign \/ ServerAgree \/ ServerNoBrowser \/ ServerRequest
    \/ PeerEnds \/ Noise \/ ModemDies

Next ==
    \/ \E p \in Handlers : Handler(p) \/ Operator(p)
    \/ Actor
    \/ Peer

Spec == Init /\ [][Next]_vars

\* The tokio runtime polls the actor and every handler that can run; the actor's
\* waits all have deadlines.  Nothing is assumed of operator, modem or peer.
FairSpec == Spec /\ WF_vars(Actor) /\ \A p \in Handlers : WF_vars(Handler(p))

-----------------------------------------------------------------------------
(* Properties.                                                             *)

\* Types of all variables; the channel never holds more than its capacity.
TypeOK ==
    /\ conn \in ConnectionState /\ pending \in Nat /\ agreed \in Disclaimers \cup {None}
    /\ abort \in BOOLEAN /\ queue \in Seq(TransportCommand) /\ Len(queue) <= Capacity
    /\ h \in [Handlers -> HandlerState] /\ tick \in Nat /\ left \in [Kinds -> Nat]
    /\ pc \in PCs /\ cur \in TransportCommand /\ retried \in BOOLEAN
    /\ text \in Disclaimers \cup {None} /\ prompts \in Nat /\ chan \in {"open", "yes", "no"}
    /\ modem \in {"none", "up", "broken"} /\ rx \in Seq(Frame)
    /\ phase \in Phases /\ inq \in Seq(Line)
    /\ displayed \subseteq Disclaimers /\ accepted \subseteq Disclaimers
    /\ signed \in Disclaimers \cup {None} /\ served \subseteq Nat
    /\ tainted \in BOOLEAN /\ afterAbort \in Seq(AirFrames)

\* Whoever takes pending_consent answers the handshake that is parked now, and
\* the text on show is the one that handshake received (session.rs sets both
\* under one lock; the time-out clears the slot before it leaves the state).
SlotMatchesPrompt ==
    pending # 0 => /\ pc = "consent" /\ chan = "open" /\ pending = prompts
                   /\ conn = AwaitingConsent(text)

\* AGREE is about to be sent only for a text an accepting POST was made on, in
\* the operator's handshake, or for one the client has shown, in the automatic
\* answer of handle_reconnect: "a logging disclaimer no human ever saw" is never
\* signed.
AgreeIsConsented ==
    /\ pc = "hs_agree" => text \in accepted
    /\ pc = "rc_agree" => text \in displayed

\* /browse trusts Connected.  Outside the registration of a fresh modem stream,
\* Connected means AGREE has been sent since the link was last opened, and that
\* no teardown, reopening or new stream has come between.
ConnectedIsAgreed ==
    conn.st = "Connected" /\ pc # "cm_reg" => signed # None

\* Every way out of handle_reconnect replaces Reconnecting: between commands the
\* client never shows a reconnect that nobody is driving.
NoStuckReconnecting == pc = "idle" => conn.st # "Reconnecting"

\* Once the operator has clicked Disconnect, a request in progress -- its retry
\* and the whole reconnect handshake included -- puts at most one more frame on
\* the air that carries the session on.  If its time-out has it begin a reconnect
\* all the same, the disconnect frame of reopen_modem_connection may follow; it is
\* the last frame, and there is one only.
QuietAfterAbort ==
    cur.op \in SendOps =>
        afterAbort \in {<<>>, <<"line">>, <<"disc">>, <<"line", "disc">>}

\* One server session never gets the same request twice: the retry of
\* handle_send_request_with_reconnect reaches a session that began after the one
\* of its first try, even when the disconnect in between was lost, lines are left
\* of several earlier sessions and the node reads them all in their order.
NoReplayInSession ==
    phase = "serving" /\ inq # <<>> /\ Head(inq).k = "req" => Head(inq).tk \notin served

\* Responses carry no request id.  A page is delivered for another request only on
\* a link on which an earlier request was given up after it had been sent (page 0
\* is the server's unsolicited error).
CleanLinkAnswers ==
    [][\A p \in Handlers :
         /\ h[p].st = "wait" /\ h'[p].st = "got" /\ h'[p].ans = "ok"
         /\ cur.op \in SendOps /\ ~tainted
         => h'[p].page \in {0, h[p].tk}]_vars

\* Every command gets its reply: the serial actor is never stuck on a lost
\* answer, a silent operator or a dead modem.
CommandsAnswered == \A p \in Handlers : h[p].st = "wait" ~> h[p].st # "wait"

\* A consent prompt does not stay open for ever.
PromptsResolve == pending # 0 ~> pending = 0
=============================================================================
