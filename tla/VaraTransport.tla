---------------------------- MODULE VaraTransport ----------------------------
(***************************************************************************)
(* The VARA transport (client/src/transport/vara): a command socket with a *)
(* line buffer and a data socket, from VaraTransport::new to its end,      *)
(* driven by the branch of api_connect_handler that builds one for every   *)
(* VARA connect and by the commands of its manager.  The transport that    *)
(* was in its place goes its own way.  Time is counted in polls of the     *)
(* command socket (500 ms).  A line is <<kind, n>>; n is the number of the *)
(* command it answers, 0 if none, and is not seen by the code.  The modem  *)
(* is external and may still hold the link or the attempt of a client      *)
(* before this one, number 0.  It takes no calls (LISTEN OFF).             *)
(***************************************************************************)
EXTENDS Naturals, Sequences

CONSTANTS OkWait,       \* OK_TIMEOUT_SECS
          ConnectWait,  \* 60 s for CONNECTED
          CloseWait,    \* 3 s for DISCONNECTED
          RecvWait,     \* the deadline a caller gives to recv
          MaxDrain,     \* 64 lines read by close_session
          Setups,       \* commands of setup_commands
          MaxOps,       \* bound: operations
          MaxChatter,   \* bound: lines, data and closings of the modem's own
          None

ASSUME VaraAssumption ==
    /\ {OkWait, ConnectWait, CloseWait, RecvWait, MaxDrain, Setups} \subseteq Nat \ {0}
    /\ {MaxOps, MaxChatter} \subseteq Nat
    /\ None \notin Nat

VARIABLES op,      \* the operation in progress and its deadline
          tr,      \* the transport: sockets, cmd_line_buf, link it believes in
          cmds,    \* commands on their way to the modem
          wire,    \* lines on their way to the client
          bytes,   \* pieces of data on their way
          modem,   \* commands carried out, connection attempt, link
          used     \* operations begun and lines added so far

vars == <<op, tr, cmds, wire, bytes, modem, used>>

Names == {"idle", "setup", "mycall", "connect", "close", "recv"}
Kinds == {"OK", "MISSING", "PENDING", "BUSY", "CONNECTED", "DISCONNECTED", "KNOWN", "UNKNOWN"}
Nums  == 0 .. ((Setups + 2) * MaxOps)

TypeOK ==
    /\ op \in [name : Names, age : Nat, left : Nat, end : {None, "Ok", "Timeout", "Error"}]
    /\ op.left <= CASE op.name = "setup" -> Setups [] op.name = "close" -> MaxDrain [] OTHER -> 0
    /\ tr \in [up : BOOLEAN,                  \* cmd and data are open
               buf : Seq(Kinds \X Nums),      \* cmd_line_buf
               ready : BOOLEAN,               \* installed after connect_modem
               own : Nums \cup {None},        \* of its last CONNECT (history)
               clear : BOOLEAN,               \* no CONNECT given up is unsettled (history)
               last : Nums,                   \* number of the last command
               link : Nums \cup {None}]       \* of the CONNECTED that was taken
    /\ cmds \in Seq({"SET", "CONNECT", "DISCONNECT"} \X Nums)
    /\ wire \in Seq(Kinds \X Nums)
    /\ bytes \in Nat
    /\ modem \in [done : Nat, trying : Nums \cup {None}, link : Nums \cup {None}]
    /\ used \in [ops : 0 .. MaxOps, chatter : 0 .. MaxChatter]

NewTransport == [up |-> FALSE, buf |-> <<>>, ready |-> FALSE, own |-> None, clear |-> FALSE,
                 last |-> 0, link |-> None]

Init ==
    /\ op = [name |-> "idle", age |-> 0, left |-> 0, end |-> None]
    /\ tr = NewTransport
    /\ cmds = <<>> /\ wire = <<>> /\ bytes = 0
    /\ modem \in [done : {0}, trying : {0, None}, link : {0, None}]
    /\ modem.trying = None \/ modem.link = None
    /\ used = [ops |-> 0, chatter |-> 0]

-----------------------------------------------------------------------------
(* The modem (external).                                                   *)

Says(line) == wire' = Append(wire, line)

Execute ==
    /\ cmds # <<>> /\ tr.up
    /\ cmds' = Tail(cmds)
    /\ LET n == Head(cmds)[2]
       IN  \/ /\ Head(cmds)[1] = "SET"
              /\ \/ Says(<<"OK", n>>) /\ modem' = [modem EXCEPT !.done = @ + 1]
                 \/ Says(<<"MISSING", n>>) /\ UNCHANGED modem
           \/ /\ Head(cmds)[1] = "CONNECT"
              /\ \/ /\ modem.link = None /\ modem.trying = None
                    /\ Says(<<"PENDING", n>>) /\ modem' = [modem EXCEPT !.trying = n]
                 \/ Says(<<"BUSY", n>>) /\ UNCHANGED modem
           \/ /\ Head(cmds)[1] = "DISCONNECT"
              /\ Says(<<"DISCONNECTED", n>>)
              /\ modem' = [modem EXCEPT !.link = None, !.trying = None]
    /\ UNCHANGED <<op, tr, bytes, used>>

\* An attempt succeeds or fails, a link is lost.
LinkChanges ==
    /\ tr.up
    /\ \/ /\ modem.trying # None
          /\ \/ /\ Says(<<"CONNECTED", modem.trying>>)
                /\ modem' = [modem EXCEPT !.link = modem.trying, !.trying = None]
             \/ Says(<<"DISCONNECTED", 0>>) /\ modem' = [modem EXCEPT !.trying = None]
       \/ /\ modem.link # None
          /\ Says(<<"DISCONNECTED", 0>>) /\ modem' = [modem EXCEPT !.link = None]
    /\ UNCHANGED <<op, tr, cmds, bytes, used>>

Chatter ==
    /\ tr.up /\ used.chatter < MaxChatter
    /\ used' = [used EXCEPT !.chatter = @ + 1]
    /\ \/ \E kind \in {"KNOWN", "UNKNOWN"} : Says(<<kind, 0>>) /\ UNCHANGED bytes
       \/ modem.link # None /\ bytes' = bytes + 1 /\ UNCHANGED wire
    /\ UNCHANGED <<op, tr, cmds, modem>>

-----------------------------------------------------------------------------
(* Operations.                                                             *)

\* Defect: one line more than the cap of close_session.
BeginOneMore(name, left) ==
    /\ op.name = "idle" /\ used.ops < MaxOps
    /\ used' = [used EXCEPT !.ops = @ + 1]
    /\ op' = [name |-> name, age |-> 0, left |-> left + 1, end |-> None]

Begin(name, left) ==
    /\ op.name = "idle" /\ used.ops < MaxOps
    /\ used' = [used EXCEPT !.ops = @ + 1]
    /\ op' = [name |-> name, age |-> 0, left |-> left, end |-> None]

End(how) == op' = [name |-> "idle", age |-> 0, left |-> 0, end |-> how]

\* send_cmd: the next command, by its number.
Send(kind) == cmds' = Append(cmds, <<kind, tr.last + 1>>)

\* Defect: the new manager is installed before its modem has been set up.
VaraConnectInstallsFirst ==
    /\ tr.last = 0 /\ Begin("setup", Setups)
    /\ tr' = [NewTransport EXCEPT !.up = TRUE, !.last = 1, !.clear = modem.trying = None,
                                  !.ready = TRUE]
    /\ cmds' = <<<<"SET", 1>>>> /\ wire' = <<>> /\ bytes' = 0
    /\ UNCHANGED modem

\* connect_modem, once: two new sockets and the first setup command.  When the
\* sockets cannot be opened the transport is dropped, and nothing has changed.
VaraConnect ==
    /\ tr.last = 0 /\ Begin("setup", Setups)
    /\ tr' = [NewTransport EXCEPT !.up = TRUE, !.last = 1, !.clear = modem.trying = None]
    /\ cmds' = <<<<"SET", 1>>>> /\ wire' = <<>> /\ bytes' = 0
    /\ UNCHANGED modem

\* open_session of a later request for AX.25: it finds this manager in its
\* place and uses it.
OpenSession ==
    /\ tr.ready /\ tr.up
    /\ Begin("mycall", 0)
    /\ tr' = [tr EXCEPT !.last = @ + 1, !.link = None]
    /\ Send("SET")
    /\ UNCHANGED <<wire, bytes, modem>>

CloseSession ==
    /\ tr.ready /\ tr.up
    /\ Begin("close", MaxDrain)
    /\ tr' = [tr EXCEPT !.last = @ + 1, !.link = None]
    /\ Send("DISCONNECT")
    /\ UNCHANGED <<wire, bytes, modem>>

Recv ==
    /\ tr.ready /\ tr.up /\ tr.link # None
    /\ Begin("recv", 0)
    /\ UNCHANGED <<tr, cmds, wire, bytes, modem>>

\* Both sockets are closed, with what was on its way; the modem goes on.
Hangup ==
    /\ tr' = [tr EXCEPT !.up = FALSE, !.buf = <<>>, !.link = None]
    /\ cmds' = <<>> /\ wire' = <<>> /\ bytes' = 0
    /\ UNCHANGED modem

DisconnectModem ==
    /\ op.name = "idle" /\ tr.up /\ used.ops < MaxOps
    /\ used' = [used EXCEPT !.ops = @ + 1]
    /\ Hangup
    /\ UNCHANGED op

-----------------------------------------------------------------------------
(* What a line means to the operation that reads it; rest is what stays in *)
(* the buffer.  A refused setup command drops the transport (SetupFails).  *)

SetupFails(line) == op.name = "setup" /\ line[1] # "OK"

\* A CONNECT that ends without its CONNECTED leaves the modem with an attempt
\* nobody waits for; the DISCONNECTED of a DISCONNECT sent after it settles that.
ClearAfter(line) ==
    CASE op.name = "connect" -> FALSE
      [] op.name = "close"   -> tr.clear \/ line = <<"DISCONNECTED", tr.last>>
      [] OTHER               -> tr.clear

Took(line, rest) ==
    CASE op.name = "setup" /\ line[1] = "OK" ->
           \* the last one: the manager is installed and told to open the session
           /\ tr' = [tr EXCEPT !.buf = rest, !.last = @ + 1, !.ready = op.left = 1]
           /\ Send("SET")
           /\ op' = [op EXCEPT !.age = 0, !.left = @ - 1,
                               !.name = IF op.left = 1 THEN "mycall" ELSE "setup"]
      [] op.name = "mycall" /\ line[1] = "OK" ->
           /\ tr' = [tr EXCEPT !.buf = rest, !.last = @ + 1, !.own = tr.last + 1] /\ Send("CONNECT")
           /\ op' = [op EXCEPT !.name = "connect", !.age = 0]
      [] op.name = "connect" /\ line[1] = "CONNECTED" ->
           /\ tr' = [tr EXCEPT !.buf = rest, !.link = line[2]] /\ UNCHANGED cmds
           /\ End("Ok")
      [] op.name = "connect" /\ line[1] \in {"PENDING", "UNKNOWN"} ->
           /\ tr' = [tr EXCEPT !.buf = rest] /\ UNCHANGED <<cmds, op>>
      [] op.name = "close" /\ line[1] # "DISCONNECTED" /\ op.left > 1 ->
           /\ tr' = [tr EXCEPT !.buf = rest] /\ UNCHANGED cmds
           /\ op' = [op EXCEPT !.left = @ - 1]
      [] op.name = "recv" /\ line[1] # "DISCONNECTED" ->
           /\ tr' = [tr EXCEPT !.buf = rest] /\ UNCHANGED <<cmds, op>>
      [] OTHER ->   \* await_ok and CONNECT fail, close is done, recv reports the end
           /\ tr' = [tr EXCEPT !.buf = rest, !.clear = ClearAfter(line)] /\ UNCHANGED cmds
           /\ End(IF op.name \in {"close", "recv"} THEN "Ok" ELSE "Error")

Wait == CASE op.name = "connect" -> ConnectWait
          [] op.name = "close"   -> CloseWait
          [] op.name = "recv"    -> RecvWait
          [] OTHER               -> OkWait

Commanding == {"setup", "mycall", "connect", "close"}

\* read_cmd_line: a line of the buffer is returned whatever the time is.
BufferedLine ==
    /\ op.name \in Commanding /\ tr.buf # <<>>
    /\ IF SetupFails(Head(tr.buf))
       THEN Hangup /\ End("Error")
       ELSE Took(Head(tr.buf), Tail(tr.buf)) /\ UNCHANGED <<wire, bytes, modem>>
    /\ UNCHANGED used

\* What has arrived is added to the buffer; a poll may have passed.
ReadCommands ==
    /\ op.name \in Commanding /\ tr.buf = <<>> /\ op.age < Wait
    /\ \E k \in 1 .. Len(wire) :
         /\ tr' = [tr EXCEPT !.buf = SubSeq(wire, 1, k)]
         /\ wire' = SubSeq(wire, k + 1, Len(wire))
    /\ \E polls \in 0 .. 1 : op' = [op EXCEPT !.age = @ + polls]
    /\ UNCHANGED <<cmds, bytes, modem, used>>

\* Defect: nothing came within the poll, and open_session sends its CONNECT again.
CommandTimesOutResends ==
    /\ op.name \in Commanding /\ tr.buf = <<>>
    /\ op.age >= Wait \/ wire = <<>>
    /\ IF op.name = "connect" /\ op.age < Wait
       THEN /\ op' = [op EXCEPT !.age = @ + 1]
            /\ tr' = [tr EXCEPT !.last = @ + 1, !.own = tr.last + 1] /\ Send("CONNECT")
            /\ UNCHANGED <<wire, bytes, modem>>
       ELSE /\ End(IF op.name = "close" THEN "Ok" ELSE "Timeout")
            /\ IF op.name = "setup" THEN Hangup
               ELSE /\ tr' = [tr EXCEPT !.clear = @ /\ op.name # "connect"]
                    /\ UNCHANGED <<cmds, wire, bytes, modem>>
    /\ UNCHANGED used

\* The deadline has passed, or nothing came within the poll: close_session
\* takes it for done, the others fail.
CommandTimesOut ==
    /\ op.name \in Commanding /\ tr.buf = <<>>
    /\ op.age >= Wait \/ wire = <<>>
    /\ End(IF op.name = "close" THEN "Ok" ELSE "Timeout")
    /\ IF op.name = "setup" THEN Hangup
       ELSE /\ tr' = [tr EXCEPT !.clear = @ /\ op.name # "connect"]
            /\ UNCHANGED <<cmds, wire, bytes, modem>>
    /\ UNCHANGED used

\* The modem closes its sockets.
ModemCloses ==
    /\ tr.up /\ used.chatter < MaxChatter
    /\ used' = [used EXCEPT !.chatter = @ + 1]
    /\ Hangup
    /\ IF op.name = "idle" THEN UNCHANGED op ELSE End("Error")

RecvData ==
    /\ op.name = "recv" /\ op.age < Wait /\ bytes > 0
    /\ bytes' = bytes - 1
    /\ End("Ok")
    /\ UNCHANGED <<tr, cmds, wire, modem, used>>

\* The command socket is readable: one line, of the buffer if it has one.
RecvLine ==
    /\ op.name = "recv" /\ op.age < Wait /\ wire # <<>>
    /\ \/ /\ tr.buf # <<>> /\ Took(Head(tr.buf), Tail(tr.buf))
          /\ UNCHANGED wire
       \/ /\ tr.buf = <<>>
          /\ \E k \in 1 .. Len(wire) :
               /\ Took(wire[1], SubSeq(wire, 2, k))
               /\ wire' = SubSeq(wire, k + 1, Len(wire))
    /\ UNCHANGED <<bytes, modem, used>>

\* Defect: silence is waited out, however long.
RecvWaitsOn ==
    /\ op.name = "recv" /\ op.age < Wait
    /\ bytes = 0 /\ wire = <<>>
    /\ UNCHANGED vars

\* Nothing on either socket: the loop goes round until its deadline.
RecvWaits ==
    /\ op.name = "recv"
    /\ \/ op.age < Wait /\ bytes = 0 /\ wire = <<>> /\ op' = [op EXCEPT !.age = @ + 1]
       \/ op.age >= Wait /\ End("Timeout")
    /\ UNCHANGED <<tr, cmds, wire, bytes, modem, used>>

-----------------------------------------------------------------------------
Operator == VaraConnect \/ OpenSession \/ CloseSession \/ Recv \/ DisconnectModem
Reading  == BufferedLine \/ ReadCommands \/ CommandTimesOut \/ RecvData \/ RecvLine \/ RecvWaits
Modem    == Execute \/ LinkChanges \/ Chatter \/ ModemCloses

Next == Operator \/ Reading \/ Modem

\* FairSpec: the actor's task runs, and its timers fire.
Spec     == Init /\ [][Next]_vars
FairSpec == Spec /\ WF_vars(Reading)

-----------------------------------------------------------------------------
(* Properties.                                                             *)

\* A manager is installed only after the modem has carried out every setup
\* command: no line that was already there is taken for an answer
\* (vara/transport.rs:65-98, proxy.rs:806-838).
SetupConfirmed == tr.ready /\ tr.up => modem.done >= Setups

\* A session is the link of its own CONNECT, although open_session takes any line
\* that says CONNECTED and does not look at its callsigns: over sessions opened and
\* closed one after the other, and also after a CONNECT that was given up while the
\* modem went on with it, once close_session has read the answer to a DISCONNECT
\* sent since (vara/transport.rs:108-172).
OwnConnected == tr.clear /\ tr.link # None => tr.link = tr.own

\* No operation of the transport goes on for ever, whatever the modem says or
\* does not say; the manager's queue moves on (vara/transport.rs:35-63, 151-230).
OperationsEnd == op.name # "idle" ~> op.name = "idle"
=============================================================================
