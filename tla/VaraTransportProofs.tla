------------------------ MODULE VaraTransportProofs ------------------------
(***************************************************************************)
(* The VARA transport, for any deadlines, any number of setup commands,    *)
(* operations and lines of the modem's own.  Line buffer and socket are    *)
(* one queue to the reader: Pending is what an operation may still take.   *)
(***************************************************************************)
EXTENDS VaraTransport, Integers, SequenceTheorems, TLAPS

LEMMA Constants ==
  /\ OkWait \in Nat /\ ConnectWait \in Nat /\ CloseWait \in Nat /\ RecvWait \in Nat
  /\ MaxDrain \in Nat \ {0} /\ Setups \in Nat \ {0}
  /\ MaxOps \in Nat /\ MaxChatter \in Nat /\ None \notin Nat
  BY VaraAssumption

Line    == Kinds \X Nums
Command == {"SET", "CONNECT", "DISCONNECT"} \X Nums

OpType  == [name : Names, age : Nat, left : Nat, end : {None, "Ok", "Timeout", "Error"}]
TrType  == [up : BOOLEAN, buf : Seq(Line), ready : BOOLEAN, own : Nums \cup {None},
            clear : BOOLEAN, last : Nums, link : Nums \cup {None}]
ModemType == [done : Nat, trying : Nums \cup {None}, link : Nums \cup {None}]
UsedType  == [ops : 0 .. MaxOps, chatter : 0 .. MaxChatter]

-----------------------------------------------------------------------------
(* The inductive invariant.                                                *)

\* The lines the client has not looked at yet.
Pending == tr.buf \o wire

\* Commands that the operation in progress has still to send.
Owed == CASE op.name = "setup" -> op.left + 1 [] op.name = "mycall" -> 1 [] OTHER -> 0

CountOK ==
    /\ op.name \in {"setup", "close"} => op.left >= 1
    /\ tr.last + Owed <= (Setups + 2) * used.ops

\* Lines of p that await_ok would take for an answer.
Oks(p) == {i \in DOMAIN p : p[i][1] = "OK"}

\* The setup of a new transport: its command is on its way, or was carried out
\* and answered once, or was refused.
SetupOK ==
    op.name = "setup" =>
        /\ tr.up /\ ~tr.ready
        /\ \/ /\ Len(cmds) = 1 /\ cmds[1][1] = "SET"
              /\ Oks(Pending) = {} /\ modem.done >= Setups - op.left
           \/ /\ cmds = <<>>
              /\ Oks(Pending) = {} /\ modem.done >= Setups - op.left
           \/ /\ cmds = <<>> /\ modem.done >= Setups - op.left + 1
              /\ \A i, j \in Oks(Pending) : i = j

\* No element of the kind, at most one and of that number.
NoneOf(s, kind)   == \A i \in DOMAIN s : s[i][1] # kind
OneOf(s, kind, n) == \A i, j \in DOMAIN s :
                        s[i][1] = kind /\ s[j][1] = kind => i = j /\ s[i][2] = n

\* A CONNECT is on its way, or the modem is trying, or CONNECTED is on its way
\* back: none of these, or one, and for the CONNECT that is waited for.
Still    == /\ NoneOf(cmds, "CONNECT") /\ modem.trying = None /\ NoneOf(Pending, "CONNECTED")
Asking   == /\ OneOf(cmds, "CONNECT", tr.own) /\ modem.trying = None
            /\ NoneOf(Pending, "CONNECTED")
Calling  == /\ NoneOf(cmds, "CONNECT") /\ modem.trying = tr.own /\ NoneOf(Pending, "CONNECTED")
Answered == /\ NoneOf(cmds, "CONNECT") /\ modem.trying = None
            /\ OneOf(Pending, "CONNECTED", tr.own)

ClearOK ==
    tr.up /\ tr.clear =>
        /\ op.name # "connect" => Still
        /\ op.name = "connect" => Asking \/ Calling \/ Answered

\* Commands are numbered in their order, and so are their answers.
Below(s, n)       == \A i \in DOMAIN s : s[i][2] <= n
BelowD(s, n)      == \A i \in DOMAIN s : s[i][1] = "DISCONNECTED" => s[i][2] <= n
NumbersOK         == Below(cmds, tr.last) /\ BelowD(Pending, tr.last)

\* The DISCONNECT number n is the last command; nothing says CONNECTED after its answer.
LastCmd(s, n)     == /\ s # <<>> /\ s[Len(s)] = <<"DISCONNECT", n>>
                     /\ \A i \in 1 .. Len(s) - 1 : s[i] # <<"DISCONNECT", n>>
NoAnswer(s, n)    == \A i \in DOMAIN s : s[i] # <<"DISCONNECTED", n>>
NoneBehind(s, n)  == \A i, j \in DOMAIN s :
                        s[i] = <<"DISCONNECTED", n>> /\ i < j => s[j][1] # "CONNECTED"

Unsettled == LastCmd(cmds, tr.last) /\ NoAnswer(Pending, tr.last)
Settled   == cmds = <<>> /\ modem.trying = None /\ NoneBehind(Pending, tr.last)
CloseOK   == op.name = "close" /\ tr.up => tr.last # 0 /\ (Unsettled \/ Settled)

LinkOK ==
    /\ op.name \in {"setup", "mycall", "connect", "close"} => tr.link = None
    /\ OwnConnected

UpOK == op.name # "idle" => tr.up

Links == ClearOK /\ NumbersOK /\ CloseOK /\ LinkOK /\ UpOK

VaraInv == TypeOK /\ CountOK /\ SetupOK /\ SetupConfirmed /\ Links

-----------------------------------------------------------------------------
(* Sequences.                                                              *)

\* A line that comes in is the last of those pending.
LEMMA Arrives ==
  ASSUME NEW S, NEW b \in Seq(S), NEW w \in Seq(S), NEW x \in S
  PROVE  /\ b \o Append(w, x) = Append(b \o w, x)
         /\ Append(w, x) \in Seq(S)
<1>1. <<x>> \in Seq(S) /\ b \o w \in Seq(S)
  BY ConcatProperties
<1>2. Append(w, x) = w \o <<x>> /\ Append(b \o w, x) = (b \o w) \o <<x>>
  BY <1>1, AppendIsConcat
<1>3. QED
  BY <1>1, <1>2, ConcatAssociative, AppendProperties

\* A read moves lines from the socket to the buffer.
LEMMA Moves ==
  ASSUME NEW S, NEW w \in Seq(S), NEW k \in 1 .. Len(w)
  PROVE  /\ SubSeq(w, 1, k) \in Seq(S) /\ SubSeq(w, k + 1, Len(w)) \in Seq(S)
         /\ SubSeq(w, 1, k) \o SubSeq(w, k + 1, Len(w)) = w
<1>1. Len(w) \in Nat /\ \A i \in 1 .. Len(w) : w[i] \in S
  BY LenProperties, ElementOfSeq
<1>2. SubSeq(w, 1, k) \in Seq(S)
  BY <1>1, SubSeqProperties
<1>3. SubSeq(w, k + 1, Len(w)) \in Seq(S)
  <2>1. \A i \in k + 1 .. Len(w) : w[i] \in S
    BY <1>1
  <2>2. QED
    BY <1>1, <2>1, SubSeqProperties
<1>4. SubSeq(w, 1, k) \o SubSeq(w, k + 1, Len(w)) = SubSeq(w, 1, Len(w))
  BY <1>1, ConcatAdjacentSubSeq
<1>5. QED
  BY <1>2, <1>3, <1>4, SubSeqFull

\* A line taken from the buffer is the first of those pending.
LEMMA Taken ==
  ASSUME NEW S, NEW b \in Seq(S), NEW w \in Seq(S), b # <<>>
  PROVE  /\ b \o w \in Seq(S) /\ b \o w # <<>> /\ Head(b \o w) = Head(b)
         /\ Tail(b) \in Seq(S) /\ Tail(b) \o w = Tail(b \o w)
<1>1. Len(b) \in Nat \ {0} /\ Len(w) \in Nat
  BY EmptySeq, LenProperties
<1>2. /\ b \o w \in Seq(S) /\ Len(b \o w) = Len(b) + Len(w)
      /\ \A i \in 1 .. Len(b) + Len(w) :
           (b \o w)[i] = IF i <= Len(b) THEN b[i] ELSE w[i - Len(b)]
  BY ConcatProperties
<1>3. b \o w # <<>>
  BY <1>1, <1>2, EmptySeq
<1>4. /\ Tail(b) \in Seq(S) /\ Len(Tail(b)) = Len(b) - 1
      /\ \A i \in 1 .. Len(Tail(b)) : Tail(b)[i] = b[i + 1]
  BY HeadTailProperties
<1>5. /\ Tail(b \o w) \in Seq(S) /\ Len(Tail(b \o w)) = Len(b) + Len(w) - 1
      /\ \A i \in 1 .. Len(Tail(b \o w)) : Tail(b \o w)[i] = (b \o w)[i + 1]
  BY <1>2, <1>3, HeadTailProperties
<1>6. /\ Tail(b) \o w \in Seq(S) /\ Len(Tail(b) \o w) = Len(b) - 1 + Len(w)
      /\ \A i \in 1 .. Len(b) - 1 + Len(w) :
           (Tail(b) \o w)[i] = IF i <= Len(b) - 1 THEN Tail(b)[i] ELSE w[i - (Len(b) - 1)]
  BY <1>4, ConcatProperties
<1>7. \A i \in 1 .. Len(Tail(b) \o w) : (Tail(b) \o w)[i] = Tail(b \o w)[i]
  BY <1>1, <1>2, <1>4, <1>5, <1>6
<1>8. Tail(b) \o w = Tail(b \o w)
  BY <1>1, <1>5, <1>6, <1>7, SeqEqual
<1>9. Head(b \o w) = Head(b)
  BY <1>1, <1>2
<1>10. QED
  BY <1>2, <1>3, <1>4, <1>8, <1>9

\* The first of several lines that come with one read.
LEMMA FirstTaken ==
  ASSUME NEW S, NEW w \in Seq(S), NEW k \in 1 .. Len(w)
  PROVE  /\ SubSeq(w, 2, k) \in Seq(S) /\ SubSeq(w, k + 1, Len(w)) \in Seq(S)
         /\ w # <<>> /\ w[1] = Head(w)
         /\ SubSeq(w, 2, k) \o SubSeq(w, k + 1, Len(w)) = Tail(w)
<1>1. Len(w) \in Nat \ {0} /\ \A i \in 1 .. Len(w) : w[i] \in S
  BY LenProperties, ElementOfSeq
<1>2. SubSeq(w, 2, k) \in Seq(S)
  <2>1. \A i \in 2 .. k : w[i] \in S
    BY <1>1
  <2>2. QED
    BY <1>1, <2>1, SubSeqProperties
<1>3. SubSeq(w, 2, k) \o SubSeq(w, k + 1, Len(w)) = SubSeq(w, 2, Len(w))
  <2>1. 2 \in 1 .. Len(w) + 1 /\ k \in 2 - 1 .. Len(w) /\ Len(w) \in k .. Len(w)
    BY <1>1
  <2>2. QED
    BY <2>1, ConcatAdjacentSubSeq
<1>4. w # <<>>
  BY <1>1
<1>5. Tail(w) = SubSeq(w, 2, Len(w))
  BY <1>4, TailIsSubSeq
<1>6. w[1] = Head(w)
  BY <1>1, <1>4
<1>7. QED
  BY <1>2, <1>3, <1>4, <1>5, <1>6, Moves

\* Elements of a queue that has lost its first or gained a last.
LEMMA TailElements ==
  ASSUME NEW S, NEW p \in Seq(S), p # <<>>
  PROVE  /\ DOMAIN Tail(p) = 1 .. Len(p) - 1 /\ Len(p) \in Nat \ {0} /\ Head(p) = p[1]
         /\ \A i \in DOMAIN Tail(p) : i + 1 \in DOMAIN p /\ Tail(p)[i] = p[i + 1]
  BY HeadTailProperties, LenProperties, EmptySeq

LEMMA AppendElements ==
  ASSUME NEW S, NEW p \in Seq(S), NEW x \in S
  PROVE  /\ DOMAIN Append(p, x) = 1 .. Len(p) + 1 /\ Len(p) \in Nat /\ DOMAIN p = 1 .. Len(p)
         /\ \A i \in DOMAIN p : Append(p, x)[i] = p[i]
         /\ Append(p, x)[Len(p) + 1] = x
  BY AppendProperties, LenProperties

-----------------------------------------------------------------------------
(* What reading a line does, by the operation that reads.                  *)

LEMMA TypeParts ==
  ASSUME TypeOK
  PROVE  /\ op \in OpType /\ tr \in TrType /\ cmds \in Seq(Command) /\ wire \in Seq(Line)
         /\ bytes \in Nat /\ modem \in ModemType /\ used \in UsedType
         /\ tr.buf \in Seq(Line) /\ Pending \in Seq(Line)
<1>1. /\ op \in OpType /\ tr \in TrType /\ cmds \in Seq(Command) /\ wire \in Seq(Line)
      /\ bytes \in Nat /\ modem \in ModemType /\ used \in UsedType
  BY DEF TypeOK, OpType, TrType, Command, Line, ModemType, UsedType
<1>2. tr.buf \in Seq(Line)
  BY <1>1 DEF TrType
<1>3. QED
  BY <1>1, <1>2, ConcatProperties DEF Pending

TookSetup(rest) ==
    /\ op.name = "setup"
    /\ tr' = [tr EXCEPT !.buf = rest, !.last = @ + 1, !.ready = op.left = 1]
    /\ cmds' = Append(cmds, <<"SET", tr.last + 1>>)
    /\ op' = [op EXCEPT !.age = 0, !.left = @ - 1,
                        !.name = IF op.left = 1 THEN "mycall" ELSE "setup"]

TookMycall(rest) ==
    /\ op.name = "mycall"
    /\ tr' = [tr EXCEPT !.buf = rest, !.last = @ + 1, !.own = tr.last + 1]
    /\ cmds' = Append(cmds, <<"CONNECT", tr.last + 1>>)
    /\ op' = [op EXCEPT !.name = "connect", !.age = 0]

TookConnected(line, rest) ==
    /\ op.name = "connect" /\ line[1] = "CONNECTED"
    /\ tr' = [tr EXCEPT !.buf = rest, !.link = line[2]] /\ UNCHANGED cmds
    /\ End("Ok")

\* A line that is skipped, and one that ends the operation.
TookOther(line, rest) ==
    /\ op.name \notin {"setup"} /\ UNCHANGED cmds
    /\ \/ tr' = [tr EXCEPT !.buf = rest] /\ UNCHANGED op
       \/ /\ tr' = [tr EXCEPT !.buf = rest]
          /\ op.name = "close" /\ op.left > 1 /\ op' = [op EXCEPT !.left = @ - 1]
       \/ /\ tr' = [tr EXCEPT !.buf = rest, !.clear = ClearAfter(line)]
          /\ \E how \in {"Ok", "Error"} : End(how)

LEMMA ClearAfterType ==
  ASSUME tr \in TrType, NEW line
  PROVE  ClearAfter(line) \in BOOLEAN
<1>1. tr.clear \in BOOLEAN
  BY DEF TrType
<1>2. QED
  BY <1>1 DEF ClearAfter

LEMMA TookCases ==
  ASSUME NEW line, NEW rest, Took(line, rest), ~SetupFails(line), op \in OpType
  PROVE  \/ TookSetup(rest) /\ line[1] = "OK"
         \/ TookMycall(rest)
         \/ TookConnected(line, rest)
         \/ TookOther(line, rest)
<1> USE DEF TookSetup, TookMycall, TookConnected, TookOther, SetupFails, Send
<1>1. CASE op.name = "setup"
  BY <1>1 DEF Took
<1>2. CASE op.name = "mycall"
  BY <1>2 DEF Took
<1>3. CASE op.name = "connect"
  BY <1>3 DEF Took
<1>4. CASE op.name = "close"
  BY <1>4 DEF Took
<1>5. CASE op.name = "recv"
  BY <1>5 DEF Took
<1>6. CASE op.name = "idle"
  BY <1>6 DEF Took
<1>7. QED
  BY <1>1, <1>2, <1>3, <1>4, <1>5, <1>6 DEF OpType, Names

\* An operation that goes on keeps its name.
LEMMA OtherName ==
  ASSUME op \in OpType, NEW line, NEW rest, TookOther(line, rest)
  PROVE  op'.name \in {op.name, "idle"}
<1>1. CASE op' = op
  BY <1>1
<1>2. CASE op' = [op EXCEPT !.left = @ - 1]
  BY <1>2 DEF OpType
<1>3. CASE \E how \in {"Ok", "Error"} : End(how)
  BY <1>3 DEF End
<1>4. QED
  BY <1>1, <1>2, <1>3 DEF TookOther

LEMMA OtherTr ==
  ASSUME op \in OpType, tr \in TrType, NEW line, NEW rest \in Seq(Line), TookOther(line, rest)
  PROVE  /\ tr'.ready = tr.ready /\ tr'.up = tr.up /\ tr'.own = tr.own /\ tr'.last = tr.last
         /\ tr'.link = tr.link /\ cmds' = cmds
         /\ \/ tr'.clear = tr.clear /\ op'.name = op.name
            \/ tr'.clear = ClearAfter(line) /\ op'.name = "idle"
<1>1. PICK c \in BOOLEAN : c = ClearAfter(line)
  BY ClearAfterType
<1>2. CASE tr' = [tr EXCEPT !.buf = rest] /\ op'.name = op.name
  BY <1>2 DEF TookOther, TrType
<1>3. CASE tr' = [tr EXCEPT !.buf = rest, !.clear = c] /\ op'.name = "idle"
  BY <1>1, <1>3 DEF TookOther, TrType
<1>4. op' = [op EXCEPT !.left = @ - 1] => op'.name = op.name
  BY DEF OpType
<1>5. \A how : End(how) => op'.name = "idle"
  BY DEF End
<1>6. QED
  BY <1>1, <1>2, <1>3, <1>4, <1>5 DEF TookOther

\* A line is taken from the front of what is pending.
TookLine ==
    /\ Pending # <<>> /\ ~SetupFails(Head(Pending))
    /\ \E rest \in Seq(Line) :
         \/ TookSetup(rest) /\ Head(Pending)[1] = "OK"
         \/ TookMycall(rest)
         \/ TookConnected(Head(Pending), rest)
         \/ TookOther(Head(Pending), rest)
    /\ wire' \in Seq(Line) /\ Pending' = Tail(Pending)
    /\ UNCHANGED <<bytes, modem, used>>

\* tr'.buf after a line was taken.
LEMMA TookRest ==
  ASSUME tr \in TrType, NEW line, NEW rest,
         \/ TookSetup(rest) \/ TookMycall(rest) \/ TookConnected(line, rest) \/ TookOther(line, rest)
  PROVE  tr'.buf = rest
  BY DEF TookSetup, TookMycall, TookConnected, TookOther, TrType

LEMMA LineTaken ==
  ASSUME TypeOK, \/ BufferedLine /\ ~SetupFails(Head(tr.buf))
                 \/ RecvLine
  PROVE  TookLine
<1>0. /\ op \in OpType /\ tr \in TrType /\ wire \in Seq(Line) /\ tr.buf \in Seq(Line)
  BY TypeParts
<1>1. CASE /\ tr.buf # <<>> /\ Took(Head(tr.buf), Tail(tr.buf)) /\ ~SetupFails(Head(tr.buf))
           /\ UNCHANGED <<wire, bytes, modem, used>>
  <2>1. /\ Pending # <<>> /\ Head(Pending) = Head(tr.buf)
        /\ Tail(tr.buf) \in Seq(Line) /\ Tail(tr.buf) \o wire = Tail(Pending)
    BY <1>0, <1>1, Taken DEF Pending
  <2>2. \/ TookSetup(Tail(tr.buf)) /\ Head(Pending)[1] = "OK"
        \/ TookMycall(Tail(tr.buf))
        \/ TookConnected(Head(Pending), Tail(tr.buf))
        \/ TookOther(Head(Pending), Tail(tr.buf))
    BY <1>0, <1>1, <2>1, TookCases
  <2>3. tr'.buf = Tail(tr.buf)
    BY <1>0, <2>2, TookRest
  <2>4. Pending' = Tail(Pending)
    BY <1>1, <2>1, <2>3 DEF Pending
  <2>5. QED
    BY <1>0, <1>1, <2>1, <2>2, <2>4 DEF TookLine
<1>2. ASSUME tr.buf = <<>>, NEW k \in 1 .. Len(wire), Took(wire[1], SubSeq(wire, 2, k)),
             wire' = SubSeq(wire, k + 1, Len(wire)), UNCHANGED <<bytes, modem, used>>,
             op.name = "recv"
      PROVE  TookLine
  <2>1. /\ SubSeq(wire, 2, k) \in Seq(Line) /\ SubSeq(wire, k + 1, Len(wire)) \in Seq(Line)
        /\ wire # <<>> /\ wire[1] = Head(wire)
        /\ SubSeq(wire, 2, k) \o SubSeq(wire, k + 1, Len(wire)) = Tail(wire)
    BY <1>0, FirstTaken
  <2>2. Pending = wire
    BY <1>0, <1>2, ConcatEmptySeq DEF Pending
  <2>3. ~SetupFails(Head(Pending))
    BY <1>2 DEF SetupFails
  <2> DEFINE rest == SubSeq(wire, 2, k)
  <2>4. \/ TookSetup(rest) /\ Head(Pending)[1] = "OK"
        \/ TookMycall(rest)
        \/ TookConnected(Head(Pending), rest)
        \/ TookOther(Head(Pending), rest)
    BY <1>0, <1>2, <2>1, <2>2, <2>3, TookCases
  <2>5. tr'.buf = rest
    BY <1>0, <2>4, TookRest
  <2>6. Pending' = Tail(Pending)
    BY <1>2, <2>1, <2>2, <2>5 DEF Pending
  <2> HIDE DEF rest
  <2>7. rest \in Seq(Line) /\ wire' \in Seq(Line)
    BY <1>2, <2>1 DEF rest
  <2>8. QED
    BY <1>2, <2>1, <2>2, <2>3, <2>4, <2>6, <2>7 DEF TookLine
<1>3. QED
  BY <1>1, <1>2 DEF BufferedLine, RecvLine, SetupFails

\* A read adds to the buffer what was on the socket.
LEMMA LinesRead ==
  ASSUME TypeOK, ReadCommands
  PROVE  /\ Pending' = Pending /\ wire' \in Seq(Line)
         /\ \E b \in Seq(Line) : tr' = [tr EXCEPT !.buf = b]
<1>0. tr \in TrType /\ wire \in Seq(Line)
  BY TypeParts
<1>1. PICK k \in 1 .. Len(wire) :
        /\ tr' = [tr EXCEPT !.buf = SubSeq(wire, 1, k)]
        /\ wire' = SubSeq(wire, k + 1, Len(wire))
  BY DEF ReadCommands
<1>2. /\ SubSeq(wire, 1, k) \in Seq(Line) /\ SubSeq(wire, k + 1, Len(wire)) \in Seq(Line)
      /\ SubSeq(wire, 1, k) \o SubSeq(wire, k + 1, Len(wire)) = wire
  BY <1>0, Moves
<1>3. tr'.buf = SubSeq(wire, 1, k)
  BY <1>0, <1>1 DEF TrType
<1>4. Pending = wire
  BY <1>0, ConcatEmptySeq DEF Pending, ReadCommands
<1>5. Pending' = wire
  BY <1>1, <1>2, <1>3 DEF Pending
<1>6. QED
  BY <1>1, <1>2, <1>4, <1>5

\* A line of the modem's is the last of those pending.
LEMMA LineSaid ==
  ASSUME TypeOK, UNCHANGED tr, NEW line \in Line, Says(line)
  PROVE  wire' \in Seq(Line) /\ Pending' = Append(Pending, line)
<1>1. tr.buf \in Seq(Line) /\ wire \in Seq(Line)
  BY TypeParts
<1>2. Append(wire, line) \in Seq(Line) /\ tr.buf \o Append(wire, line) = Append(tr.buf \o wire, line)
  <2>1. \A b, w \in Seq(Line) : /\ Append(w, line) \in Seq(Line)
                               /\ b \o Append(w, line) = Append(b \o w, line)
    BY Arrives
  <2>2. QED
    BY <1>1, <2>1
<1>3. wire' = Append(wire, line) /\ tr'.buf = tr.buf
  BY DEF Says
<1>4. QED
  BY <1>2, <1>3 DEF Pending

\* After a hangup nothing is on its way.
LEMMA HungUp ==
  ASSUME TypeOK, Hangup
  PROVE  /\ tr' \in TrType /\ ~tr'.up /\ tr'.link = None /\ Pending' = <<>>
         /\ tr'.last = tr.last /\ cmds' = <<>> /\ bytes' = 0 /\ wire' = <<>> /\ modem' = modem
<1>1. tr \in TrType
  BY TypeParts
<1>2. <<>> \in Seq(Line) /\ <<>> \o <<>> = <<>>
  BY EmptySeq, ConcatEmptySeq
<1>3. tr'.buf = <<>>
  BY <1>1 DEF Hangup, TrType
<1>4. QED
  BY <1>1, <1>2, <1>3 DEF Hangup, TrType, Pending

-----------------------------------------------------------------------------
(* Types: the number of commands is bounded by the operations.             *)

LEMMA Count ==
  ASSUME NEW n \in 0 .. MaxOps
  PROVE  /\ (Setups + 2) * n \in Nat /\ (Setups + 2) * n <= (Setups + 2) * MaxOps
         /\ (Setups + 2) * MaxOps \in Nat
         /\ (Setups + 2) * (n + 1) = (Setups + 2) * n + Setups + 2
<1>1. PICK s \in Nat : s = Setups + 2
  BY Constants
<1>2. PICK d \in Nat : MaxOps = n + d
  <2>1. MaxOps - n \in Nat
    BY Constants
  <2>2. QED
    BY <2>1, Constants
<1>3. s * MaxOps = s * n + s * d /\ s * n \in Nat /\ s * d \in Nat /\ s * (n + 1) = s * n + s
  BY <1>2, Constants
<1>4. QED
  BY <1>1, <1>3, Constants

LeftOK ==
    /\ op.name = "setup" => op.left \in 1 .. Setups
    /\ op.name = "close" => op.left \in 1 .. MaxDrain
    /\ op.name \notin {"setup", "close"} => op.left = 0

TypeInv == TypeOK /\ CountOK

LEMMA TypeInvParts ==
  ASSUME TypeInv
  PROVE  /\ LeftOK /\ used.ops \in 0 .. MaxOps /\ tr.last \in Nat /\ Owed \in Nat
         /\ tr.last + Owed <= (Setups + 2) * used.ops
         /\ tr.last + Owed \in Nums
<1>1. op \in OpType /\ tr \in TrType /\ used \in UsedType
  BY TypeParts DEF TypeInv
<1>2. LeftOK
  <2>1. op.left <= CASE op.name = "setup" -> Setups [] op.name = "close" -> MaxDrain [] OTHER -> 0
    BY DEF TypeInv, TypeOK
  <2>2. op.name \in {"setup", "close"} => op.left >= 1
    BY DEF TypeInv, CountOK
  <2>3. QED
    BY <1>1, <2>1, <2>2, Constants DEF LeftOK, OpType
<1>3. used.ops \in 0 .. MaxOps /\ tr.last \in Nat
  BY <1>1, Constants DEF TrType, UsedType, Nums
<1>4. Owed \in Nat
  BY <1>1, Constants DEF Owed, OpType
<1>5. tr.last + Owed <= (Setups + 2) * used.ops
  BY DEF TypeInv, CountOK
<1>6. tr.last + Owed \in Nums
  <2>1. tr.last + Owed <= (Setups + 2) * MaxOps
    <3>1. PICK a \in Nat, b \in Nat : a = (Setups + 2) * used.ops /\ b = (Setups + 2) * MaxOps
      BY <1>3, Count
    <3>2. a <= b /\ tr.last + Owed <= a
      BY <1>3, <1>5, <3>1, Count
    <3>3. QED
      BY <1>3, <1>4, <3>1, <3>2
  <2>2. QED
    BY <1>3, <1>4, <2>1, Constants, Count DEF Nums
<1>7. QED
  BY <1>2, <1>3, <1>4, <1>5, <1>6

\* The parts of the next state put together.
LEMMA Parts ==
  ASSUME op' \in OpType, LeftOK', tr' \in TrType, cmds' \in Seq(Command), wire' \in Seq(Line),
         bytes' \in Nat, modem' \in ModemType, used' \in UsedType,
         (tr.last + Owed <= (Setups + 2) * used.ops)'
  PROVE  TypeInv'
<1>1. (op.left <= CASE op.name = "setup" -> Setups [] op.name = "close" -> MaxDrain [] OTHER -> 0)'
  BY Constants DEF LeftOK, OpType
<1>2. TypeOK'
  BY <1>1 DEF TypeOK, OpType, TrType, Command, Line, ModemType, UsedType
<1>3. QED
  BY <1>2 DEF TypeInv, CountOK, LeftOK, OpType

\* A step that begins no operation and sends no command.
LEMMA Quiet ==
  ASSUME TypeInv, op' \in OpType, LeftOK', Owed' <= Owed, Owed' \in Nat,
         tr' \in TrType, tr'.last = tr.last, used' \in UsedType, used'.ops = used.ops,
         cmds' \in Seq(Command), wire' \in Seq(Line), bytes' \in Nat, modem' \in ModemType
  PROVE  TypeInv'
<1>1. /\ used.ops \in 0 .. MaxOps /\ tr.last \in Nat /\ Owed \in Nat
      /\ tr.last + Owed <= (Setups + 2) * used.ops
  BY TypeInvParts
<1>2. PICK a \in Nat : a = (Setups + 2) * used.ops
  BY <1>1, Count
<1>3. tr.last + Owed' <= a
  BY <1>1, <1>2
<1>4. (tr.last + Owed <= (Setups + 2) * used.ops)'
  BY <1>2, <1>3
<1>5. QED
  BY <1>4, Parts

\* An operation that ends owes nothing.
LEMMA Ended ==
  ASSUME NEW how \in {"Ok", "Timeout", "Error"}, End(how)
  PROVE  op' \in OpType /\ LeftOK' /\ Owed' = 0 /\ op'.name = "idle"
  BY DEF End, OpType, Names, LeftOK, Owed

\* An operation that begins.
LEMMA Begun ==
  ASSUME TypeInv, NEW name \in Names, NEW left \in Nat, Begin(name, left)
  PROVE  /\ op' \in OpType /\ op'.name = name /\ op'.left = left
         /\ used' \in UsedType /\ used'.ops = used.ops + 1
         /\ (Setups + 2) * used'.ops = (Setups + 2) * used.ops + Setups + 2
         /\ (Setups + 2) * used.ops \in Nat
<1>1. used \in UsedType /\ used.ops \in 0 .. MaxOps
  BY TypeParts, TypeInvParts DEF TypeInv
<1>2. used' \in UsedType /\ used'.ops = used.ops + 1
  BY <1>1, Constants DEF Begin, UsedType
<1>3. QED
  BY <1>1, <1>2, Count DEF Begin, OpType

\* Numbers below one that is in range are in range.
LEMMA InRange ==
  ASSUME NEW n \in 0 .. MaxOps, NEW m \in Nat, m <= (Setups + 2) * n
  PROVE  m \in Nums
<1>1. PICK a \in Nat, b \in Nat : a = (Setups + 2) * n /\ b = (Setups + 2) * MaxOps
  BY Count
<1>2. a <= b
  BY <1>1, Count
<1>3. QED
  BY <1>1, <1>2 DEF Nums

LEMMA Numbered ==
  ASSUME NEW n \in Nums, NEW kind \in {"SET", "CONNECT", "DISCONNECT"}, NEW s \in Seq(Command)
  PROVE  Append(s, <<kind, n>>) \in Seq(Command)
<1>1. <<kind, n>> \in Command
  BY DEF Command
<1>2. QED
  BY <1>1, AppendProperties

LEMMA NewTypes ==
  /\ NewTransport \in TrType
  /\ <<>> \in Seq(Command) /\ <<>> \in Seq(Line) /\ 0 \in Nums
<1>1. 0 \in Nums
  BY Constants, Count DEF Nums
<1>2. <<>> \in Seq(Command) /\ <<>> \in Seq(Line)
  BY EmptySeq
<1>3. QED
  BY <1>1, <1>2 DEF NewTransport, TrType

\* Operations begin.
LEMMA OperatorTypes ==
  ASSUME TypeInv, Operator
  PROVE  TypeInv'
<1>0. /\ op \in OpType /\ tr \in TrType /\ cmds \in Seq(Command) /\ wire \in Seq(Line)
      /\ bytes \in Nat /\ modem \in ModemType /\ used \in UsedType
  BY TypeParts DEF TypeInv
<1>1. /\ used.ops \in 0 .. MaxOps /\ tr.last \in Nat /\ Owed \in Nat
      /\ tr.last + Owed <= (Setups + 2) * used.ops
  BY TypeInvParts
<1>2. PICK a \in Nat : a = (Setups + 2) * used.ops
  BY <1>1, Count
<1>3. \A m \in Nat : m <= a + Setups + 2 /\ used'.ops = used.ops + 1 /\ used' \in UsedType => m \in Nums
  <2> SUFFICES ASSUME NEW m \in Nat, m <= a + Setups + 2,
                      used'.ops = used.ops + 1, used' \in UsedType
               PROVE  m \in Nums
    OBVIOUS
  <2>1. used.ops + 1 \in 0 .. MaxOps /\ (Setups + 2) * (used.ops + 1) = a + Setups + 2
    BY <1>1, <1>2, Count DEF UsedType
  <2>2. QED
    BY <2>1, InRange
<1>4. CASE VaraConnect
  <2>1. Begin("setup", Setups)
    BY <1>4 DEF VaraConnect
  <2>2. /\ op' \in OpType /\ op'.name = "setup" /\ op'.left = Setups
        /\ used' \in UsedType /\ used'.ops = used.ops + 1
        /\ (Setups + 2) * used'.ops = a + Setups + 2
    BY <1>2, <2>1, Begun, Constants DEF Names
  <2>3. LeftOK' /\ Owed' = Setups + 1
    BY <2>2, Constants DEF LeftOK, Owed
  <2>4. 1 \in Nums
    BY <1>2, <1>3, <2>2, Constants
  <2>5. tr' \in TrType /\ tr'.last = 1
    <3>1. PICK c \in BOOLEAN : c = (modem.trying = None)
      OBVIOUS
    <3>2. tr' = [NewTransport EXCEPT !.up = TRUE, !.last = 1, !.clear = c]
      BY <1>4, <3>1 DEF VaraConnect
    <3>3. QED
      BY <2>4, <3>2, NewTypes DEF TrType, NewTransport
  <2>6. cmds' \in Seq(Command)
    <3>1. <<"SET", 1>> \in Command
      BY <2>4 DEF Command
    <3>2. QED
      BY <1>4, <3>1 DEF VaraConnect
  <2>7. (tr.last + Owed <= (Setups + 2) * used.ops)'
    BY <1>2, <2>2, <2>3, <2>5, Constants
  <2>8. wire' = <<>> /\ bytes' = 0 /\ modem' = modem
    BY <1>4 DEF VaraConnect
  <2>9. QED
    BY <1>0, <2>2, <2>3, <2>5, <2>6, <2>7, <2>8, NewTypes, Parts
<1>5. ASSUME NEW name \in {"mycall", "close"}, NEW kind \in {"SET", "DISCONNECT"},
             NEW left \in Nat, name = "close" => left = MaxDrain, name = "mycall" => left = 0,
             Begin(name, left), Send(kind), tr' \in [up : BOOLEAN, buf : Seq(Line),
               ready : BOOLEAN, own : Nums \cup {None}, clear : BOOLEAN, last : Nat,
               link : Nums \cup {None}],
             tr'.last = tr.last + 1, UNCHANGED <<wire, bytes, modem>>
      PROVE  TypeInv'
  <2>1. /\ op' \in OpType /\ op'.name = name /\ op'.left = left
        /\ used' \in UsedType /\ used'.ops = used.ops + 1
        /\ (Setups + 2) * used'.ops = a + Setups + 2
    BY <1>2, <1>5, Begun DEF Names
  <2>2. LeftOK' /\ Owed' \in {0, 1}
    <3>1. CASE name = "mycall"
      <4>1. op'.name = "mycall" /\ op'.left = 0
        BY <1>5, <2>1, <3>1
      <4>2. QED
        BY <4>1 DEF LeftOK, Owed
    <3>2. CASE name = "close"
      <4>1. op'.name = "close" /\ op'.left = MaxDrain
        BY <1>5, <2>1, <3>2
      <4>2. MaxDrain \in 1 .. MaxDrain
        BY Constants
      <4>3. QED
        BY <4>1, <4>2 DEF LeftOK, Owed
    <3>3. QED
      BY <1>5, <3>1, <3>2
  <2>3. tr.last + 1 \in Nums
    BY <1>1, <1>2, <1>3, <2>1, Constants
  <2>4. tr' \in TrType
    BY <1>5, <2>3 DEF TrType
  <2>5. cmds' \in Seq(Command)
    BY <1>0, <1>5, <2>3, Numbered DEF Send
  <2>6. (tr.last + Owed <= (Setups + 2) * used.ops)'
    <3>1. tr'.last = tr.last + 1 /\ tr.last <= a
      BY <1>1, <1>2, <1>5
    <3>2. tr'.last + Owed' <= a + Setups + 2
      BY <1>1, <2>2, <3>1, Constants
    <3>3. QED
      BY <2>1, <3>2
  <2>7. QED
    BY <1>0, <1>5, <2>1, <2>2, <2>4, <2>5, <2>6, Parts
<1>6. CASE OpenSession
  <2>0. PICK n \in Nat : n = tr.last + 1
    BY <1>1
  <2>1. tr' = [tr EXCEPT !.last = n, !.link = None]
    BY <1>6, <2>0 DEF OpenSession
  <2>2. /\ tr'.last = tr.last + 1
        /\ tr' \in [up : BOOLEAN, buf : Seq(Line),
                    ready : BOOLEAN, own : Nums \cup {None}, clear : BOOLEAN, last : Nat,
                    link : Nums \cup {None}]
    BY <1>0, <2>0, <2>1 DEF TrType
  <2>3. Begin("mycall", 0) /\ Send("SET") /\ UNCHANGED <<wire, bytes, modem>>
    BY <1>6 DEF OpenSession
  <2>4. QED
    BY <1>5, <2>2, <2>3
<1>7. CASE CloseSession
  <2>0. PICK n \in Nat : n = tr.last + 1
    BY <1>1
  <2>1. tr' = [tr EXCEPT !.last = n, !.link = None]
    BY <1>7, <2>0 DEF CloseSession
  <2>2. /\ tr'.last = tr.last + 1
        /\ tr' \in [up : BOOLEAN, buf : Seq(Line),
                    ready : BOOLEAN, own : Nums \cup {None}, clear : BOOLEAN, last : Nat,
                    link : Nums \cup {None}]
    BY <1>0, <2>0, <2>1 DEF TrType
  <2>3. Begin("close", MaxDrain) /\ Send("DISCONNECT") /\ UNCHANGED <<wire, bytes, modem>>
    BY <1>7 DEF CloseSession
  <2>4. QED
    BY <1>5, <2>2, <2>3, Constants
<1>8. CASE Recv
  <2>1. Begin("recv", 0) /\ UNCHANGED <<tr, cmds, wire, bytes, modem>>
    BY <1>8 DEF Recv
  <2>2. /\ op' \in OpType /\ op'.name = "recv" /\ op'.left = 0
        /\ used' \in UsedType /\ used'.ops = used.ops + 1
        /\ (Setups + 2) * used'.ops = a + Setups + 2
    BY <1>2, <2>1, Begun DEF Names
  <2>3. LeftOK' /\ Owed' = 0
    BY <2>2 DEF LeftOK, Owed
  <2>4. (tr.last + Owed <= (Setups + 2) * used.ops)'
    BY <1>1, <1>2, <2>1, <2>2, <2>3, Constants
  <2>5. QED
    BY <1>0, <2>1, <2>2, <2>3, <2>4, Parts
<1>9. CASE DisconnectModem
  <2>1. used' \in UsedType /\ used'.ops = used.ops + 1
    <3>1. used' = [used EXCEPT !.ops = @ + 1] /\ used.ops < MaxOps
      BY <1>9 DEF DisconnectModem
    <3>2. used \in UsedType /\ used.ops \in 0 .. MaxOps
      BY <1>0, <1>1
    <3>3. QED
      BY <3>1, <3>2, Constants DEF UsedType
  <2>2. (Setups + 2) * used'.ops = a + Setups + 2
    BY <1>1, <1>2, <2>1, Count
  <2>3. /\ tr' \in TrType /\ tr'.last = tr.last
        /\ cmds' = <<>> /\ bytes' = 0 /\ wire' = <<>> /\ modem' = modem
    BY <1>9, HungUp DEF DisconnectModem, TypeInv
  <2>4. op' = op /\ LeftOK' /\ Owed' = Owed
    BY <1>9, TypeInvParts DEF DisconnectModem, LeftOK, Owed
  <2>5. (tr.last + Owed <= (Setups + 2) * used.ops)'
    BY <1>1, <1>2, <2>1, <2>2, <2>3, <2>4, Constants
  <2>6. QED
    BY <1>0, <2>1, <2>3, <2>4, <2>5, NewTypes, Parts
<1>10. QED
  BY <1>4, <1>6, <1>7, <1>8, <1>9 DEF Operator

\* A line is taken.
LEMMA TookTypes ==
  ASSUME TypeInv, TookLine
  PROVE  TypeInv'
<1>0. /\ op \in OpType /\ tr \in TrType /\ cmds \in Seq(Command)
      /\ bytes \in Nat /\ modem \in ModemType /\ used \in UsedType
      /\ Pending \in Seq(Line)
  BY TypeParts DEF TypeInv
<1>1. /\ LeftOK /\ used.ops \in 0 .. MaxOps /\ tr.last \in Nat /\ Owed \in Nat
      /\ tr.last + Owed <= (Setups + 2) * used.ops
      /\ tr.last + Owed \in Nums
  BY TypeInvParts
<1>2. wire' \in Seq(Line) /\ UNCHANGED <<bytes, modem, used>>
  BY DEF TookLine
<1>3. PICK rest \in Seq(Line) :
         \/ TookSetup(rest)
         \/ TookMycall(rest)
         \/ TookConnected(Head(Pending), rest)
         \/ TookOther(Head(Pending), rest)
  BY DEF TookLine
<1>4. Owed >= 1 => tr.last + 1 \in Nums
  <2>1. Owed >= 1 => tr.last + 1 <= (Setups + 2) * used.ops
    <3>1. PICK a \in Nat : a = (Setups + 2) * used.ops
      BY <1>1, Count
    <3>2. QED
      BY <1>1, <3>1
  <2>2. QED
    BY <1>1, <2>1, InRange
<1>5. ASSUME TookSetup(rest) \/ TookMycall(rest) PROVE TypeInv'
  <2>1. Owed >= 1
    BY <1>1, <1>5 DEF Owed, TookSetup, TookMycall, LeftOK
  <2>2. PICK n \in Nums : n = tr.last + 1
    BY <1>4, <2>1
  <2>3. cmds' \in Seq(Command)
    <3>1. PICK kind \in {"SET", "CONNECT"} : cmds' = Append(cmds, <<kind, n>>)
      BY <1>5, <2>2 DEF TookSetup, TookMycall
    <3>2. Append(cmds, <<kind, n>>) \in Seq(Command)
      BY <1>0, Numbered
    <3>3. QED
      BY <3>1, <3>2
  <2>4. /\ op' \in OpType /\ LeftOK' /\ Owed' = Owed - 1
    <3>1. CASE TookSetup(rest)
      <4>1. op.left \in 1 .. Setups
        BY <1>1, <3>1 DEF LeftOK, TookSetup
      <4>2. PICK l \in Nat : l = op.left - 1
        BY <4>1, Constants
      <4>3. PICK m \in {"mycall", "setup"} : m = IF op.left = 1 THEN "mycall" ELSE "setup"
        OBVIOUS
      <4>4. op' = [op EXCEPT !.age = 0, !.left = l, !.name = m]
        BY <3>1, <4>2, <4>3 DEF TookSetup
      <4>5. op' \in OpType /\ op'.left = l /\ op'.name = m
        BY <1>0, <4>4 DEF OpType, Names
      <4>6. LeftOK'
        BY <4>1, <4>2, <4>3, <4>5, Constants DEF LeftOK
      <4>7. Owed' = l + 1 /\ Owed = op.left + 1 
        BY <3>1, <4>1, <4>2, <4>3, <4>5, Constants DEF Owed, TookSetup
      <4>8. QED
        BY <4>1, <4>2, <4>5, <4>6, <4>7, Constants
    <3>2. CASE TookMycall(rest)
      <4>1. op' = [op EXCEPT !.name = "connect", !.age = 0] /\ op.name = "mycall"
        BY <3>2 DEF TookMycall
      <4>2. op' \in OpType /\ op'.name = "connect" /\ op'.left = op.left
        BY <1>0, <4>1 DEF OpType, Names
      <4>3. op.left = 0 /\ Owed = 1
        BY <1>1, <4>1 DEF LeftOK, Owed
      <4>4. QED
        BY <4>2, <4>3 DEF LeftOK, Owed
    <3>3. QED
      BY <1>5, <3>1, <3>2
  <2>5. tr' \in TrType /\ tr'.last = n
    <3>1. CASE TookSetup(rest)
      <4>1. tr' = [tr EXCEPT !.buf = rest, !.last = n, !.ready = (op.left = 1)]
        BY <2>2, <3>1 DEF TookSetup
      <4>2. QED
        BY <1>0, <4>1 DEF TrType
    <3>2. CASE TookMycall(rest)
      <4>1. tr' = [tr EXCEPT !.buf = rest, !.last = n, !.own = n]
        BY <2>2, <3>2 DEF TookMycall
      <4>2. QED
        BY <1>0, <4>1 DEF TrType
    <3>3. QED
      BY <1>5, <3>1, <3>2
  <2>6. (tr.last + Owed <= (Setups + 2) * used.ops)'
    <3>1. tr'.last + Owed' = tr.last + Owed
      <4>1. PICK b \in Int, c \in Int : b = tr.last /\ c = Owed
        BY <1>1
      <4>2. tr'.last = b + 1 /\ Owed' = c - 1
        BY <2>2, <2>4, <2>5, <4>1
      <4>3. QED
        BY <4>1, <4>2
    <3>2. QED
      BY <1>1, <1>2, <3>1
  <2>7. QED
    BY <1>0, <1>2, <2>3, <2>4, <2>5, <2>6, Parts
<1>6. CASE TookConnected(Head(Pending), rest)
  <2>1. Head(Pending) \in Line
    BY <1>0, HeadTailProperties DEF TookLine
  <2>2. Head(Pending)[2] \in Nums
    BY <2>1 DEF Line
  <2>3. tr' \in TrType /\ tr'.last = tr.last
    BY <1>0, <1>6, <2>2 DEF TookConnected, TrType
  <2>4. op' \in OpType /\ LeftOK' /\ Owed' = 0
    BY <1>6, Ended DEF TookConnected
  <2>5. cmds' = cmds
    BY <1>6 DEF TookConnected
  <2>6. QED
    BY <1>0, <1>1, <1>2, <2>3, <2>4, <2>5, Quiet
<1>7. CASE TookOther(Head(Pending), rest)
  <2>1. tr' \in TrType /\ tr'.last = tr.last /\ cmds' = cmds
    <3>1. PICK c \in BOOLEAN : c = ClearAfter(Head(Pending))
      BY <1>0, ClearAfterType
    <3>2. tr' = [tr EXCEPT !.buf = rest] \/ tr' = [tr EXCEPT !.buf = rest, !.clear = c]
      BY <1>7, <3>1 DEF TookOther
    <3>3. QED
      BY <1>0, <1>7, <3>2 DEF TookOther, TrType
  <2>2. op' \in OpType /\ LeftOK' /\ Owed' \in {0, Owed}
    <3>1. CASE UNCHANGED op
      BY <1>0, <1>1, <3>1 DEF LeftOK, Owed
    <3>2. CASE op.name = "close" /\ op.left > 1 /\ op' = [op EXCEPT !.left = @ - 1]
      <4>1. op.left \in 2 .. MaxDrain
        BY <1>1, <3>2, Constants DEF LeftOK
      <4>2. PICK l \in Nat : l = op.left - 1
        BY <4>1, Constants
      <4>3. op' = [op EXCEPT !.left = l]
        BY <3>2, <4>2
      <4>4. op' \in OpType /\ op'.left = l /\ op'.name = "close"
        BY <1>0, <3>2, <4>3 DEF OpType
      <4>5. l \in 1 .. MaxDrain
        BY <4>1, <4>2, Constants
      <4>6. LeftOK' /\ Owed' = 0 /\ Owed = 0
        BY <3>2, <4>4, <4>5 DEF LeftOK, Owed
      <4>7. QED
        BY <4>4, <4>6
    <3>3. CASE \E how \in {"Ok", "Error"} : End(how)
      BY <3>3, Ended
    <3>4. QED
      BY <1>7, <3>1, <3>2, <3>3 DEF TookOther
  <2>3. QED
    BY <1>0, <1>1, <1>2, <2>1, <2>2, Quiet
<1>8. QED
  BY <1>3, <1>5, <1>6, <1>7

\* An operation that only grows older.
LEMMA OlderOp ==
  ASSUME TypeInv, NEW d \in {0, 1}, op' = [op EXCEPT !.age = @ + d]
  PROVE  op' \in OpType /\ LeftOK' /\ Owed' = Owed /\ op'.name = op.name /\ op'.left = op.left
<1>1. op \in OpType /\ LeftOK
  BY TypeParts, TypeInvParts DEF TypeInv
<1>2. op' \in OpType /\ op'.name = op.name /\ op'.left = op.left
  BY <1>1 DEF OpType
<1>3. QED
  BY <1>1, <1>2 DEF LeftOK, Owed

\* A command that is given up, and what is left of it.
GivenUp ==
    /\ tr' = [tr EXCEPT !.clear = @ /\ op.name # "connect"]
    /\ UNCHANGED <<cmds, wire, bytes, modem>>

LEMMA GivenUpIs ==
  ASSUME tr \in TrType, GivenUp
  PROVE  /\ tr' \in TrType /\ tr'.last = tr.last /\ tr'.up = tr.up /\ tr'.ready = tr.ready
         /\ tr'.buf = tr.buf /\ tr'.own = tr.own /\ tr'.link = tr.link
         /\ tr'.clear = (tr.clear /\ op.name # "connect")
<1>1. PICK c \in BOOLEAN : c = (tr.clear /\ op.name # "connect")
  OBVIOUS
<1>2. tr' = [tr EXCEPT !.clear = c]
  BY <1>1 DEF GivenUp
<1>3. QED
  BY <1>1, <1>2 DEF TrType

LEMMA ReadingTypes ==
  ASSUME TypeInv, Reading
  PROVE  TypeInv'
<1>0. /\ op \in OpType /\ tr \in TrType /\ cmds \in Seq(Command) /\ wire \in Seq(Line)
      /\ bytes \in Nat /\ modem \in ModemType /\ used \in UsedType
  BY TypeParts DEF TypeInv
<1>1. LeftOK /\ Owed \in Nat /\ used.ops \in 0 .. MaxOps
  BY TypeInvParts
<1>h. ASSUME Hangup, NEW how \in {"Ok", "Timeout", "Error"}, End(how), UNCHANGED used
      PROVE  TypeInv'
  <2>1. op' \in OpType /\ LeftOK' /\ Owed' = 0
    BY <1>h, Ended
  <2>2. /\ tr' \in TrType /\ tr'.last = tr.last
        /\ cmds' = <<>> /\ bytes' = 0 /\ wire' = <<>> /\ modem' = modem
    BY <1>h, HungUp DEF TypeInv
  <2>3. QED
    BY <1>0, <1>1, <1>h, <2>1, <2>2, NewTypes, Quiet
<1>2. CASE BufferedLine
  <2>1. CASE SetupFails(Head(tr.buf))
    BY <1>2, <1>h, <2>1 DEF BufferedLine
  <2>2. CASE ~SetupFails(Head(tr.buf))
    BY <1>2, <2>2, LineTaken, TookTypes DEF TypeInv
  <2>3. QED
    BY <2>1, <2>2
<1>3. CASE ReadCommands
  <2>1. wire' \in Seq(Line)
    BY <1>3, LinesRead DEF TypeInv
  <2>2. PICK b \in Seq(Line) : tr' = [tr EXCEPT !.buf = b]
    BY <1>3, LinesRead DEF TypeInv
  <2>3. tr' \in TrType /\ tr'.last = tr.last
    BY <1>0, <2>2 DEF TrType
  <2>4. op' \in OpType /\ LeftOK' /\ Owed' = Owed
    <3>1. PICK d \in {0, 1} : op' = [op EXCEPT !.age = @ + d]
      BY <1>3 DEF ReadCommands
    <3>2. QED
      BY <3>1, OlderOp
  <2>5. UNCHANGED <<cmds, bytes, modem, used>>
    BY <1>3 DEF ReadCommands
  <2>6. QED
    BY <1>0, <1>1, <2>1, <2>3, <2>4, <2>5, Quiet
<1>4. CASE CommandTimesOut
  <2>1. PICK how \in {"Ok", "Timeout"} : End(how)
    BY <1>4 DEF CommandTimesOut
  <2>2. CASE Hangup
    BY <1>4, <1>h, <2>1, <2>2 DEF CommandTimesOut
  <2>3. CASE GivenUp
    <3>1. op' \in OpType /\ LeftOK' /\ Owed' = 0
      BY <2>1, Ended
    <3>2. UNCHANGED <<cmds, wire, bytes, modem, used>>
      BY <1>4, <2>3 DEF CommandTimesOut, GivenUp
    <3>3. tr' \in TrType /\ tr'.last = tr.last
      BY <1>0, <2>3, GivenUpIs
    <3>4. QED
      BY <1>0, <1>1, <3>1, <3>2, <3>3, Quiet
  <2>4. QED
    BY <1>4, <2>2, <2>3 DEF CommandTimesOut, GivenUp
<1>5. CASE RecvData
  <2>1. op' \in OpType /\ LeftOK' /\ Owed' = 0
    BY <1>5, Ended DEF RecvData
  <2>2. bytes' \in Nat
    BY <1>0, <1>5 DEF RecvData
  <2>3. UNCHANGED <<tr, cmds, wire, modem, used>>
    BY <1>5 DEF RecvData
  <2>4. QED
    BY <1>0, <1>1, <2>1, <2>2, <2>3, Quiet
<1>6. CASE RecvLine
  BY <1>6, LineTaken, TookTypes DEF TypeInv
<1>7. CASE RecvWaits
  <2>1. op' \in OpType /\ LeftOK' /\ Owed' \in {0, Owed}
    BY <1>7, OlderOp, Ended DEF RecvWaits
  <2>2. UNCHANGED <<tr, cmds, wire, bytes, modem, used>>
    BY <1>7 DEF RecvWaits
  <2>3. QED
    BY <1>0, <1>1, <2>1, <2>2, Quiet
<1>8. QED
  BY <1>2, <1>3, <1>4, <1>5, <1>6, <1>7 DEF Reading

\* The numbers the modem repeats are those of commands.
LEMMA ModemTypes ==
  ASSUME TypeInv, Modem
  PROVE  TypeInv'
<1>0. /\ op \in OpType /\ tr \in TrType /\ cmds \in Seq(Command) /\ wire \in Seq(Line)
      /\ bytes \in Nat /\ modem \in ModemType /\ used \in UsedType
  BY TypeParts DEF TypeInv
<1>1. LeftOK /\ Owed \in Nat
  BY TypeInvParts
<1>2. ASSUME UNCHANGED op PROVE op' \in OpType /\ LeftOK' /\ Owed' = Owed
  BY <1>0, <1>1, <1>2 DEF LeftOK, Owed
<1>3. ASSUME UNCHANGED <<op, tr>>, wire' \in Seq(Line), cmds' \in Seq(Command),
             bytes' \in Nat, modem' \in ModemType, used' \in UsedType, used'.ops = used.ops
      PROVE  TypeInv'
  BY <1>0, <1>1, <1>2, <1>3, Quiet
<1>4. \A kind \in Kinds, n \in Nums : UNCHANGED tr /\ Says(<<kind, n>>) => wire' \in Seq(Line)
  <2>1. \A kind \in Kinds, n \in Nums : <<kind, n>> \in Line
    BY DEF Line
  <2>2. QED
    BY <2>1, LineSaid DEF TypeInv
<1>5. used' = [used EXCEPT !.chatter = @ + 1] /\ used.chatter < MaxChatter
        => used' \in UsedType /\ used'.ops = used.ops
  <2>1. used \in UsedType /\ used.chatter \in 0 .. MaxChatter
    BY <1>0 DEF UsedType
  <2>2. ASSUME used.chatter < MaxChatter
        PROVE  \E n \in 0 .. MaxChatter : n = used.chatter + 1
    BY <2>1, <2>2, Constants
  <2>3. \A n \in 0 .. MaxChatter : used' = [used EXCEPT !.chatter = n]
          => used' \in UsedType /\ used'.ops = used.ops
    BY <2>1 DEF UsedType
  <2>4. QED
    BY <2>2, <2>3
<1>6. CASE Execute
  <2>1. UNCHANGED <<op, tr, bytes, used>> /\ cmds # <<>> /\ cmds' = Tail(cmds)
    BY <1>6 DEF Execute
  <2>2. Head(cmds) \in Command /\ cmds' \in Seq(Command)
    BY <1>0, <2>1, HeadTailProperties
  <2>3. Head(cmds)[2] \in Nums
    BY <2>2 DEF Command
  <2>4. wire' \in Seq(Line)
    BY <1>4, <1>6, <2>1, <2>3 DEF Execute, Kinds
  <2>5. modem' \in ModemType
    <3>1. CASE modem' = [modem EXCEPT !.done = @ + 1]
      <4>1. PICK n \in Nat : n = modem.done + 1
        BY <1>0 DEF ModemType
      <4>2. modem' = [modem EXCEPT !.done = n]
        BY <3>1, <4>1
      <4>3. QED
        BY <1>0, <4>2 DEF ModemType
    <3>2. CASE modem' = [modem EXCEPT !.trying = Head(cmds)[2]]
      BY <1>0, <2>3, <3>2 DEF ModemType
    <3>3. CASE modem' = [modem EXCEPT !.link = None, !.trying = None]
      BY <1>0, <3>3 DEF ModemType
    <3>4. QED
      BY <1>0, <1>6, <3>1, <3>2, <3>3 DEF Execute
  <2>6. QED
    BY <1>0, <1>3, <2>1, <2>2, <2>4, <2>5
<1>7. CASE LinkChanges
  <2>1. UNCHANGED <<op, tr, cmds, bytes, used>>
    BY <1>7 DEF LinkChanges
  <2>2. modem.trying \in Nums \cup {None} /\ modem.link \in Nums \cup {None}
    BY <1>0 DEF ModemType
  <2>3. wire' \in Seq(Line)
    BY <1>4, <1>7, <2>1, <2>2, NewTypes DEF LinkChanges, Kinds
  <2>4. modem' \in ModemType
    BY <1>0, <1>7, <2>2 DEF LinkChanges, ModemType
  <2>5. QED
    BY <1>0, <1>3, <2>1, <2>3, <2>4
<1>8. CASE Chatter
  <2>1. UNCHANGED <<op, tr, cmds, modem>> /\ used' \in UsedType /\ used'.ops = used.ops
    BY <1>5, <1>8 DEF Chatter
  <2>2. wire' \in Seq(Line) /\ bytes' \in Nat
    <3>1. CASE \E kind \in {"KNOWN", "UNKNOWN"} : Says(<<kind, 0>>) /\ UNCHANGED bytes
      BY <1>0, <1>4, <2>1, <3>1, NewTypes DEF Kinds
    <3>2. CASE bytes' = bytes + 1 /\ UNCHANGED wire
      BY <1>0, <3>2
    <3>3. QED
      BY <1>8, <3>1, <3>2 DEF Chatter
  <2>3. QED
    BY <1>0, <1>3, <2>1, <2>2
<1>9. CASE ModemCloses
  <2>1. op' \in OpType /\ LeftOK' /\ Owed' \in {0, Owed}
    BY <1>2, <1>9, Ended DEF ModemCloses
  <2>2. /\ tr' \in TrType /\ tr'.last = tr.last
        /\ cmds' = <<>> /\ bytes' = 0 /\ wire' = <<>> /\ modem' = modem
    BY <1>9, HungUp DEF ModemCloses, TypeInv
  <2>3. used' \in UsedType /\ used'.ops = used.ops
    BY <1>5, <1>9 DEF ModemCloses
  <2>4. QED
    BY <1>0, <1>1, <2>1, <2>2, <2>3, NewTypes, Quiet
<1>10. QED
  BY <1>6, <1>7, <1>8, <1>9 DEF Modem

LEMMA NextTypes ==
  ASSUME TypeInv, [Next]_vars
  PROVE  TypeInv'
<1>1. CASE UNCHANGED vars
  BY <1>1 DEF vars, TypeInv, TypeOK, CountOK, Owed
<1>2. QED
  BY <1>1, OperatorTypes, ReadingTypes, ModemTypes DEF Next

LEMMA InitTypes ==
  ASSUME Init
  PROVE  TypeInv
<1>1. op \in OpType /\ tr \in TrType /\ used \in UsedType
  BY NewTypes, Constants DEF Init, OpType, Names, UsedType
<1>a. modem \in ModemType
  BY NewTypes DEF Init, ModemType
<1>2. op.name = "idle" /\ op.left = 0 /\ Owed = 0 /\ tr.last = 0 /\ used.ops = 0
  BY DEF Init, Owed, NewTransport
<1>3. TypeOK
  BY <1>1, <1>a, <1>2, NewTypes DEF Init, TypeOK, OpType, TrType, Command, Line, ModemType, UsedType
<1>4. CountOK
  BY <1>2, Count, Constants DEF CountOK
<1>5. QED
  BY <1>3, <1>4 DEF TypeInv

-----------------------------------------------------------------------------
(* Setup: one command at a time, one answer each.                          *)

\* At most one line of p would be taken for an answer.
OneOk(p) == \A i, j \in Oks(p) : i = j

LEMMA OksTail ==
  ASSUME NEW S, NEW p \in Seq(S), p # <<>>
  PROVE  /\ Oks(p) = {} => Oks(Tail(p)) = {}
         /\ OneOk(p) /\ Head(p)[1] = "OK" => Oks(Tail(p)) = {}
         /\ Head(p)[1] = "OK" => Oks(p) # {}
<1>1. /\ DOMAIN Tail(p) = 1 .. Len(p) - 1 /\ Len(p) \in Nat \ {0} /\ Head(p) = p[1]
      /\ \A i \in DOMAIN Tail(p) : i + 1 \in DOMAIN p /\ Tail(p)[i] = p[i + 1]
      /\ DOMAIN p = 1 .. Len(p)
  BY TailElements, LenProperties
<1>2. \A i \in Oks(Tail(p)) : i + 1 \in Oks(p) /\ i + 1 # 1
  BY <1>1 DEF Oks
<1>3. Head(p)[1] = "OK" => 1 \in Oks(p)
  BY <1>1 DEF Oks
<1>4. QED
  BY <1>2, <1>3 DEF OneOk

LEMMA OksAppend ==
  ASSUME NEW S, NEW p \in Seq(S), NEW x \in S
  PROVE  /\ x[1] # "OK" => Oks(Append(p, x)) = Oks(p)
         /\ Oks(p) = {} => OneOk(Append(p, x))
<1>1. /\ DOMAIN Append(p, x) = 1 .. Len(p) + 1 /\ Len(p) \in Nat /\ DOMAIN p = 1 .. Len(p)
      /\ \A i \in DOMAIN p : Append(p, x)[i] = p[i]
      /\ Append(p, x)[Len(p) + 1] = x
  BY AppendElements
<1>2. \A i \in Oks(Append(p, x)) : i \in Oks(p) \/ (i = Len(p) + 1 /\ x[1] = "OK")
  BY <1>1 DEF Oks
<1>3. Oks(p) \subseteq Oks(Append(p, x))
  BY <1>1 DEF Oks
<1>4. QED
  BY <1>2, <1>3 DEF OneOk

Setup == SetupOK /\ SetupConfirmed

\* Whatever leaves the setup alone.
LEMMA SetupOver ==
  ASSUME VaraInv, TypeInv', op'.name # "setup", tr'.ready = tr.ready, tr'.up = tr.up,
         modem'.done >= modem.done
  PROVE  Setup'
<1>1. modem.done \in Nat /\ modem'.done \in Nat
  <2>1. modem \in ModemType /\ modem' \in ModemType
    BY DEF VaraInv, TypeInv, TypeOK, ModemType
  <2>2. QED
    BY <2>1 DEF ModemType
<1>2. SetupOK'
  BY DEF SetupOK
<1>3. SetupConfirmed'
  BY <1>1, Constants DEF SetupConfirmed, VaraInv
<1>4. QED
  BY <1>2, <1>3 DEF Setup

\* Lines that are no answers.
LEMMA SetupKept ==
  ASSUME VaraInv, op'.name = op.name, op'.left = op.left, tr'.ready = tr.ready, tr'.up = tr.up,
         cmds' = cmds, modem'.done = modem.done, Oks(Pending') = Oks(Pending)
  PROVE  Setup'
<1>1. SetupConfirmed'
  BY DEF SetupConfirmed, VaraInv
<1>2. SetupOK'
  BY DEF SetupOK, VaraInv
<1>3. QED
  BY <1>1, <1>2 DEF Setup

\* No transport is up.
LEMMA SetupEnded ==
  ASSUME op'.name # "setup", ~tr'.up
  PROVE  Setup'
  BY DEF Setup, SetupOK, SetupConfirmed

LEMMA TookSetupStep ==
  ASSUME VaraInv, TypeInv', TookLine
  PROVE  Setup'
<1>0. /\ op \in OpType /\ tr \in TrType /\ cmds \in Seq(Command) /\ Pending \in Seq(Line)
      /\ modem \in ModemType
  BY TypeParts DEF VaraInv
<1>1. LeftOK
  BY TypeInvParts DEF VaraInv, TypeInv
<1>2. Pending # <<>> /\ Pending' = Tail(Pending) /\ UNCHANGED modem
  BY DEF TookLine
<1>3. PICK rest \in Seq(Line) :
         \/ TookSetup(rest) /\ Head(Pending)[1] = "OK"
         \/ TookMycall(rest)
         \/ TookConnected(Head(Pending), rest)
         \/ TookOther(Head(Pending), rest)
  BY DEF TookLine
<1>4. CASE TookSetup(rest) /\ Head(Pending)[1] = "OK"
  <2>1. op.name = "setup" /\ op.left \in 1 .. Setups /\ op.left \in Int
    BY <1>1, <1>4, Constants DEF TookSetup, LeftOK
  <2>2. Oks(Pending) # {}
    BY <1>0, <1>2, <1>4, OksTail
  <2>3. /\ tr.up /\ ~tr.ready /\ cmds = <<>> /\ modem.done >= Setups - op.left + 1
        /\ OneOk(Pending)
    BY <2>1, <2>2 DEF VaraInv, SetupOK, OneOk
  <2>4. Oks(Pending') = {}
    BY <1>0, <1>2, <1>4, <2>3, OksTail
  <2>5. PICK l \in Nat : l = op.left - 1
    BY <2>1, Constants
  <2>6. op'.left = l /\ op'.name = IF op.left = 1 THEN "mycall" ELSE "setup"
    BY <1>0, <1>4, <2>5 DEF TookSetup, OpType
  <2>7. tr'.up = tr.up /\ tr'.ready = (op.left = 1)
    BY <1>0, <1>4 DEF TookSetup, TrType
  <2>8. cmds' = <<<<"SET", tr.last + 1>>>>
    BY <1>4, <2>3 DEF TookSetup
  <2>9. CASE op.left = 1
    <3>1. modem'.done >= Setups
      BY <1>0, <1>2, <2>3, <2>9, Constants DEF ModemType
    <3>2. QED
      BY <2>6, <2>9, <3>1, Constants DEF Setup, SetupOK, SetupConfirmed
  <2>10. CASE op.left # 1
    <3>1. modem'.done >= Setups - l
      BY <1>0, <1>2, <2>1, <2>3, <2>5, Constants DEF ModemType
    <3>2. Len(cmds') = 1 /\ cmds'[1][1] = "SET"
      BY <2>8
    <3>3. tr'.up /\ ~tr'.ready
      BY <2>3, <2>7, <2>10
    <3>4. QED
      BY <2>4, <2>6, <3>1, <3>2, <3>3 DEF Setup, SetupOK, SetupConfirmed
  <2>11. QED
    BY <2>9, <2>10
<1>5. CASE TookMycall(rest) \/ TookConnected(Head(Pending), rest) \/ TookOther(Head(Pending), rest)
  <2>1. op'.name # "setup"
    <3>1. CASE TookMycall(rest)
      BY <1>0, <3>1 DEF TookMycall, OpType
    <3>2. CASE TookConnected(Head(Pending), rest)
      BY <3>2 DEF TookConnected, End
    <3>3. CASE TookOther(Head(Pending), rest)
      BY <1>0, <3>3, OtherName DEF TookOther
    <3>4. QED
      BY <1>5, <3>1, <3>2, <3>3
  <2>2. tr'.ready = tr.ready /\ tr'.up = tr.up
    BY <1>0, <1>5, OtherTr DEF TookMycall, TookConnected, TrType
  <2>3. modem.done \in Nat
    BY <1>0 DEF ModemType
  <2>4. QED
    BY <1>2, <2>1, <2>2, <2>3, SetupOver
<1>6. QED
  BY <1>3, <1>4, <1>5

LEMMA SetupStep ==
  ASSUME VaraInv, TypeInv', Next
  PROVE  Setup'
<1>0. /\ op \in OpType /\ tr \in TrType /\ cmds \in Seq(Command) /\ Pending \in Seq(Line)
      /\ modem \in ModemType /\ TypeOK
  BY TypeParts DEF VaraInv
<1>1. modem.done \in Nat
  BY <1>0 DEF ModemType
<1>2. CASE VaraConnect
  <2>1. op'.name = "setup" /\ op'.left = Setups
    BY <1>2 DEF VaraConnect, Begin
  <2>2. tr'.up /\ ~tr'.ready /\ tr'.buf = <<>> /\ wire' = <<>> /\ modem'.done \in Nat
    BY <1>1, <1>2 DEF VaraConnect, NewTransport
  <2>3. Len(cmds') = 1 /\ cmds'[1][1] = "SET"
    BY <1>2 DEF VaraConnect
  <2>4. Oks(Pending') = {}
    <3>1. Pending' = <<>>
      BY <2>2, ConcatEmptySeq, EmptySeq DEF Pending
    <3>2. QED
      BY <3>1 DEF Oks
  <2>5. modem'.done >= Setups - op'.left
    BY <2>1, <2>2, Constants
  <2>6. QED
    BY <2>1, <2>2, <2>3, <2>4, <2>5 DEF Setup, SetupOK, SetupConfirmed
<1>3. CASE OpenSession \/ CloseSession \/ Recv
  <2>1. op'.name # "setup" /\ UNCHANGED modem
    BY <1>3 DEF OpenSession, CloseSession, Recv, Begin
  <2>2. tr'.ready = tr.ready /\ tr'.up = tr.up
    BY <1>0, <1>3 DEF OpenSession, CloseSession, Recv, TrType
  <2>3. QED
    BY <1>1, <2>1, <2>2, SetupOver
<1>4. CASE DisconnectModem
  BY <1>0, <1>4, HungUp, SetupEnded DEF DisconnectModem
<1>5. CASE BufferedLine
  <2>1. CASE SetupFails(Head(tr.buf))
    BY <1>0, <1>5, <2>1, HungUp, SetupEnded DEF BufferedLine, End
  <2>2. CASE ~SetupFails(Head(tr.buf))
    BY <1>0, <1>5, <2>2, LineTaken, TookSetupStep
  <2>3. QED
    BY <2>1, <2>2
<1>6. CASE RecvLine
  BY <1>0, <1>6, LineTaken, TookSetupStep
<1>7. CASE ReadCommands
  <2>1. Pending' = Pending
    BY <1>0, <1>7, LinesRead
  <2>2. PICK b \in Seq(Line) : tr' = [tr EXCEPT !.buf = b]
    BY <1>0, <1>7, LinesRead
  <2>3. tr'.ready = tr.ready /\ tr'.up = tr.up
    BY <1>0, <2>2 DEF TrType
  <2>4. op'.name = op.name /\ op'.left = op.left /\ cmds' = cmds /\ modem' = modem
    BY <1>0, <1>7 DEF ReadCommands, OpType
  <2>5. QED
    BY <2>1, <2>3, <2>4, SetupKept
<1>8. CASE CommandTimesOut
  <2>1. op'.name = "idle"
    BY <1>8 DEF CommandTimesOut, End
  <2>2. CASE Hangup
    BY <1>0, <2>1, <2>2, HungUp, SetupEnded
  <2>3. CASE GivenUp
    <3>1. tr'.ready = tr.ready /\ tr'.up = tr.up /\ UNCHANGED modem
      BY <1>0, <2>3, GivenUpIs DEF GivenUp
    <3>2. QED
      BY <1>1, <2>1, <3>1, SetupOver
  <2>4. QED
    BY <1>8, <2>2, <2>3 DEF CommandTimesOut, GivenUp
<1>9. CASE RecvData
  <2>1. op'.name # "setup" /\ modem' = modem
    BY <1>9 DEF RecvData, End
  <2>2. tr'.ready = tr.ready /\ tr'.up = tr.up
    BY <1>9 DEF RecvData
  <2>3. QED
    BY <1>1, <2>1, <2>2, SetupOver
<1>10. CASE RecvWaits
  <2>1. op'.name # "setup"
    BY <1>0, <1>10 DEF RecvWaits, End, OpType
  <2>2. UNCHANGED <<tr, modem>>
    BY <1>10 DEF RecvWaits
  <2>3. QED
    BY <1>1, <2>1, <2>2, SetupOver
<1>11. CASE Execute
  <2>1. UNCHANGED <<op, tr>> /\ cmds # <<>> /\ cmds' = Tail(cmds)
    BY <1>11 DEF Execute
  <2>2. CASE op.name # "setup"
    <3>1. modem'.done >= modem.done
      <4>1. CASE modem' = [modem EXCEPT !.done = @ + 1]
        <5>1. modem'.done = modem.done + 1
          BY <1>0, <4>1 DEF ModemType
        <5>2. QED
          BY <1>1, <5>1
      <4>2. CASE modem'.done = modem.done
        BY <1>1, <4>2
      <4>3. QED
        BY <1>0, <1>11, <4>1, <4>2 DEF Execute, ModemType
    <3>2. QED
      BY <2>1, <2>2, <3>1, SetupOver
  <2>3. CASE op.name = "setup"
    <3>1. /\ tr.up /\ ~tr.ready /\ Len(cmds) = 1 /\ cmds[1][1] = "SET"
          /\ Oks(Pending) = {} /\ modem.done >= Setups - op.left
      BY <2>1, <2>3 DEF VaraInv, SetupOK
    <3>2. Head(cmds)[1] = "SET" /\ cmds' = <<>>
      BY <1>0, <2>1, <3>1, HeadTailProperties, EmptySeq
    <3>3. Head(cmds) \in Command
      BY <1>0, <2>1, HeadTailProperties
    <3>4. Head(cmds)[2] \in Nums
      BY <3>3 DEF Command
    <3>5. CASE Says(<<"OK", Head(cmds)[2]>>) /\ modem' = [modem EXCEPT !.done = @ + 1]
      <4>a. modem'.done = modem.done + 1 /\ op.left \in Nat
        BY <1>0, <3>5 DEF ModemType, OpType
      <4>1. modem'.done >= Setups - op.left + 1
        BY <1>1, <3>1, <4>a, Constants
      <4>2. <<"OK", Head(cmds)[2]>> \in Line
        BY <3>4 DEF Line, Kinds
      <4>3. Pending' = Append(Pending, <<"OK", Head(cmds)[2]>>)
        BY <1>0, <2>1, <3>5, <4>2, LineSaid
      <4>4. OneOk(Pending')
        BY <1>0, <3>1, <4>2, <4>3, OksAppend
      <4>5. QED
        BY <2>1, <3>1, <3>2, <4>1, <4>4 DEF Setup, SetupOK, SetupConfirmed, OneOk
    <3>6. CASE Says(<<"MISSING", Head(cmds)[2]>>) /\ UNCHANGED modem
      <4>1. <<"MISSING", Head(cmds)[2]>> \in Line
        BY <3>4 DEF Line, Kinds
      <4>2. Pending' = Append(Pending, <<"MISSING", Head(cmds)[2]>>)
        BY <1>0, <2>1, <3>6, <4>1, LineSaid
      <4>3. Oks(Pending') = {}
        BY <1>0, <3>1, <4>1, <4>2, OksAppend
      <4>4. QED
        BY <2>1, <3>1, <3>2, <3>6, <4>3 DEF Setup, SetupOK, SetupConfirmed
    <3>7. QED
      BY <1>11, <3>2, <3>5, <3>6 DEF Execute
  <2>4. QED
    BY <2>2, <2>3
<1>12. ASSUME NEW kind \in Kinds \ {"OK"}, NEW n \in Nums, Says(<<kind, n>>),
              UNCHANGED <<op, tr, cmds>>, modem'.done = modem.done
       PROVE  Setup'
  <2>1. <<kind, n>> \in Line
    BY DEF Line
  <2>2. Pending' = Append(Pending, <<kind, n>>)
    BY <1>0, <1>12, <2>1, LineSaid
  <2>3. Oks(Pending') = Oks(Pending)
    BY <1>0, <2>1, <2>2, OksAppend
  <2>4. QED
    BY <1>12, <2>3, SetupKept
<1>13. CASE LinkChanges
  <2>1. UNCHANGED <<op, tr, cmds>> /\ modem'.done = modem.done
    BY <1>0, <1>13 DEF LinkChanges, ModemType
  <2>2. modem.trying \in Nums \cup {None} /\ modem.link \in Nums \cup {None}
    BY <1>0 DEF ModemType
  <2>3. \E kind \in Kinds \ {"OK"}, n \in Nums : Says(<<kind, n>>)
    BY <1>13, <2>2, NewTypes DEF LinkChanges, Kinds
  <2>4. QED
    BY <1>12, <2>1, <2>3
<1>14. CASE Chatter
  <2>1. UNCHANGED <<op, tr, cmds, modem>>
    BY <1>14 DEF Chatter
  <2>2. CASE UNCHANGED wire
    BY <2>1, <2>2, SetupKept DEF Pending
  <2>3. CASE \E kind \in {"KNOWN", "UNKNOWN"} : Says(<<kind, 0>>)
    BY <1>12, <2>1, <2>3, NewTypes DEF Kinds
  <2>4. QED
    BY <1>14, <2>2, <2>3 DEF Chatter
<1>15. CASE ModemCloses
  BY <1>0, <1>15, HungUp, SetupEnded DEF ModemCloses, End
<1>16. QED
  BY <1>2, <1>3, <1>4, <1>5, <1>6, <1>7, <1>8, <1>9, <1>10, <1>11, <1>13, <1>14, <1>15
     DEF Next, Operator, Reading, Modem

-----------------------------------------------------------------------------
(* CONNECT and what becomes of it.                                         *)

\* Queues that have lost their first, of a kind.
LEMMA KindTail ==
  ASSUME NEW S, NEW p \in Seq(S), p # <<>>, NEW kind, NEW n
  PROVE  /\ NoneOf(p, kind) => NoneOf(Tail(p), kind) /\ Head(p)[1] # kind
         /\ OneOf(p, kind, n) => OneOf(Tail(p), kind, n)
         /\ OneOf(p, kind, n) /\ Head(p)[1] = kind => NoneOf(Tail(p), kind) /\ Head(p)[2] = n
<1>1. /\ DOMAIN Tail(p) = 1 .. Len(p) - 1 /\ Len(p) \in Nat \ {0} /\ Head(p) = p[1]
      /\ \A i \in DOMAIN Tail(p) : i + 1 \in DOMAIN p /\ Tail(p)[i] = p[i + 1]
      /\ DOMAIN p = 1 .. Len(p)
  BY TailElements, LenProperties
<1>2. /\ 1 \in DOMAIN p /\ \A i \in DOMAIN Tail(p) : i + 1 # 1
      /\ \A i, j \in DOMAIN Tail(p) : i + 1 = j + 1 => i = j
  BY <1>1
<1>3. NoneOf(p, kind) => NoneOf(Tail(p), kind) /\ Head(p)[1] # kind
  BY <1>1, <1>2 DEF NoneOf
<1>4. OneOf(p, kind, n) => OneOf(Tail(p), kind, n)
  BY <1>1, <1>2 DEF OneOf
<1>5. OneOf(p, kind, n) /\ Head(p)[1] = kind => NoneOf(Tail(p), kind) /\ Head(p)[2] = n
  BY <1>1, <1>2 DEF OneOf, NoneOf
<1>6. QED
  BY <1>3, <1>4, <1>5

LEMMA KindAppend ==
  ASSUME NEW S, NEW p \in Seq(S), NEW x \in S, NEW kind, NEW n
  PROVE  /\ NoneOf(p, kind) /\ x[1] # kind => NoneOf(Append(p, x), kind)
         /\ OneOf(p, kind, n) /\ x[1] # kind => OneOf(Append(p, x), kind, n)
         /\ NoneOf(p, kind) /\ x[2] = n => OneOf(Append(p, x), kind, n)
         /\ NoneOf(p, kind) => OneOf(p, kind, n)
<1>1. /\ DOMAIN Append(p, x) = 1 .. Len(p) + 1 /\ Len(p) \in Nat /\ DOMAIN p = 1 .. Len(p)
      /\ \A i \in DOMAIN p : Append(p, x)[i] = p[i]
      /\ Append(p, x)[Len(p) + 1] = x
  BY AppendElements
<1>2. \A i \in DOMAIN Append(p, x) : i \in DOMAIN p \/ i = Len(p) + 1
  BY <1>1
<1>3. NoneOf(p, kind) /\ x[1] # kind => NoneOf(Append(p, x), kind)
  BY <1>1, <1>2 DEF NoneOf
<1>4. OneOf(p, kind, n) /\ x[1] # kind => OneOf(Append(p, x), kind, n)
  BY <1>1, <1>2 DEF OneOf
<1>5. NoneOf(p, kind) /\ x[2] = n => OneOf(Append(p, x), kind, n)
  BY <1>1, <1>2 DEF OneOf, NoneOf
<1>6. NoneOf(p, kind) => OneOf(p, kind, n)
  BY DEF OneOf, NoneOf
<1>7. QED
  BY <1>3, <1>4, <1>5, <1>6

\* And by their numbers.
LEMMA NumberTail ==
  ASSUME NEW S, NEW p \in Seq(S), p # <<>>, NEW n
  PROVE  /\ Below(p, n) => Below(Tail(p), n) /\ Head(p)[2] <= n
         /\ BelowD(p, n) => BelowD(Tail(p), n)
         /\ NoAnswer(p, n) => NoAnswer(Tail(p), n) /\ Head(p) # <<"DISCONNECTED", n>>
         /\ NoneBehind(p, n) => NoneBehind(Tail(p), n)
         /\ NoneBehind(p, n) /\ Head(p) = <<"DISCONNECTED", n>> => NoneOf(Tail(p), "CONNECTED")
<1>1. /\ DOMAIN Tail(p) = 1 .. Len(p) - 1 /\ Len(p) \in Nat \ {0} /\ Head(p) = p[1]
      /\ \A i \in DOMAIN Tail(p) : i + 1 \in DOMAIN p /\ Tail(p)[i] = p[i + 1]
      /\ DOMAIN p = 1 .. Len(p)
  BY TailElements, LenProperties
<1>2. /\ 1 \in DOMAIN p /\ \A i \in DOMAIN Tail(p) : 1 < i + 1
      /\ \A i, j \in DOMAIN Tail(p) : i < j => i + 1 < j + 1
  BY <1>1
<1>3. Below(p, n) => Below(Tail(p), n) /\ Head(p)[2] <= n
  BY <1>1, <1>2 DEF Below
<1>4. BelowD(p, n) => BelowD(Tail(p), n)
  BY <1>1 DEF BelowD
<1>5. NoAnswer(p, n) => NoAnswer(Tail(p), n) /\ Head(p) # <<"DISCONNECTED", n>>
  BY <1>1, <1>2 DEF NoAnswer
<1>6. NoneBehind(p, n) => NoneBehind(Tail(p), n)
  BY <1>1, <1>2 DEF NoneBehind
<1>7. NoneBehind(p, n) /\ Head(p) = <<"DISCONNECTED", n>> => NoneOf(Tail(p), "CONNECTED")
  BY <1>1, <1>2 DEF NoneBehind, NoneOf
<1>8. QED
  BY <1>3, <1>4, <1>5, <1>6, <1>7

LEMMA NumberAppend ==
  ASSUME NEW S, NEW p \in Seq(S), NEW x \in S, NEW n
  PROVE  /\ Below(p, n) /\ x[2] <= n => Below(Append(p, x), n)
         /\ BelowD(p, n) /\ (x[1] = "DISCONNECTED" => x[2] <= n) => BelowD(Append(p, x), n)
         /\ NoAnswer(p, n) /\ x # <<"DISCONNECTED", n>> => NoAnswer(Append(p, x), n)
         /\ NoAnswer(p, n) => NoneBehind(Append(p, x), n)
         /\ NoneBehind(p, n) /\ x[1] # "CONNECTED" => NoneBehind(Append(p, x), n)
<1>1. /\ DOMAIN Append(p, x) = 1 .. Len(p) + 1 /\ Len(p) \in Nat /\ DOMAIN p = 1 .. Len(p)
      /\ \A i \in DOMAIN p : Append(p, x)[i] = p[i]
      /\ Append(p, x)[Len(p) + 1] = x
  BY AppendElements
<1>2. /\ \A i \in DOMAIN Append(p, x) : i \in DOMAIN p \/ i = Len(p) + 1
      /\ \A i, j \in DOMAIN Append(p, x) : i < j => i \in DOMAIN p
  BY <1>1
<1>3. Below(p, n) /\ x[2] <= n => Below(Append(p, x), n)
  BY <1>1, <1>2 DEF Below
<1>4. BelowD(p, n) /\ (x[1] = "DISCONNECTED" => x[2] <= n) => BelowD(Append(p, x), n)
  BY <1>1, <1>2 DEF BelowD
<1>5. NoAnswer(p, n) /\ x # <<"DISCONNECTED", n>> => NoAnswer(Append(p, x), n)
  BY <1>1, <1>2 DEF NoAnswer
<1>6. NoAnswer(p, n) => NoneBehind(Append(p, x), n)
  BY <1>1, <1>2 DEF NoAnswer, NoneBehind
<1>7. NoneBehind(p, n) /\ x[1] # "CONNECTED" => NoneBehind(Append(p, x), n)
  BY <1>1, <1>2 DEF NoneBehind
<1>8. QED
  BY <1>3, <1>4, <1>5, <1>6, <1>7

\* Numbers grow.
LEMMA HigherBound ==
  ASSUME NEW n \in Nat
  PROVE  /\ \A c \in Seq(Command) : Below(c, n) => Below(c, n + 1)
         /\ \A p \in Seq(Line) : BelowD(p, n) => BelowD(p, n + 1) /\ NoAnswer(p, n + 1)
<1>1. ASSUME NEW c \in Seq(Command), Below(c, n) PROVE Below(c, n + 1)
  <2>1. \A i \in DOMAIN c : c[i] \in Command
    BY ElementOfSeq, LenProperties
  <2>2. \A i \in DOMAIN c : c[i][2] \in Nat
    BY <2>1 DEF Command, Nums
  <2>3. QED
    BY <1>1, <2>2 DEF Below
<1>2. ASSUME NEW p \in Seq(Line), BelowD(p, n) PROVE BelowD(p, n + 1) /\ NoAnswer(p, n + 1)
  <2>1. \A i \in DOMAIN p : p[i] \in Line
    BY ElementOfSeq, LenProperties
  <2>2. \A i \in DOMAIN p : p[i][2] \in Nat
    BY <2>1 DEF Line, Nums
  <2>3. BelowD(p, n + 1)
    BY <1>2, <2>2 DEF BelowD
  <2>4. NoAnswer(p, n + 1)
    <3> SUFFICES ASSUME NEW i \in DOMAIN p, p[i] = <<"DISCONNECTED", n + 1>> PROVE FALSE
      BY DEF NoAnswer
    <3>1. p[i][1] = "DISCONNECTED" /\ p[i][2] = n + 1
      OBVIOUS
    <3>2. n + 1 <= n
      BY <1>2, <3>1 DEF BelowD
    <3>3. QED
      BY <3>2
  <2>5. QED
    BY <2>3, <2>4
<1>3. QED
  BY <1>1, <1>2

\* A DISCONNECT is the last command when it is sent ...
LEMMA DisconnectLast ==
  ASSUME NEW n \in Nat, NEW c \in Seq(Command), Below(c, n), NEW x \in Command,
         x = <<"DISCONNECT", n + 1>>
  PROVE  LastCmd(Append(c, x), n + 1)
<1>1. PICK l \in Nat : l = Len(c)
  BY LenProperties
<1>2. PICK d \in Seq(Command) : d = Append(c, x)
  BY AppendProperties
<1>3. /\ Len(d) = l + 1 /\ d[l + 1] = x /\ \A i \in 1 .. l : d[i] = c[i]
  BY <1>1, <1>2, AppendProperties
<1>4. d # <<>>
  <2>1. Len(d) # 0
    BY <1>3
  <2>2. QED
    BY <2>1
<1>5. \A i \in 1 .. l : c[i] # <<"DISCONNECT", n + 1>>
  <2> SUFFICES ASSUME NEW i \in 1 .. l, c[i] = <<"DISCONNECT", n + 1>> PROVE FALSE
    OBVIOUS
  <2>1. DOMAIN c = 1 .. l /\ c[i][2] = n + 1
    BY <1>1, LenProperties
  <2>2. n + 1 <= n
    BY <2>1 DEF Below
  <2>3. QED
    BY <2>2
<1>6. l + 1 - 1 = l
  OBVIOUS
<1>7. QED
  BY <1>2, <1>3, <1>4, <1>5, <1>6 DEF LastCmd

\* ... and stays it until it is carried out.
LEMMA LastTail ==
  ASSUME NEW c \in Seq(Command), NEW n, LastCmd(c, n)
  PROVE  \/ Head(c) = <<"DISCONNECT", n>> /\ Tail(c) = <<>>
         \/ Head(c) # <<"DISCONNECT", n>> /\ LastCmd(Tail(c), n)
<1>1. c # <<>>
  BY DEF LastCmd
<1>2. PICK l \in Nat : Len(c) = l + 1
  <2>1. Len(c) \in Nat \ {0}
    BY <1>1, EmptySeq, LenProperties
  <2>2. Len(c) - 1 \in Nat /\ (Len(c) - 1) + 1 = Len(c)
    BY <2>1
  <2>3. QED
    BY <2>2
<1>3. PICK d \in Seq(Command) : d = Tail(c) /\ Len(d) = l
  <2>1. Tail(c) \in Seq(Command) /\ Len(Tail(c)) = Len(c) - 1
    BY <1>1, HeadTailProperties
  <2>2. Len(Tail(c)) = l
    BY <1>2, <2>1
  <2>3. QED
    BY <2>1, <2>2
<1>4. Head(c) = c[1] /\ \A i \in 1 .. l : d[i] = c[i + 1]
  BY <1>1, <1>3, HeadTailProperties
<1>5. /\ c[l + 1] = <<"DISCONNECT", n>>
      /\ \A i \in 1 .. l : c[i] # <<"DISCONNECT", n>>
  <2>1. l + 1 - 1 = l
    OBVIOUS
  <2>2. QED
    BY <1>2, <2>1 DEF LastCmd
<1>6. CASE l = 0
  <2>1. d = <<>>
    BY <1>3, <1>6, EmptySeq
  <2>2. QED
    BY <1>3, <1>4, <1>5, <1>6, <2>1
<1>7. CASE l # 0
  <2>1. d # <<>>
    BY <1>3, <1>7
  <2>2. l \in 1 .. l /\ 1 \in 1 .. l
    BY <1>7
  <2>3. d[l] = <<"DISCONNECT", n>> /\ Head(c) # <<"DISCONNECT", n>>
    BY <1>4, <1>5, <2>2
  <2>4. \A i \in 1 .. l - 1 : d[i] # <<"DISCONNECT", n>>
    <3> TAKE i \in 1 .. l - 1
    <3>1. i \in 1 .. l /\ i + 1 \in 1 .. l
      OBVIOUS
    <3>2. QED
      BY <1>4, <1>5, <3>1
  <2>5. LastCmd(d, n)
    BY <1>3, <2>1, <2>3, <2>4 DEF LastCmd
  <2>6. QED
    BY <1>3, <2>3, <2>5
<1>8. QED
  BY <1>6, <1>7

LEMMA NothingThere ==
  ASSUME NEW n, NEW kind
  PROVE  NoneOf(<<>>, kind) /\ Below(<<>>, n) /\ BelowD(<<>>, n)
  BY DEF NoneOf, Below, BelowD

\* After a hangup.
LEMMA LinksHungUp ==
  ASSUME TypeOK, Hangup, op'.name = "idle"
  PROVE  Links'
<1>1. ~tr'.up /\ tr'.link = None /\ Pending' = <<>> /\ cmds' = <<>>
  BY HungUp
<1>2. QED
  BY <1>1, NothingThere DEF Links, ClearOK, NumbersOK, CloseOK, LinkOK, OwnConnected, UpOK

\* Steps that send nothing and hear nothing.
LEMMA LinksKept ==
  ASSUME Links, tr'.up = tr.up, tr'.clear => tr.clear, tr'.own = tr.own, tr'.last = tr.last,
         tr'.link = tr.link, cmds' = cmds, Pending' = Pending, modem'.trying = modem.trying,
         op'.name = op.name \/ op'.name = "idle" \/ (op'.name = "recv" /\ tr.up),
         op.name = "connect" /\ op'.name # "connect" => ~tr'.clear
  PROVE  Links'
<1>1. ClearOK'
  <2> SUFFICES ASSUME tr'.up, tr'.clear
               PROVE  /\ op'.name # "connect" => Still'
                      /\ op'.name = "connect" => Asking' \/ Calling' \/ Answered'
    BY DEF ClearOK
  <2>1. tr.up /\ tr.clear
    OBVIOUS
  <2>2. CASE op.name = "connect"
    BY <2>1, <2>2 DEF Links, ClearOK, Asking, Calling, Answered
  <2>3. CASE op.name # "connect"
    BY <2>1, <2>3 DEF Links, ClearOK, Still
  <2>4. QED
    BY <2>2, <2>3
<1>2. NumbersOK'
  BY DEF Links, NumbersOK
<1>3. CloseOK'
  BY DEF Links, CloseOK, Unsettled, Settled
<1>4. LinkOK'
  BY DEF Links, LinkOK, OwnConnected
<1>5. UpOK'
  BY DEF Links, UpOK
<1>6. QED
  BY <1>1, <1>2, <1>3, <1>4, <1>5 DEF Links

\* open_session and close_session begin.
LEMMA LinksSend ==
  ASSUME VaraInv, TypeInv', OpenSession \/ CloseSession
  PROVE  Links'
<1>0. /\ tr \in TrType /\ cmds \in Seq(Command) /\ Pending \in Seq(Line) /\ Links
  BY TypeParts DEF VaraInv
<1>1. tr' \in TrType
  BY DEF TypeInv, TypeOK, TrType, Line
<1>2. PICK n \in Nat : n = tr.last
  BY <1>0 DEF TrType, Nums
<1>3. PICK kind \in {"SET", "DISCONNECT"} :
        /\ op.name = "idle" /\ cmds' = Append(cmds, <<kind, n + 1>>)
        /\ op'.name = (IF kind = "SET" THEN "mycall" ELSE "close")
  BY <1>2 DEF OpenSession, CloseSession, Begin, Send
<1>4. /\ tr'.last = n + 1 /\ tr'.own = tr.own /\ tr'.up = tr.up /\ tr'.clear = tr.clear
      /\ tr'.link = None /\ tr'.buf = tr.buf /\ UNCHANGED <<wire, modem>>
  BY <1>0, <1>2 DEF OpenSession, CloseSession, TrType
<1>5. Pending' = Pending
  BY <1>4 DEF Pending
<1>6. PICK x \in Command : x = <<kind, n + 1>>
  <2>1. n + 1 \in Nums
    BY <1>1, <1>4 DEF TrType
  <2>2. QED
    BY <2>1 DEF Command
<1>7. x[1] = kind /\ x[2] = n + 1 /\ cmds' = Append(cmds, x)
  BY <1>3, <1>6
<1>8. ClearOK'
  <2> SUFFICES ASSUME tr'.up, tr'.clear PROVE Still'
    BY <1>3 DEF ClearOK
  <2>1. Still
    BY <1>0, <1>3, <1>4 DEF Links, ClearOK
  <2>2. NoneOf(cmds', "CONNECT")
    BY <1>0, <1>7, <2>1, KindAppend DEF Still
  <2>3. QED
    BY <1>4, <1>5, <2>1, <2>2 DEF Still
<1>9. Below(cmds, n + 1) /\ BelowD(Pending, n + 1) /\ NoAnswer(Pending, n + 1) /\ Below(cmds, n)
  BY <1>0, <1>2, HigherBound DEF Links, NumbersOK
<1>10. NumbersOK'
  <2>1. Below(cmds', n + 1)
    <3>1. x[2] <= n + 1
      BY <1>7
    <3>2. QED
      BY <1>0, <1>7, <1>9, <3>1, NumberAppend
  <2>2. QED
    BY <1>4, <1>5, <1>9, <2>1 DEF NumbersOK
<1>11. CloseOK'
  <2>1. CASE kind = "SET"
    BY <1>3, <2>1 DEF CloseOK
  <2>2. CASE kind = "DISCONNECT"
    <3>1. LastCmd(cmds', n + 1)
      <4>1. x = <<"DISCONNECT", n + 1>>
        BY <1>6, <2>2
      <4>2. LastCmd(Append(cmds, x), n + 1)
        BY <1>0, <1>9, <4>1, DisconnectLast
      <4>3. QED
        BY <1>7, <4>2
    <3>2. n + 1 # 0
      OBVIOUS
    <3>3. QED
      BY <1>4, <1>5, <1>9, <3>1, <3>2 DEF CloseOK, Unsettled
  <2>3. QED
    BY <2>1, <2>2
<1>12. LinkOK'
  BY <1>4 DEF LinkOK, OwnConnected
<1>13. UpOK'
  BY <1>4 DEF UpOK, OpenSession, CloseSession
<1>14. QED
  BY <1>8, <1>10, <1>11, <1>12, <1>13 DEF Links

\* connect_modem begins.
LEMMA LinksConnect ==
  ASSUME VaraInv, VaraConnect
  PROVE  Links'
<1>1. /\ tr'.link = None /\ tr'.last = 1 /\ tr'.buf = <<>> /\ wire' = <<>>
      /\ (tr'.clear => modem.trying = None) /\ modem' = modem /\ op'.name = "setup" /\ tr'.up
  BY DEF VaraConnect, NewTransport, Begin
<1>2. Pending' = <<>>
  BY <1>1, ConcatEmptySeq, EmptySeq DEF Pending
<1>3. cmds' = <<<<"SET", 1>>>>
  BY DEF VaraConnect
<1>4. NoneOf(cmds', "CONNECT") /\ Below(cmds', 1)
  BY <1>3 DEF NoneOf, Below
<1>5. NumbersOK'
  BY <1>1, <1>2, <1>4, NothingThere DEF NumbersOK
<1>6. ClearOK'
  BY <1>1, <1>2, <1>4, NothingThere DEF ClearOK, Still
<1>7. CloseOK' /\ LinkOK' /\ UpOK'
  BY <1>1 DEF CloseOK, LinkOK, OwnConnected, UpOK
<1>8. QED
  BY <1>5, <1>6, <1>7 DEF Links

\* A line is taken: a command is sent, a CONNECTED is believed, or the operation
\* goes on or ends.
LEMMA LinksTook ==
  ASSUME VaraInv, TypeInv', TookLine
  PROVE  Links'
<1>0. /\ op \in OpType /\ tr \in TrType /\ cmds \in Seq(Command) /\ Pending \in Seq(Line)
      /\ modem \in ModemType /\ Links
  BY TypeParts DEF VaraInv
<1>t. tr' \in TrType
  BY DEF TypeInv, TypeOK, TrType, Line
<1>1. Pending # <<>> /\ Pending' = Tail(Pending) /\ UNCHANGED modem
  BY DEF TookLine
<1>2. PICK n \in Nat : n = tr.last
  BY <1>0 DEF TrType, Nums
<1>3. PICK rest \in Seq(Line) :
         \/ TookSetup(rest) /\ Head(Pending)[1] = "OK"
         \/ TookMycall(rest)
         \/ TookConnected(Head(Pending), rest)
         \/ TookOther(Head(Pending), rest)
  BY DEF TookLine
<1>4. /\ NoneOf(Pending, "CONNECTED") =>
           NoneOf(Pending', "CONNECTED") /\ Head(Pending)[1] # "CONNECTED"
      /\ OneOf(Pending, "CONNECTED", tr.own) => OneOf(Pending', "CONNECTED", tr.own)
      /\ OneOf(Pending, "CONNECTED", tr.own) /\ Head(Pending)[1] = "CONNECTED" =>
           NoneOf(Pending', "CONNECTED") /\ Head(Pending)[2] = tr.own
  BY <1>0, <1>1, KindTail
<1>5. Below(cmds, n) /\ BelowD(Pending', n)
  BY <1>0, <1>1, <1>2, NumberTail DEF Links, NumbersOK
<1>6. ASSUME NEW kind \in {"SET", "CONNECT"}, cmds' = Append(cmds, <<kind, n + 1>>), tr'.last = n + 1
      PROVE  /\ NumbersOK'
             /\ NoneOf(cmds, "CONNECT") /\ kind = "SET" => NoneOf(cmds', "CONNECT")
             /\ NoneOf(cmds, "CONNECT") => OneOf(cmds', "CONNECT", n + 1)
  <2>1. PICK x \in Command : x = <<kind, n + 1>>
    <3>1. n + 1 \in Nums
      BY <1>t, <1>6 DEF TrType
    <3>2. QED
      BY <3>1 DEF Command
  <2>2. x[1] = kind /\ x[2] = n + 1 /\ cmds' = Append(cmds, x)
    BY <1>6, <2>1
  <2>3. Below(cmds, n + 1)
    BY <1>0, <1>5, HigherBound
  <2>a. Pending' \in Seq(Line)
    BY <1>0, <1>1, HeadTailProperties
  <2>b. PICK p \in Seq(Line) : p = Pending'
    BY <2>a
  <2>c. BelowD(p, n + 1)
    BY <1>5, <2>b, HigherBound
  <2>4. x[2] <= n + 1
    BY <2>2
  <2>5. Below(cmds', n + 1)
    BY <1>0, <2>2, <2>3, <2>4, NumberAppend
  <2>6. NumbersOK'
    BY <1>6, <2>b, <2>c, <2>5 DEF NumbersOK
  <2>7. NoneOf(cmds, "CONNECT") /\ kind = "SET" => NoneOf(cmds', "CONNECT")
    BY <1>0, <2>2, KindAppend
  <2>8. NoneOf(cmds, "CONNECT") => OneOf(cmds', "CONNECT", n + 1)
    BY <1>0, <2>2, KindAppend
  <2>9. QED
    BY <2>6, <2>7, <2>8
<1>7. CASE TookSetup(rest)
  <2>1. /\ op.name = "setup" /\ op'.name \in {"setup", "mycall"}
        /\ cmds' = Append(cmds, <<"SET", n + 1>>)
    BY <1>0, <1>2, <1>7 DEF TookSetup, OpType
  <2>2. /\ tr'.own = tr.own /\ tr'.link = tr.link /\ tr'.last = n + 1
        /\ tr'.up = tr.up /\ tr'.clear = tr.clear
    BY <1>0, <1>2, <1>7 DEF TookSetup, TrType
  <2>3. ClearOK'
    <3> SUFFICES ASSUME tr'.up, tr'.clear PROVE Still'
      BY <2>1 DEF ClearOK
    <3>1. Still
      BY <1>0, <2>1, <2>2 DEF Links, ClearOK
    <3>2. QED
      BY <1>1, <1>4, <1>6, <2>1, <2>2, <3>1 DEF Still
  <2>4. NumbersOK'
    BY <1>6, <2>1, <2>2
  <2>5. CloseOK' /\ LinkOK' /\ UpOK'
    BY <1>0, <2>1, <2>2 DEF Links, CloseOK, LinkOK, OwnConnected, UpOK
  <2>6. QED
    BY <2>3, <2>4, <2>5 DEF Links
<1>8. CASE TookMycall(rest)
  <2>1. /\ op.name = "mycall" /\ op'.name = "connect"
        /\ cmds' = Append(cmds, <<"CONNECT", n + 1>>)
    BY <1>0, <1>2, <1>8 DEF TookMycall, OpType
  <2>2. /\ tr'.own = n + 1 /\ tr'.link = tr.link /\ tr'.last = n + 1
        /\ tr'.up = tr.up /\ tr'.clear = tr.clear
    BY <1>0, <1>2, <1>8 DEF TookMycall, TrType
  <2>3. ClearOK'
    <3> SUFFICES ASSUME tr'.up, tr'.clear PROVE Asking'
      BY <2>1 DEF ClearOK
    <3>1. Still
      BY <1>0, <2>1, <2>2 DEF Links, ClearOK
    <3>2. QED
      BY <1>1, <1>4, <1>6, <2>1, <2>2, <3>1 DEF Still, Asking
  <2>4. NumbersOK'
    BY <1>6, <2>1, <2>2
  <2>5. CloseOK' /\ LinkOK' /\ UpOK'
    BY <1>0, <2>1, <2>2 DEF Links, CloseOK, LinkOK, OwnConnected, UpOK
  <2>6. QED
    BY <2>3, <2>4, <2>5 DEF Links
<1>9. CASE TookConnected(Head(Pending), rest)
  <2>1. op.name = "connect" /\ op'.name = "idle" /\ cmds' = cmds /\ Head(Pending)[1] = "CONNECTED"
    BY <1>9 DEF TookConnected, End
  <2>2. /\ tr'.own = tr.own /\ tr'.link = Head(Pending)[2] /\ tr'.last = tr.last
        /\ tr'.up = tr.up /\ tr'.clear = tr.clear
    BY <1>0, <1>9 DEF TookConnected, TrType
  <2>3. ASSUME tr.up, tr.clear
        PROVE  Still' /\ tr'.link = tr.own
    <3>1. Asking \/ Calling \/ Answered
      BY <1>0, <2>1, <2>3 DEF Links, ClearOK
    <3>2. Answered
      BY <1>4, <2>1, <3>1 DEF Asking, Calling
    <3>3. QED
      BY <1>1, <1>4, <2>1, <2>2, <3>2 DEF Answered, Still
  <2>4. tr.up
    BY <1>0, <2>1 DEF Links, UpOK
  <2>5. ClearOK' /\ LinkOK'
    BY <2>1, <2>2, <2>3, <2>4 DEF ClearOK, LinkOK, OwnConnected
  <2>6. NumbersOK'
    BY <1>2, <1>5, <2>1, <2>2 DEF NumbersOK
  <2>7. CloseOK' /\ UpOK'
    BY <2>1 DEF CloseOK, UpOK
  <2>8. QED
    BY <2>5, <2>6, <2>7 DEF Links
<1>10. CASE TookOther(Head(Pending), rest)
  <2>1. /\ tr'.up = tr.up /\ tr'.own = tr.own /\ tr'.last = tr.last
        /\ tr'.link = tr.link /\ cmds' = cmds
        /\ \/ tr'.clear = tr.clear /\ op'.name = op.name
           \/ tr'.clear = ClearAfter(Head(Pending)) /\ op'.name = "idle"
    BY <1>0, <1>10, OtherTr
  <2>2. NumbersOK' /\ UpOK'
    BY <1>0, <1>2, <1>5, <2>1 DEF Links, NumbersOK, UpOK
  <2>3. CASE tr'.clear = tr.clear /\ op'.name = op.name
    <3>1. ClearOK'
      <4>1. Still => Still'
        BY <1>1, <1>4, <2>1 DEF Still
      <4>2. (Asking => Asking') /\ (Calling => Calling') /\ (Answered => Answered')
        BY <1>1, <1>4, <2>1 DEF Asking, Calling, Answered
      <4>3. QED
        BY <1>0, <2>1, <2>3, <4>1, <4>2 DEF Links, ClearOK
    <3>2. CloseOK'
      <4>1. /\ NoAnswer(Pending, tr.last) => NoAnswer(Pending', tr.last)
            /\ NoneBehind(Pending, tr.last) => NoneBehind(Pending', tr.last)
        BY <1>0, <1>1, NumberTail
      <4>2. QED
        BY <1>0, <1>1, <2>1, <2>3, <4>1 DEF Links, CloseOK, Unsettled, Settled
    <3>3. LinkOK'
      BY <1>0, <2>1, <2>3 DEF Links, LinkOK, OwnConnected
    <3>4. QED
      BY <2>2, <3>1, <3>2, <3>3 DEF Links
  <2>4. CASE tr'.clear = ClearAfter(Head(Pending)) /\ op'.name = "idle"
    <3>1. CloseOK'
      BY <2>4 DEF CloseOK
    <3>2. CASE op.name = "connect"
      <4>1. ~tr'.clear
        BY <2>4, <3>2 DEF ClearAfter
      <4>2. ClearOK' /\ LinkOK'
        BY <2>4, <4>1 DEF ClearOK, LinkOK, OwnConnected
      <4>3. QED
        BY <2>2, <3>1, <4>2 DEF Links
    <3>3. CASE op.name = "close"
      <4>1. tr'.clear = (tr.clear \/ Head(Pending) = <<"DISCONNECTED", tr.last>>)
        BY <2>4, <3>3 DEF ClearAfter
      <4>2. LinkOK'
        BY <1>0, <2>1, <2>4, <3>3 DEF Links, LinkOK, OwnConnected
      <4>3. ASSUME tr.up, tr.clear PROVE Still'
        <5>1. Still
          BY <1>0, <3>3, <4>3 DEF Links, ClearOK
        <5>2. QED
          BY <1>1, <1>4, <2>1, <5>1 DEF Still
      <4>4. ASSUME tr.up, Head(Pending) = <<"DISCONNECTED", tr.last>> PROVE Still'
        <5>1. ~Unsettled
          BY <1>0, <1>1, <4>4, NumberTail DEF Unsettled
        <5>2. Settled
          BY <1>0, <3>3, <4>4, <5>1 DEF Links, CloseOK
        <5>3. NoneOf(Pending', "CONNECTED")
          BY <1>0, <1>1, <4>4, <5>2, NumberTail DEF Settled
        <5>4. QED
          BY <1>1, <2>1, <5>2, <5>3, NothingThere DEF Settled, Still
      <4>5. ClearOK'
        BY <2>1, <2>4, <4>1, <4>3, <4>4 DEF ClearOK
      <4>6. QED
        BY <2>2, <3>1, <4>2, <4>5 DEF Links
    <3>4. CASE op.name \notin {"connect", "close"}
      <4>1. tr'.clear = tr.clear
        BY <2>4, <3>4 DEF ClearAfter
      <4>2. ClearOK'
        <5> SUFFICES ASSUME tr'.up, tr'.clear PROVE Still'
          BY <2>4 DEF ClearOK
        <5>1. Still
          BY <1>0, <2>1, <3>4, <4>1 DEF Links, ClearOK
        <5>2. QED
          BY <1>1, <1>4, <2>1, <5>1 DEF Still
      <4>3. LinkOK'
        BY <1>0, <2>1, <2>4, <4>1 DEF Links, LinkOK, OwnConnected
      <4>4. QED
        BY <2>2, <3>1, <4>2, <4>3 DEF Links
    <3>5. QED
      BY <3>2, <3>3, <3>4
  <2>5. QED
    BY <2>1, <2>3, <2>4
<1>11. QED
  BY <1>3, <1>7, <1>8, <1>9, <1>10

\* A line of the modem's that is no answer to a DISCONNECT.
LEMMA LineHeard ==
  ASSUME TypeOK, Links, UNCHANGED <<op, tr>>, NEW line \in Line, Says(line),
         line[1] # "DISCONNECTED" \/ line[2] = 0
  PROVE  /\ Pending' = Append(Pending, line)
         /\ BelowD(Pending', tr.last)
         /\ NoneOf(Pending, "CONNECTED") /\ line[1] # "CONNECTED" => NoneOf(Pending', "CONNECTED")
         /\ OneOf(Pending, "CONNECTED", tr.own) /\ line[1] # "CONNECTED" =>
              OneOf(Pending', "CONNECTED", tr.own)
         /\ NoneOf(Pending, "CONNECTED") /\ line[2] = tr.own => OneOf(Pending', "CONNECTED", tr.own)
         /\ tr.last # 0 /\ NoAnswer(Pending, tr.last) => NoAnswer(Pending', tr.last)
         /\ NoneBehind(Pending, tr.last) /\ line[1] # "CONNECTED" => NoneBehind(Pending', tr.last)
<1>0. Pending \in Seq(Line) /\ tr \in TrType
  BY TypeParts
<1>1. Pending' = Append(Pending, line)
  BY LineSaid
<1>2. tr.last \in Nat
  BY <1>0 DEF TrType, Nums
<1>3. BelowD(Pending', tr.last)
  <2>1. line[1] = "DISCONNECTED" => line[2] <= tr.last
    BY <1>2
  <2>2. QED
    BY <1>0, <1>1, <2>1, NumberAppend DEF Links, NumbersOK
<1>4. /\ NoneOf(Pending, "CONNECTED") /\ line[1] # "CONNECTED" => NoneOf(Pending', "CONNECTED")
      /\ OneOf(Pending, "CONNECTED", tr.own) /\ line[1] # "CONNECTED" =>
           OneOf(Pending', "CONNECTED", tr.own)
      /\ NoneOf(Pending, "CONNECTED") /\ line[2] = tr.own => OneOf(Pending', "CONNECTED", tr.own)
  BY <1>0, <1>1, KindAppend
<1>5. tr.last # 0 /\ NoAnswer(Pending, tr.last) => NoAnswer(Pending', tr.last)
  <2>1. tr.last # 0 => line # <<"DISCONNECTED", tr.last>>
    OBVIOUS
  <2>2. QED
    BY <1>0, <1>1, <2>1, NumberAppend
<1>6. NoneBehind(Pending, tr.last) /\ line[1] # "CONNECTED" => NoneBehind(Pending', tr.last)
  BY <1>0, <1>1, NumberAppend
<1>7. QED
  BY <1>1, <1>3, <1>4, <1>5, <1>6

\* The modem says something of its own, or loses what it had.
LEMMA LinksSaid ==
  ASSUME VaraInv, UNCHANGED <<op, tr, cmds>>, NEW kind \in Kinds \ {"CONNECTED"}, Says(<<kind, 0>>),
         modem'.trying \in {None, modem.trying}
  PROVE  Links'
<1>0. TypeOK /\ Links
  BY DEF VaraInv
<1>1. PICK line \in Line : line = <<kind, 0>>
  BY NewTypes DEF Line
<1>2. line[1] # "CONNECTED" /\ line[2] = 0 /\ Says(line)
  BY <1>1
<1>3. /\ BelowD(Pending', tr.last)
      /\ NoneOf(Pending, "CONNECTED") => NoneOf(Pending', "CONNECTED")
      /\ OneOf(Pending, "CONNECTED", tr.own) => OneOf(Pending', "CONNECTED", tr.own)
      /\ tr.last # 0 /\ NoAnswer(Pending, tr.last) => NoAnswer(Pending', tr.last)
      /\ NoneBehind(Pending, tr.last) => NoneBehind(Pending', tr.last)
  BY <1>0, <1>2, LineHeard
<1>4. ClearOK'
  <2>1. Still => Still'
    BY <1>3 DEF Still
  <2>2. (Asking => Asking') /\ (Answered => Answered')
    BY <1>3 DEF Asking, Answered
  <2>3. Calling => Calling' \/ Asking'
    <3>1. NoneOf(cmds, "CONNECT") => OneOf(cmds, "CONNECT", tr.own)
      BY DEF NoneOf, OneOf
    <3>2. QED
      BY <1>3, <3>1 DEF Calling, Asking
  <2>4. QED
    BY <1>0, <2>1, <2>2, <2>3 DEF Links, ClearOK
<1>5. CloseOK'
  BY <1>0, <1>3 DEF Links, CloseOK, Unsettled, Settled
<1>6. NumbersOK' /\ LinkOK' /\ UpOK'
  BY <1>0, <1>3 DEF Links, NumbersOK, LinkOK, OwnConnected, UpOK
<1>7. QED
  BY <1>4, <1>5, <1>6 DEF Links

\* An attempt succeeds.
LEMMA LinksUp ==
  ASSUME VaraInv, UNCHANGED <<op, tr, cmds>>, modem.trying # None,
         Says(<<"CONNECTED", modem.trying>>), modem'.trying = None
  PROVE  Links'
<1>0. TypeOK /\ Links /\ modem \in ModemType
  BY TypeParts DEF VaraInv
<1>1. PICK n \in Nums : n = modem.trying
  BY <1>0 DEF ModemType
<1>2. PICK line \in Line : line = <<"CONNECTED", n>>
  BY DEF Line, Kinds
<1>3. line[1] = "CONNECTED" /\ line[2] = n /\ Says(line)
  BY <1>1, <1>2
<1>4. /\ BelowD(Pending', tr.last)
      /\ NoneOf(Pending, "CONNECTED") /\ n = tr.own => OneOf(Pending', "CONNECTED", tr.own)
      /\ tr.last # 0 /\ NoAnswer(Pending, tr.last) => NoAnswer(Pending', tr.last)
  BY <1>0, <1>3, LineHeard
<1>5. ClearOK'
  <2> SUFFICES ASSUME tr.up, tr.clear PROVE op.name = "connect" /\ Answered'
    BY DEF ClearOK
  <2>1. ~Still /\ ~Asking /\ ~Answered
    BY DEF Still, Asking, Answered
  <2>2. op.name = "connect" /\ Calling
    BY <1>0, <2>1 DEF Links, ClearOK
  <2>3. QED
    BY <1>1, <1>4, <2>2 DEF Calling, Answered
<1>6. CloseOK'
  BY <1>0, <1>4 DEF Links, CloseOK, Unsettled, Settled
<1>7. NumbersOK' /\ LinkOK' /\ UpOK'
  BY <1>0, <1>4 DEF Links, NumbersOK, LinkOK, OwnConnected, UpOK
<1>8. QED
  BY <1>5, <1>6, <1>7 DEF Links

\* The modem carries out a command.
LEMMA LinksExecute ==
  ASSUME VaraInv, Execute
  PROVE  Links'
<1>0. /\ TypeOK /\ Links /\ tr \in TrType /\ cmds \in Seq(Command) /\ modem \in ModemType
      /\ Pending \in Seq(Line)
  BY TypeParts DEF VaraInv
<1>1. UNCHANGED <<op, tr>> /\ cmds # <<>> /\ cmds' = Tail(cmds)
  BY DEF Execute
<1>2. Head(cmds) \in Command
  BY <1>0, <1>1, HeadTailProperties
<1>3. PICK n \in Nums : n = Head(cmds)[2]
  BY <1>2 DEF Command
<1>4. PICK t \in Nat, a \in Nat : t = tr.last /\ a = n
  BY <1>0 DEF TrType, Nums
<1>5. Below(cmds', t) /\ a <= t
  BY <1>0, <1>1, <1>3, <1>4, NumberTail DEF Links, NumbersOK
<1>6. /\ NoneOf(cmds, "CONNECT") => NoneOf(cmds', "CONNECT") /\ Head(cmds)[1] # "CONNECT"
      /\ OneOf(cmds, "CONNECT", tr.own) => OneOf(cmds', "CONNECT", tr.own)
      /\ OneOf(cmds, "CONNECT", tr.own) /\ Head(cmds)[1] = "CONNECT" =>
           NoneOf(cmds', "CONNECT") /\ n = tr.own
  BY <1>0, <1>1, <1>3, KindTail
<1>7. PICK kind \in Kinds \ {"CONNECTED"} :
        /\ Says(<<kind, n>>) /\ (kind = "DISCONNECTED" <=> Head(cmds)[1] = "DISCONNECT")
        /\ \/ modem'.trying = modem.trying /\ Head(cmds)[1] # "DISCONNECT"
           \/ modem'.trying = n /\ Head(cmds)[1] = "CONNECT"
           \/ modem'.trying = None /\ Head(cmds)[1] = "DISCONNECT"
  <2>1. CASE Head(cmds)[1] = "SET"
    BY <1>0, <1>3, <2>1 DEF Execute, Kinds, ModemType
  <2>2. CASE Head(cmds)[1] = "CONNECT"
    BY <1>0, <1>3, <2>2 DEF Execute, Kinds, ModemType
  <2>3. CASE Head(cmds)[1] = "DISCONNECT"
    BY <1>0, <1>3, <2>3 DEF Execute, Kinds, ModemType
  <2>4. QED
    BY <1>2, <2>1, <2>2, <2>3 DEF Command
<1>8. PICK line \in Line : line = <<kind, n>>
  BY DEF Line
<1>9. line[1] = kind /\ line[2] = n /\ Pending' = Append(Pending, line)
  BY <1>0, <1>1, <1>7, <1>8, LineSaid
<1>10. /\ NoneOf(Pending, "CONNECTED") => NoneOf(Pending', "CONNECTED")
       /\ OneOf(Pending, "CONNECTED", tr.own) => OneOf(Pending', "CONNECTED", tr.own)
  BY <1>0, <1>7, <1>9, KindAppend
<1>11. NumbersOK'
  <2>1. line[2] <= t
    BY <1>4, <1>5, <1>9
  <2>2. BelowD(Pending', t)
    BY <1>0, <1>4, <1>9, <2>1, NumberAppend DEF Links, NumbersOK
  <2>3. QED
    BY <1>1, <1>4, <1>5, <2>2 DEF NumbersOK
<1>12. ClearOK'
  <2> SUFFICES ASSUME tr.up, tr.clear
               PROVE  /\ op.name # "connect" => Still'
                      /\ op.name = "connect" => Asking' \/ Calling' \/ Answered'
    BY <1>1 DEF ClearOK
  <2>1. ASSUME Still PROVE Still'
    <3>1. Head(cmds)[1] # "CONNECT" /\ modem'.trying = None
      BY <1>6, <1>7, <2>1 DEF Still
    <3>2. QED
      BY <1>6, <1>10, <2>1, <3>1 DEF Still
  <2>2. ASSUME Asking PROVE Asking' \/ Calling'
    <3>1. CASE modem'.trying = None
      BY <1>1, <1>6, <1>10, <2>2, <3>1 DEF Asking
    <3>2. CASE modem'.trying = n /\ Head(cmds)[1] = "CONNECT"
      BY <1>1, <1>6, <1>10, <2>2, <3>2 DEF Asking, Calling
    <3>3. QED
      BY <1>7, <2>2, <3>1, <3>2 DEF Asking
  <2>3. ASSUME Calling PROVE Calling' \/ Asking'
    <3>1. NoneOf(cmds', "CONNECT") => OneOf(cmds', "CONNECT", tr.own)
      BY DEF NoneOf, OneOf
    <3>2. NoneOf(cmds', "CONNECT") /\ Head(cmds)[1] # "CONNECT" /\ NoneOf(Pending', "CONNECTED")
      BY <1>6, <1>10, <2>3 DEF Calling
    <3>3. modem'.trying = modem.trying \/ modem'.trying = None
      BY <1>7, <3>2
    <3>4. QED
      BY <1>1, <2>3, <3>1, <3>2, <3>3 DEF Calling, Asking
  <2>4. ASSUME Answered PROVE Answered'
    <3>1. Head(cmds)[1] # "CONNECT" /\ modem'.trying = None
      BY <1>6, <1>7, <2>4 DEF Answered
    <3>2. QED
      BY <1>1, <1>6, <1>10, <2>4, <3>1 DEF Answered
  <2>5. QED
    BY <1>0, <2>1, <2>2, <2>3, <2>4 DEF Links, ClearOK
<1>13. CloseOK'
  <2> SUFFICES ASSUME op.name = "close", tr.up PROVE tr.last # 0 /\ (Unsettled' \/ Settled')
    BY <1>1 DEF CloseOK
  <2>1. tr.last # 0 /\ Unsettled
    BY <1>0, <1>1 DEF Links, CloseOK, Settled
  <2>2. CASE Head(cmds) = <<"DISCONNECT", tr.last>> /\ cmds' = <<>>
    <3>1. modem'.trying = None
      BY <1>7, <2>2
    <3>2. NoneBehind(Pending', tr.last)
      BY <1>0, <1>9, <2>1, NumberAppend DEF Unsettled
    <3>3. QED
      BY <1>1, <2>1, <2>2, <3>1, <3>2 DEF Settled
  <2>3. CASE Head(cmds) # <<"DISCONNECT", tr.last>> /\ LastCmd(cmds', tr.last)
    <3>1. line # <<"DISCONNECTED", tr.last>>
      <4>1. Head(cmds) = <<Head(cmds)[1], n>>
        BY <1>2, <1>3 DEF Command
      <4>2. kind = "DISCONNECTED" => n # tr.last
        BY <1>7, <2>3, <4>1
      <4>3. QED
        BY <1>9, <4>2
    <3>2. NoAnswer(Pending', tr.last)
      BY <1>0, <1>9, <2>1, <3>1, NumberAppend DEF Unsettled
    <3>3. QED
      BY <1>1, <2>1, <2>3, <3>2 DEF Unsettled
  <2>4. QED
    BY <1>0, <1>1, <2>1, <2>2, <2>3, LastTail DEF Unsettled
<1>14. LinkOK' /\ UpOK'
  BY <1>0, <1>1 DEF Links, LinkOK, OwnConnected, UpOK
<1>15. QED
  BY <1>11, <1>12, <1>13, <1>14 DEF Links

LEMMA LinksStep ==
  ASSUME VaraInv, TypeInv', Next
  PROVE  Links'
<1>0. /\ op \in OpType /\ tr \in TrType /\ modem \in ModemType /\ TypeOK /\ Links
  BY TypeParts DEF VaraInv
<1>1. CASE VaraConnect \/ OpenSession \/ CloseSession
  BY <1>1, LinksConnect, LinksSend
<1>2. CASE Recv
  <2>1. UNCHANGED <<tr, cmds, wire, modem>> /\ op'.name = "recv" /\ tr.up /\ op.name = "idle"
    BY <1>2 DEF Recv, Begin
  <2>2. Pending' = Pending
    BY <2>1 DEF Pending
  <2>3. QED
    BY <1>0, <2>1, <2>2, LinksKept
<1>3. CASE DisconnectModem \/ ModemCloses
  BY <1>0, <1>3, LinksHungUp DEF DisconnectModem, ModemCloses, End
<1>4. CASE BufferedLine
  <2>1. CASE SetupFails(Head(tr.buf))
    BY <1>0, <1>4, <2>1, LinksHungUp DEF BufferedLine, End
  <2>2. CASE ~SetupFails(Head(tr.buf))
    BY <1>0, <1>4, <2>2, LineTaken, LinksTook
  <2>3. QED
    BY <2>1, <2>2
<1>5. CASE RecvLine
  BY <1>0, <1>5, LineTaken, LinksTook
<1>6. CASE ReadCommands
  <2>1. Pending' = Pending
    BY <1>0, <1>6, LinesRead
  <2>2. PICK b \in Seq(Line) : tr' = [tr EXCEPT !.buf = b]
    BY <1>0, <1>6, LinesRead
  <2>3. /\ tr'.up = tr.up /\ tr'.clear = tr.clear /\ tr'.own = tr.own /\ tr'.last = tr.last
        /\ tr'.link = tr.link
    BY <1>0, <2>2 DEF TrType
  <2>4. op'.name = op.name /\ cmds' = cmds /\ modem' = modem
    BY <1>0, <1>6 DEF ReadCommands, OpType
  <2>5. QED
    BY <1>0, <2>1, <2>3, <2>4, LinksKept
<1>7. CASE CommandTimesOut
  <2>1. op'.name = "idle"
    BY <1>7 DEF CommandTimesOut, End
  <2>2. CASE Hangup
    BY <1>0, <2>1, <2>2, LinksHungUp
  <2>3. CASE GivenUp
    <3>1. /\ tr'.last = tr.last /\ tr'.up = tr.up /\ tr'.buf = tr.buf /\ tr'.own = tr.own
          /\ tr'.link = tr.link /\ tr'.clear = (tr.clear /\ op.name # "connect")
          /\ UNCHANGED <<cmds, wire, modem>>
      BY <1>0, <2>3, GivenUpIs DEF GivenUp
    <3>2. Pending' = Pending
      BY <3>1 DEF Pending
    <3>3. QED
      BY <1>0, <2>1, <3>1, <3>2, LinksKept
  <2>4. QED
    BY <1>7, <2>2, <2>3 DEF CommandTimesOut, GivenUp
<1>8. CASE RecvData \/ RecvWaits
  <2>1. op.name = "recv" /\ op'.name \in {"recv", "idle"}
    BY <1>0, <1>8 DEF RecvData, RecvWaits, End, OpType
  <2>2. UNCHANGED <<tr, cmds, wire, modem>>
    BY <1>8 DEF RecvData, RecvWaits
  <2>3. Pending' = Pending
    BY <2>2 DEF Pending
  <2>4. QED
    BY <1>0, <2>1, <2>2, <2>3, LinksKept
<1>9. CASE LinkChanges
  <2>1. UNCHANGED <<op, tr, cmds>>
    BY <1>9 DEF LinkChanges
  <2>2. CASE /\ modem.trying # None /\ Says(<<"CONNECTED", modem.trying>>)
             /\ modem' = [modem EXCEPT !.link = modem.trying, !.trying = None]
    <3>1. modem'.trying = None
      BY <1>0, <2>2 DEF ModemType
    <3>2. QED
      BY <2>1, <2>2, <3>1, LinksUp
  <2>3. CASE /\ Says(<<"DISCONNECTED", 0>>)
             /\ \/ modem' = [modem EXCEPT !.trying = None]
                \/ modem' = [modem EXCEPT !.link = None]
    <3>1. modem'.trying \in {None, modem.trying}
      BY <1>0, <2>3 DEF ModemType
    <3>2. QED
      BY <2>1, <2>3, <3>1, LinksSaid DEF Kinds
  <2>4. QED
    BY <1>9, <2>2, <2>3 DEF LinkChanges
<1>10. CASE Chatter
  <2>1. UNCHANGED <<op, tr, cmds, modem>>
    BY <1>10 DEF Chatter
  <2>2. CASE UNCHANGED wire
    <3>1. Pending' = Pending
      BY <2>1, <2>2 DEF Pending
    <3>2. QED
      BY <1>0, <2>1, <3>1, LinksKept
  <2>3. CASE \E kind \in {"KNOWN", "UNKNOWN"} : Says(<<kind, 0>>)
    BY <2>1, <2>3, LinksSaid DEF Kinds
  <2>4. QED
    BY <1>10, <2>2, <2>3 DEF Chatter
<1>11. CASE Execute
  BY <1>11, LinksExecute
<1>12. QED
  BY <1>1, <1>2, <1>3, <1>4, <1>5, <1>6, <1>7, <1>8, <1>9, <1>10, <1>11
     DEF Next, Operator, Reading, Modem

-----------------------------------------------------------------------------
(* The results.                                                            *)

LEMMA VaraInitially ==
  ASSUME Init
  PROVE  VaraInv
<1>1. TypeOK /\ CountOK
  BY InitTypes DEF TypeInv
<1>2. /\ op.name = "idle" /\ tr.link = None /\ ~tr.up
      /\ tr.buf = <<>> /\ wire = <<>> /\ cmds = <<>>
  BY DEF Init, NewTransport
<1>3. Pending = <<>>
  BY <1>2, ConcatEmptySeq, EmptySeq DEF Pending
<1>4. Links
  BY <1>2, <1>3, NothingThere DEF Links, ClearOK, NumbersOK, CloseOK, LinkOK, OwnConnected, UpOK
<1>5. SetupOK /\ SetupConfirmed
  BY <1>2 DEF SetupOK, SetupConfirmed
<1>6. QED
  BY <1>1, <1>4, <1>5 DEF VaraInv

LEMMA VaraStep ==
  ASSUME VaraInv, [Next]_vars
  PROVE  VaraInv'
<1>1. CASE UNCHANGED vars
  BY <1>1 DEF vars, VaraInv, TypeOK, CountOK, Owed, SetupOK, SetupConfirmed, Links,
              ClearOK, Still, Asking, Calling, Answered, NumbersOK, CloseOK, Unsettled, Settled,
              LinkOK, OwnConnected, UpOK, Pending
<1>2. CASE Next
  <2>1. TypeInv'
    BY <1>2, NextTypes DEF VaraInv, TypeInv
  <2>2. Setup' /\ Links'
    BY <1>2, <2>1, SetupStep, LinksStep
  <2>3. QED
    BY <2>1, <2>2 DEF VaraInv, TypeInv, Setup
<1>3. QED
  BY <1>1, <1>2

LEMMA VaraInvariant == Spec => []VaraInv
<1>1. Init => VaraInv
  BY VaraInitially
<1>2. VaraInv /\ [Next]_vars => VaraInv'
  BY VaraStep
<1>3. QED
  BY <1>1, <1>2, PTL DEF Spec

\* The transport's state keeps its types; no operation sends more commands than
\* its budget and close_session reads no more than its cap of lines, whatever
\* the modem says (vara/transport.rs:24-63, 65-230).
THEOREM VaraTypeCorrect == Spec => []TypeOK
<1>1. VaraInv => TypeOK
  BY DEF VaraInv
<1>2. QED
  BY <1>1, VaraInvariant, PTL

\* A manager is installed only over a modem that has carried out every setup
\* command, for any number of them: each OK that await_ok takes answers the one
\* command that is out (vara/transport.rs:65-98, proxy.rs:806-838).
THEOREM SetupIsConfirmed == Spec => []SetupConfirmed
<1>1. VaraInv => SetupConfirmed
  BY DEF VaraInv
<1>2. QED
  BY <1>1, VaraInvariant, PTL

\* A session is the link of its own CONNECT, although open_session takes any line
\* that says CONNECTED: as long as no CONNECT has been given up, by this client or
\* by one before it, or once the answer to a later DISCONNECT has been read
\* (vara/transport.rs:108-172).  At most one CONNECT is then under way, and none
\* but while open_session waits for it.
THEOREM SessionIsOwn == Spec => []OwnConnected
<1>1. VaraInv => OwnConnected
  BY DEF VaraInv, Links, LinkOK
<1>2. QED
  BY <1>1, VaraInvariant, PTL
=============================================================================
