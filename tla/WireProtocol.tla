---------------------------- MODULE WireProtocol ----------------------------
(***************************************************************************)
(* Requests and responses as bytes (shared/src/protocol.rs), read_request  *)
(* of the server, and the loop of handle_send_request that puts a response *)
(* together from whatever pieces the transport delivers; dispatch_ax25     *)
(* decodes the result again.  Requests are one stream of words: what blanks *)
(* separate, and the line feeds.  A unit on the link is a pair <<kind, n>>: *)
(* n, which the code never sees, is the number of the response it belongs  *)
(* to, 0 for the node's own text.  The letters of the magic are two units, *)
(* so that they can be torn apart, and both may also occur in a payload.   *)
(***************************************************************************)
EXTENDS Naturals, Sequences, SequencesExt

CONSTANTS Words,         \* what addresses are made of: whatever is typed or linked to
          Urls,          \* sequences of words; <<>> is an address of blanks
          Etags,         \* of pages: 16 letters and digits
          Payloads,      \* sequences of "RE", "SP" and "b64"
          Eols,          \* what a node may make of a line feed
          MaxJunk,       \* 32 KiB
          MaxResponse,   \* MAX_RESPONSE_SIZE
          MaxRequests,   \* bound: requests
          MaxNoise,      \* bound: texts of the node
          None

ASSUME WireAssumption ==
    /\ Urls \subseteq Seq(Words)
    /\ Etags \cap {"IF-NONE-MATCH", "\n"} = {}
    /\ Payloads \subseteq Seq({"RE", "SP", "b64"})
    /\ Eols \subseteq {"lf", "cr", "crlf"}
    /\ {MaxJunk, MaxResponse, MaxRequests, MaxNoise} \subseteq Nat

VARIABLES eol,      \* this node's translation
          asked,    \* the requests, in their order
          uplink,   \* words the server has not answered yet
          sent,     \* the responses the server wrote, in their order
          link,     \* units on their way to the client
          up,       \* the server's session is alive
          data,     \* response_data
          frame,    \* the decoded header, or None
          pc,       \* "idle", "wait", or how the last request ended
          page,     \* what dispatch_ax25 made of the data, or None
          late,     \* a request was given up on this link, or was not Plain (history)
          noise     \* texts of the node so far

vars == <<eol, asked, uplink, sent, link, up, data, frame, pc, page, late, noise>>

-----------------------------------------------------------------------------
(* Request::encode, and read_request, which mirrors Request::decode.       *)

Tags == {<<>>} \cup {<<e>> : e \in Etags}

\* browse_get_handler, browse_post_handler and handle_browse: the parameter of
\* the query, decoded and not parsed; the tag of the cached page, if there is one.
Requests ==
    {r \in [verb : {"GET", "POST"}, url : Urls, tag : Tags] :
        r.verb = "POST" \/ r.url = <<>> => r.tag = <<>>}

\* "body" is the length of a body and the body.
Encode(req) ==
    <<req.verb>> \o req.url
        \o (IF req.tag = <<>> THEN <<>> ELSE <<"IF-NONE-MATCH">> \o req.tag) \o <<"\n">>
        \o (IF req.verb = "POST" THEN <<"body">> ELSE <<>>)

\* read_bounded_line_until: up to the first line feed, if one is there.
LineEnd(q)   == SelectInSeq(q, LAMBDA w : w = "\n")
FirstLine(q) == SubSeq(q, 1, LineEnd(q) - 1)
AfterLine(q) == SubSeq(q, LineEnd(q) + 1, Len(q))

\* read_request knows the method, and the address is not empty.
Valid(line) == Len(line) > 1 /\ line[1] \in {"GET", "POST"}

\* split_once at the first IF-NONE-MATCH between blanks.
ReadRequest(line) ==
    LET rest == Tail(line)
        at   == {i \in 2 .. Len(rest) - 1 : rest[i] = "IF-NONE-MATCH"}
    IN  IF line[1] = "POST" \/ at = {} THEN [verb |-> line[1], url |-> rest, tag |-> <<>>]
        ELSE [verb |-> line[1], url |-> SubSeq(rest, 1, Min(at) - 1),
              tag |-> SubSeq(rest, Min(at) + 1, Len(rest))]

\* How many words a request takes after its line: a POST its body, and when
\* something else follows, what those bytes say as a length.
Bodies(line, rest) ==
    IF line[1] = "GET" THEN {0}
    ELSE IF rest # <<>> /\ rest[1] = "body" THEN {1} ELSE 1 .. Len(rest)

\* A request that is one line, and on it nothing that reads as its tag.
Plain(req) ==
    /\ req.url # <<>> /\ \A i \in DOMAIN req.url : req.url[i] # "\n"
    /\ req.verb = "GET" =>
         \A i \in 2 .. Len(req.url) :
            req.url[i] = "IF-NONE-MATCH" => i = Len(req.url) /\ req.tag = <<>>

-----------------------------------------------------------------------------
(* Response::encode, decode_header and decode_payload.                     *)

EncodeResponse(n, payload) ==
    <<<<"RE", n>>, <<"SP", n>>, <<"fields", n>>, <<eol, n>>>>
        \o [i \in 1 .. Len(payload) |-> <<payload[i], n>>] \o <<<<eol, n>>>>

\* The header ends with the first byte of what became of its line feed: of a
\* CR LF the second is where the payload is looked for.
HeaderEnd(p) == IF eol = "crlf" THEN p + 2 ELSE p + 3

\* Where the magic is found in d, or 0.
MagicAt(d) ==
    LET found == {i \in 1 .. Len(d) - 1 : d[i][1] = "RE" /\ d[i + 1][1] = "SP"}
    IN  IF found = {} THEN 0 ELSE Min(found)

Header(st, n, len, end) == [st |-> st, n |-> n, len |-> len, end |-> end]

\* Defect: the announced length is that of the payload before base64.
DecodeHeaderRaw(d) ==
    LET p == MagicAt(d)
    IN  IF p = 0 \/ Len(d) < p + 3 \/ d[p + 2][1] # "fields" THEN Header("none", 0, 0, 0)
        ELSE Header("ok", d[p + 2][2], (Len(sent[d[p + 2][2]].payload) * 3) \div 4, HeaderEnd(p))

\* Magic, fields and the line's end: not yet there, malformed, or found.
DecodeHeader(d) ==
    LET p == MagicAt(d)
    IN  IF p = 0 \/ Len(d) < p + 2 THEN Header("none", 0, 0, 0)
        ELSE IF d[p + 2][1] # "fields" THEN Header("err", 0, 0, 0)
        ELSE IF Len(d) < p + 3 THEN Header("none", 0, 0, 0)
        ELSE Header("ok", d[p + 2][2], Len(sent[d[p + 2][2]].payload), HeaderEnd(p))

DecodePayload(units) == \A i \in DOMAIN units : units[i][1] \in {"RE", "SP", "b64"}

\* dispatch_ax25: the header once more, then the payload.
Dispatch(d) ==
    LET h == DecodeHeader(d)
        body == SubSeq(d, h.end + 1, h.end + h.len)
        end(how) == [how |-> how, n |-> h.n, body |-> body]
    IN  IF h.st # "ok" \/ Len(d) < h.end + h.len THEN end("incomplete")
        ELSE IF DecodePayload(body) THEN end("page") ELSE end("invalid")

-----------------------------------------------------------------------------
Init ==
    /\ eol \in Eols
    /\ asked = <<>> /\ uplink = <<>> /\ sent = <<>> /\ link = <<>>
    /\ up = TRUE /\ late = FALSE /\ noise = 0
    /\ data = <<>> /\ frame = None
    /\ pc = "idle" /\ page = None

\* Defect: the data of the last request is still there.
AskKeepsData ==
    /\ pc # "wait" /\ Len(asked) < MaxRequests
    /\ \E req \in Requests :
         /\ asked' = Append(asked, req)
         /\ uplink' = IF up THEN uplink \o Encode(req) ELSE uplink
         /\ late' = (late \/ ~Plain(req))
    /\ frame' = None /\ pc' = "wait" /\ page' = None
    /\ UNCHANGED <<eol, sent, link, up, data, noise>>

\* handle_send_request begins: nothing of an earlier request is kept.
Ask ==
    /\ pc # "wait" /\ Len(asked) < MaxRequests
    /\ \E req \in Requests :
         /\ asked' = Append(asked, req)
         /\ uplink' = IF up THEN uplink \o Encode(req) ELSE uplink
         /\ late' = (late \/ ~Plain(req))
    /\ data' = <<>> /\ frame' = None /\ pc' = "wait" /\ page' = None
    /\ UNCHANGED <<eol, sent, link, up, noise>>

\* The page, NotModified when its tag is the one asked with, or an error; a
\* POST is always refused.
Respond(req) ==
    \E tag \in (IF req.verb = "POST" THEN {<<>>} ELSE Tags), payload \in Payloads :
        LET body == IF tag = req.tag /\ tag # <<>> THEN <<>> ELSE payload
        IN  /\ sent' = Append(sent, [req |-> req, payload |-> body])
            /\ link' = link \o EncodeResponse(Len(sent) + 1, body)

\* The server closes the connection and the node says so.
SessionEnds == link' = Append(link, <<"dead", 0>>) /\ up' = FALSE /\ uplink' = <<>>

\* The server answers the requests it reads in their order.  A line that is no
\* request, or a body of more than MAX_BODY_SIZE, ends the session.
Serve ==
    /\ up /\ LineEnd(uplink) # 0
    /\ LET line == FirstLine(uplink)
           rest == AfterLine(uplink)
       IN  \/ /\ Valid(line) /\ Respond(ReadRequest(line))
              /\ \E j \in Bodies(line, rest) : uplink' = SubSeq(rest, j + 1, Len(rest))
              /\ UNCHANGED up
           \/ /\ Valid(line) => line[1] = "POST"
              /\ SessionEnds /\ UNCHANGED sent
    /\ UNCHANGED <<eol, asked, data, frame, pc, page, late, noise>>

\* The node writes text of its own, or the session ends for another reason.
NodeText ==
    /\ up /\ noise < MaxNoise
    /\ noise' = noise + 1
    /\ \/ link' = Append(link, <<"text", 0>>) /\ UNCHANGED <<up, uplink>>
       \/ SessionEnds
    /\ UNCHANGED <<eol, asked, sent, data, frame, pc, page, late>>

-----------------------------------------------------------------------------
(* The loop of handle_send_request.                                        *)

\* The request ends without a response; the rest of it may still come.
GiveUp(how) == pc' = how /\ late' = TRUE /\ UNCHANGED <<data, frame, page>>

\* Defect: only what has just arrived is searched for a header.
TakeChunk(chunk) ==
    LET all == data \o chunk
        h   == IF frame = None THEN DecodeHeader(chunk) ELSE frame
    IN  \/ /\ h.st = "err" /\ GiveUp("died")
        \/ /\ h.st # "ok" \/ Len(all) < h.end + h.len
           /\ data' = all /\ frame' = IF h.st = "ok" THEN h ELSE None
           /\ UNCHANGED <<pc, page, late>>
        \/ /\ h.st = "ok" /\ Len(all) >= h.end + h.len
           /\ data' = all /\ frame' = h /\ pc' = "done" /\ page' = Dispatch(all)
           /\ UNCHANGED late

Take(chunk) ==
    LET all == data \o chunk
        h   == IF frame = None THEN DecodeHeader(all) ELSE frame
        dead == \E i \in DOMAIN all : all[i][1] = "dead"
    IN  \/ Len(all) > MaxResponse /\ GiveUp("failed")
        \/ /\ Len(all) <= MaxResponse
           /\ \/ (dead \/ h.st = "err") /\ GiveUp("died")
              \/ /\ ~dead /\ h.st = "none" /\ MagicAt(all) = 0 /\ Len(all) > MaxJunk
                 /\ GiveUp("died")
              \/ /\ ~dead
                 /\ \/ h.st = "none" /\ (MagicAt(all) # 0 \/ Len(all) <= MaxJunk)
                    \/ h.st = "ok" /\ Len(all) < h.end + h.len
                 /\ data' = all /\ frame' = IF h.st = "ok" THEN h ELSE None
                 /\ UNCHANGED <<pc, page, late>>
              \/ /\ ~dead /\ h.st = "ok" /\ Len(all) >= h.end + h.len
                 /\ data' = all /\ frame' = h /\ pc' = "done" /\ page' = Dispatch(all)
                 /\ UNCHANGED late

\* The transport delivers what has arrived, in pieces of any size.
Receive ==
    /\ pc = "wait"
    /\ \E k \in 1 .. Len(link) :
         /\ Take(SubSeq(link, 1, k))
         /\ link' = SubSeq(link, k + 1, Len(link))
    /\ UNCHANGED <<eol, asked, uplink, sent, up, noise>>

\* Nothing for response_timeout_secs, or the transport reports the end.
TimesOut ==
    /\ pc = "wait"
    /\ GiveUp("died")
    /\ UNCHANGED <<eol, asked, uplink, sent, link, up, noise>>

\* handle_reconnect, or the operator's: a new link with nothing on it; or the old
\* one goes on (reopen_modem_connection does nothing over VARA, and a node may not
\* have heard the disconnect), less what the new handshake has read of it.
Reconnect ==
    /\ pc # "wait"
    /\ pc' = "idle"
    /\ \/ link' = <<>> /\ uplink' = <<>> /\ up' = TRUE /\ late' = FALSE
       \/ /\ \E k \in 0 .. Len(link) : link' = SubSeq(link, k + 1, Len(link))
          /\ UNCHANGED <<uplink, up, late>>
    /\ data' = <<>> /\ frame' = None /\ page' = None
    /\ UNCHANGED <<eol, asked, sent, noise>>

Next == Ask \/ Serve \/ NodeText \/ Receive \/ TimesOut \/ Reconnect

Spec == Init /\ [][Next]_vars

-----------------------------------------------------------------------------
(* Properties.                                                             *)

\* However a response is cut into pieces, whatever text precedes it and
\* whatever is left of a response given up earlier, what is shown is one
\* response of the server, whole (session.rs:430-540, proxy.rs:440-450).
WholeAnswer ==
    page # None /\ page.how = "page" =>
        page.body = [i \in 1 .. Len(sent[page.n].payload) |-> <<sent[page.n].payload[i], page.n>>]

\* On a link on which no request was given up and every one was Plain, a request
\* that ends well shows the server's answer to that very request, as the client
\* asked it: the line feed that trails the previous response does not count
\* (session.rs:397-399, 472-502).  A node that makes two bytes of a line feed
\* spoils the payload, and then nothing is shown rather than something wrong.
AnswerIsMine ==
    pc = "done" /\ ~late =>
        /\ page.how = "page" \/ eol = "crlf"
        /\ sent[page.n].req = Last(asked)

\* No response is swallowed: a request does not wait when everything that was
\* written for it has been received (session.rs:472-540).
NothingSwallowed ==
    pc = "wait" /\ up => uplink # <<>> \/ link # <<>>
=============================================================================
