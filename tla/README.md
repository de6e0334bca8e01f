# packet-browser: TLA+ models, checks and proofs

packet-browser lets a radio amateur read web pages over AX.25 packet radio. A
**client** on the operator's machine (`client/`) serves a local web UI, talks to
a modem over AGWPE or VARA, logs in to a **server** (`server/`) behind a BPQ
node, has the operator consent to the server's logging disclaimer, and then
exchanges framed requests and responses. This directory keeps formal models of
that system beside the code.

## 1. Inventory

| Component | State | Operations | Interacts through |
|---|---|---|---|
| HTTP API, `client/src/proxy.rs` | none of its own | browse, connect, disconnect, modem status, consent GET/POST, config, events, cache pages | locks `AppState`, awaits `TransportManager`, reads and writes the cache |
| Transport manager, `transport/manager.rs` | `mpsc` channel (32), abort flag | seven `TransportCommand`s, one at a time | one-shot reply channels |
| Session driver, `transport/session.rs` | `SessionState` (time-out, abort flag) | link open, BPQ handshake, consent wait, request/response, reconnect, retry | `Transport` trait, `AppState` |
| AGWPE transport, `transport/agwpe.rs` | TCP stream, read buffer, call signs | connect/register, port query, link open, send, recv, disconnect-and-drain, reopen | modem over TCP |
| VARA transport, `transport/vara/` | command and data streams | the same trait | modem over two TCP streams |
| `AppState`, `client/src/state.rs` | `connection_state`, `pending_consent`, `last_agreed_disclaimer`, log ring, ports, config | setters under one mutex | shared by handlers and actor |
| Page cache, `client/src/cache.rs` | SQLite table of pages | lookup, insert with eviction, touch, delete, clear | used by browse |
| Server admission, `server/src/main.rs` | total and per-address counters | accept, refuse, release | a thread per connection |
| Server connection, `server/src/main.rs`, `session.rs` | session, browser, deadlines | call sign, disclaimer, AGREE, request loop | TCP stream from the node |
| Request handling, `filter.rs`, `blocklist.rs`, `proxy.rs`, `browser.rs`, `origin_cc.rs` | blocklist, browser process | filter, fetch, render, ETag, error pages | called per request |
| Wire protocol, `shared/` | none | request and response codecs, compression | both sides |
| Log and configuration | files | append, load | -- |

**What is hard.** The actor is serial, but the handlers run beside it and share
an abort flag and three `AppState` fields with it. Handlers can be dropped at
any await. The radio link loses notices, answers late, and can outlive both the
client's session and the modem's TCP stream; a response does not say which
request it answers. Consent -- a legal matter here -- is decided in a browser
tab, under three separate locks, racing a 300 s time-out. A reconnect repeats
the whole login automatically and then repeats the request. `PROJECT.json`
lists these hazards line by line with the properties that watch over them.

**What makes the parts correct.** Handshake and reconnect: AGREE only with
consent, `Connected` only on an agreed link, no state left behind. Manager:
every command answered, Disconnect effective promptly. Requests: never twice in
one server session, answers to the right request. Cache: what is served as fresh
is fresh and belongs to its URL. Admission: counters return to zero. Server
session: requests only after AGREE, deadlines end idle sessions. Codecs: decode
inverts encode.

## 2. Plan

Done, in this order, each with its section below:

1. **`ClientSession`** with `MCClientSession`, `ClientClaims`, `ClientSessionProofs`
   and `ClientLinkProofs`: manager, session driver, AGWPE transport, consent API and
   their peer. It carries the program's core promise.
2. **`ServerAdmission`** with `MCServerAdmission`, `ServerAdmissionProofs` and the
   abstract **`AdmissionSpec`** it is shown to implement: the accept loop's counters.
3. **`PageCache`** with `MCPageCache` and `PageCacheProofs`: the cache under the
   browse handlers, with the life the server reads out of the origin's headers.
4. **`FetchFilter`** and, composed with it, **`ServerSession`** with `MCServerSession`
   and `ServerSessionProofs`: a connection's thread, its browser, the proxy the
   browser loads through, the blocklist.
5. **`WireProtocol`** with `MCWireProtocol` and `WireProtocolProofs`: requests and
   responses as bytes.
6. **`VaraTransport`** with `MCVaraTransport` and `VaraTransportProofs`: the second
   transport.

Left:

* an abstract request/response service, with `ClientSession` shown to implement it
  on links on which no request was given up; `PageCache` composed with it (a late
  answer is stored under another URL);
* two managers over one `AppState`, after a connect by VARA;
* theorems: what the eviction loop computes (`InsertRestoresCap`,
  `EvictsLeastRecent`), which needs facts about sums and folds that the prover's
  induction does not reach as the operators are defined now.

## 3. `ClientSession`

### State

| Variable | Code |
|---|---|
| `conn`, `pending`, `agreed` | `connection_state`, `pending_consent` (the number of the prompt whose sender it holds), `last_agreed_disclaimer` |
| `abort`, `queue` | the manager's `abort_flag` and channel |
| `h` | what each running HTTP handler is doing: command, reply, for consent the text on its tab's modal |
| `pc`, `cur`, `retried`, `text`, `prompts`, `chan` | where the actor is, its command, whether the retry is under way, the disclaimer of this handshake, the one-shot channel |
| `modem`, `rx` | the TCP stream and the frames that are under way or buffered |
| `phase`, `inq` | the far end (node command line, or a phase of `handle_connection`) and the lines under way to it |
| `displayed`, `accepted`, `signed`, `served`, `tainted`, `afterAbort` | history, read by properties only |

One action stands for the code between two awaits, or between two accesses to
shared state where another thread can act in between: the consent POST is four
actions, a reconnect has eight program points, each followed by the code's look
at the abort flag (`Proceed`). `map` in `PROJECT.json` gives the lines of every
definition.

* **Handlers**: `Begin`, `Enqueue`, `Return`, `Abandon` (the browser goes away),
  `ConsentGet`, `ConsentTake`, `ConsentRead`, `ConsentRecord`, `ConsentSend`,
  `DeclineDisconnects`. Disconnect raises the flag in `Issue`, before its command is
  queued. A tab whose decline was delivered sends a Disconnect of its own 250 ms
  later (`submitConsent` in `ui.rs`), in the model at any later time; a tab that is
  closed in between does not.
* **Actor, modem**: `StartConnectModem`, `TcpUp`, `TcpFails`, `Registered`,
  `RegistrationFails`, `StartDisconnectModem`, `DisconnectModem`,
  `StartQueryPorts`, `QueryPorts`. `TcpUp` and `Registered` serve
  `connect_modem` and `reopen_modem_connection`. `disconnect_modem` has no route
  of its own; it is the operator's event `shutdown`.
* **Actor, session**: `StartOpenSession`, `LinkOpens`, `LinkFails`, `AppCommand`,
  `Callsign`, `SkipText`, `AskConsent`, `Consented`, `Declined`,
  `ConsentTimesOut`, `CompareDisclaimer`, `SendAgree`, `HandshakeFails`,
  `StartCloseSession`, `CloseSession`. The handshake's program points exist twice
  (`hs_`, `rc_`), as `perform_bpq_handshake` and `handle_reconnect` differ in the
  abort checks and in how consent is obtained.
* **Actor, requests**: `StartRequest`, `RequestCheck`, `RequestSend`,
  `RequestAnswered`, `RequestText`, `SessionDied`, `RequestFails`, `ReopenModem`.
* **Peer**: `NodeLine` and `LinkEstablished` (the BPQ node, external: it may keep a
  link whose disconnect was lost and resume it on the next Connect, as the
  comment above `send_disconnect_and_drain` describes), `ServerCallsign`,
  `ServerAgree`, `ServerNoBrowser`, `ServerRequest` (`handle_connection`),
  `PeerEnds`, `Noise`, `ModemDies`.

Abstractions: a disclaimer, a request and a response are one frame each, and a
disclaimer is any member of `Disclaimers`, so a text that the loop accumulates
differently after fragmentation is another member. A time-out may fire at any
time, including just before a frame that is already there is read. A send is
complete or lost. `reopen_modem_connection` shows `AgwpeConnected` for an instant
between two statements of the actor; no handler tells it from `Reconnecting` and
the model keeps `Reconnecting`. Browse requests that the page cache answers never
reach the manager; they are `ServeHit` of `PageCache`.

### Runs

`MCClientSession` gives two tabs, two texts, a channel of two (of one in
`handshake`, so that it fills up) and a **budget**: how
often each operator or environment event (`Kinds`) may happen. Everything else --
the actor, handlers and server -- is unbounded. Budgets are what bound the state
space, so behaviours may end: `CHECK_DEADLOCK FALSE`. Tabs and texts are
interchangeable and used as symmetry sets, except for liveness.

| Run | Instance | Shows |
|---|---|---|
| `handshake` (785k states) | two modem connects, two session opens, two accepts, a decline, shutdown, a dying modem, a late link confirmation | types; `SlotMatchesPrompt`; `AgreeIsConsented`; `ConnectedIsAgreed` |
| `reconnect` (646k) | two requests with auto-reconnect, a disconnect, a vanishing peer, a lost disconnect, a closed tab | `AgreeIsConsented` on the automatic path; `NoStuckReconnecting`; `QuietAfterAbort`; `NoReplayInSession` |
| `answers` (158k) | three requests without auto-reconnect, direct alias, stray text, two sessions | `CleanLinkAnswers`: the exact condition under which pages can be mixed up |
| `liveness` (35k) | one of each, `FairSpec` | `CommandsAnswered`, `PromptsResolve` |

The bounds let each race happen: two tabs are needed for a POST to meet another
handshake than the one its modal was opened for, two texts for a changed disclaimer,
two session opens for a stale sender, two requests for a stale answer. `PROJECT.json`
names a defect of the code for each property that breaks it on the same instance.

**Fairness.** `FairSpec` asks weak fairness of the actor and of each handler: the
tokio runtime polls a task that can run, and every wait of the actor has a
deadline (5 s registration, 30 s link, 300 s consent, the response time-out,
3 s drain). Nothing is asked of the operator, the modem or the peer.

### Where documents and code differ

`ClientClaims` states the README's sentence that on a time-out of the prompt the
client tears down the link: at some time before the next prompt, by whatever part of
the client. TLC refutes it under `FairSpec` (`claim_timeout`): the link and the
server session stay, and the next Connect resumes them. After a decline the tab does
tear the link down, unless it is closed within its 250 ms; the session it then
disconnects is the one there is by then, which another tab may have opened.

Four more sentences do not hold of the code, for which no run is kept:

* a request queued before a disconnect is dropped (`session.rs:376`): a queued
  ConnectModem or OpenSession has reset the flag first;
* a changed disclaimer lets the UI open the consent modal (`session.rs:560`): there
  is no sender, and the POST is refused;
* the operator agrees to the disclaimer surfaced (`README.md:63`): a modal left open
  accepts a later text;
* a cancelled connect wakes the prompt as a decline (`state.rs:131`): nothing drops
  the sender, and a later accept sends AGREE.

Four smaller differences show as well. Each
SessionDied is said to lead to `Reconnecting`
(`docs/superpowers/specs/2026-07-20-graceful-reconnect-design.md:62`): without
auto-reconnect, and for the retry, `Connected` stays. An aborted reconnect is said
to emit no AGREE (:189): the flag can be raised between its last check and the
send, which is why `QuietAfterAbort` allows one such frame. Consent is said to
be cleared on disconnect (:39): not when `close_session` fails. A NotModified is
said to confirm "our cached etag" (`client/src/proxy.rs:454`): see section 6.

## 4. Proofs about `ClientSession`

`ClientSessionProofs` proves, for every set of handlers and disclaimers, every
channel capacity, both settings of `AutoReconnect` and `SkipBpqApp` and every
budget: `TypeCorrect`, `SlotSafe`, `AgreeSafe`, `ConnectedSafe`,
`ReconnectingSafe`, `AbortSafe`. The only assumption is `ConstantsAssumption`:
`None` is not a disclaimer, and constants have their types.

All follow from one inductive invariant, `IInv`. None of the properties is
inductive alone:

* `TypeOK` needs `HandlerInv` (what is enqueued is a command) and, because an
  accepted text is read from `connection_state`, `SlotMatchesPrompt`.
* `SlotMatchesPrompt` needs `SenderInv`: a sender that a POST has taken is of an
  earlier prompt, or of this one and then the slot is empty. That rules out a
  second decision for a prompt that is still open.
* `AgreeIsConsented` needs `YesInv` and `SenderInv` for the operator's path (a
  positive decision has its text among the accepted ones) and `ShownInv` for the
  automatic one (everything that can become `last_agreed_disclaimer` was shown).
* `ConnectedIsAgreed` and `NoStuckReconnecting` need `ControlInv`, which ties the
  shown state to the program point.
* `QuietAfterAbort` needs `AbortInv`: the points from which a line leaves without
  another look at the flag are reached only with nothing sent since it was raised.
  The frame of `reopen_modem_connection` is not preceded by a look: a request that is
  sent just after the flag was raised, and then times out, begins a reconnect, whose
  first act is a disconnect frame. So up to two frames leave, the second of them the
  teardown; the look after it ends the command.

The argument has a type lemma per operator, a lemma per process saying what it
leaves alone (`PeerFrame`, `HandlerFrame`, `ActorHandlers`, `ActorConsent`,
`ActorShown`), then one preservation lemma per conjunct with a case per action.

**The link.** `ClientLinkProofs` adds `NoReplaySafe` and `CleanAnswersSafe`, under
the same assumption. Both are about what is on its way in the two directions, and
rest on `LinkInv`, which is inductive together with `IInv`:

* `SessionInv` and `RetryInv` carry `NoReplayInSession`. Lines are read in the order
  they were sent, so it is enough that two copies of one request on their way have
  an application command between them, and that a copy of a request already served
  has one ahead of it: no session survives that command. When the reconnect repeats
  the request it has sent the command (`Fenced`). With `SkipBpqApp` it sends none;
  there a session left over from before has no more than one text to come that takes
  the handshake a step further (`OneToken`, `NoToken`), and the handshake needs two.
* `NumberInv` numbers commands in the order of the queue: what is on its way belongs
  to the current command or an earlier one.
* `CleanInv` carries `CleanLinkAnswers`: on a link on which no request was given up
  there is one request or one response, of the command that waits.

`NoReplayInSession` says that a session never reads a request it has served. The
stronger sentence, that a request's two copies are never under way together, is
false: with a lost disconnect and sessions left over from earlier connects both can
be in the queue to a node that keeps the link, with the application command between
them.

**Model-checked only**: the liveness properties, which are out of the prover's reach
under fairness.

## 5. `ServerAdmission`

`at` is the socket the accept loop is busy with, `stage` what has happened to each
socket, `addr` its peer's address (`None` if `peer_addr()` failed), `count` and
`peers` the two counters; an address without a map entry has `peers[ip] = None`.
Each action is one access to a counter, so threads can act between the loop's
look at the map (`PeerCap`), its `fetch_add` (`ClaimSlot`) and the two halves of
its roll-back (`ReleaseSlot`, `RollbackPeer`). A thread's two guards drop in the
reverse order of their declaration (`DropPeerGuard`, `DropConnGuard`), whether
`handle_connection` returned or panicked. A lock is never lost: the code takes a
poisoned mutex anyway. A failing `accept` changes nothing. A failing
`thread::spawn` ends the process and is left out.

Run `admission` (1440 states, no budgets: sockets are used again for ever) has four
sockets, two addresses, three slots and two per address, so both caps are met, by
known and unknown addresses. It checks `CountExact`, `PeersExact`, `CapsHold`,
`RefusedForCause` and `ImplementsAdmission`, and deadlock freedom.

**The abstract specification.** `AdmissionSpec` has no counters, no map and no
roll-back: a socket is idle, served, ending or turned away, and `Admit` and
`TurnAway` look at the sockets themselves. The refinement mapping (`Shown`) reads a
socket's stage: it is served from the moment its slot is claimed until its address
has been given back, ending until the slot is, turned away from the moment a cap has
refused it. The point at which a socket is admitted is `ClaimSlot`, one step after
its address was counted, so the proof has to show that the per-address share
counted in between is the share of those served.

`ServerAdmissionProofs` proves `TypeCorrect`, the four properties and the
refinement (`AdmissionRefined`) for every finite set of sockets, every set
of addresses and every two caps of at least one (`AdmissionAssumption`). The
inductive invariant adds `LoopInv` (the loop is busy with one socket, which is what
makes a refusal exact: nothing but threads holds slots when `ClaimSlot` looks) and
`ShareBounded`, the per-address cap for connections still in the loop. `OneElement`,
`Move` and `MoveFrom` reduce every step to a set that gains or loses one socket.

## 6. `PageCache`

`db` is the SQLite table (a row or `None` for each URL; a page is represented by its
tag, which is a hash of its content), `cap` the limit of this run of the client,
`now` the clock in seconds, `tab` what each browse handler is doing, `content` the
version of each page on the web. `heard` and `stuck` are history for the properties;
a confirmation counts in `heard` only when its touch_fresh took effect.
Each method of `Cache` is one step, as it is under one mutex; a handler makes several
with a round trip in between: `Browse` (first lookup), `ServeHit`, `SendConditional`
(second lookup), `ServerAnswers`, `StoreAnswer` (insert), `Confirm` (touch_fresh),
`ServeConfirmed` (third lookup), `RequestFails`. `Evict` is the eviction loop as a
fold over the rows in the order the query returns them, ties in any order.
`DiskFaults` lets each statement fail the way its caller handles it: a failing SUM
counts as 0 and a failing victims query as an empty list (`Victims`), so that the
insert is committed and nothing evicted. An answer
carries the origin's headers; `ParseCacheControl` is what the server's probe makes
of them, `Permits` the reference definition the property uses instead: each
directive on its own, with no order between them. A probe that failed is the header
record without anything in it.

`ClockFaults` lets the clock be set back: a row is then from the future and not
fresh until the clock has caught up with it.

Abstractions: `fetched_at` loses no fraction of a second (the code may expire a row up
to a second early, never late); `MaxTtl` does not change at a restart; the browser's
own 304 is a `ServeHit`. Answers reach the request they answer; what happens when they
do not is `CleanLinkAnswers` of section 3 and a composition still to be made. The runs
have no budget; `MaxTime` bounds the clock only.

| Run | Instance | Shows |
|---|---|---|
| `cache_eviction` (38k states) | one tab, three pages of two sizes, two limits, restarts, every statement may fail | `InsertRestoresCap`, `EvictsLeastRecent`, up to rows whose own DELETE failed and inserts whose total or victims could not be read |
| `cache_races` (1.9M states) | two tabs on one page, six kinds of headers (private, no-cache, s-maxage against max-age, above both limits, Expires, none), a clock that may be set back | types; `FreshMeansConfirmed` |

What the model shows beyond the properties. `Confirm` compares the tag of the answer
with the tag that was sent: if another tab's reload has stored a newer version in
the meantime, that version's age restarts on a confirmation of the older one
(which is why `FreshMeansConfirmed` speaks of the server's last word on the URL).
The headers that come with a NotModified are not looked at: a page that has become
private in the meantime keeps the life it was stored with. A
reload whose answer has a negative `max_age` is not stored and leaves the older row:
the next visit shows the older page as fresh.

One page larger than the smaller limit and three pages over it make every branch of
the loop happen; two tabs are what a replaced row needs.

**Proofs.** `PageCacheProofs` proves `CacheTypeCorrect` and `FreshIsConfirmed` for
any number of tabs, pages and versions, any headers and limits, with statements that
fail and a clock that is set back (`CacheAssumption`). The inductive invariant
`CacheInv` adds to the types `RowsOK`: every row carries the moment of the server's
last word on its page, and the life that `ParseCacheControl` and the two limits make
of the headers in it. `ParsePermits` shows, for every header record, that a page
whose age is below that life is one that `Permits`, the reference definition,
permits. Of the eviction loop the proofs use only that it removes rows: what it
removes (`InsertRestoresCap`, `EvictsLeastRecent`) is a fold over a sequence against
a sum over a set, and stays with TLC.

## 7. `ServerSession` and `FetchFilter`

`FetchFilter` is what stands between the browser and the network. `conn` are the
requests in the proxy, `blocklist` the names in force, `update` a refresh in
progress. `Ask` is the check of port and name, `Pin` the one lookup of
`resolve_and_pin` whose first address is checked and kept, `Connect` and `Done` the
connection to it. The name service is external and may answer differently each
time (`Answers`). An address is its IPv4 bits and the form it comes in: plain,
IPv4-mapped, 6to4, an IPv6 network of the host's own, any other. `Masked` and
`InCidr` are the code's mask arithmetic for `AddrBits` bits; the property compares
with `Block`, the aligned block of addresses a prefix stands for. The refresh
(`StartUpdate`, `FetchList`, `UpdateFails`, `Swap`) collects list after list and
replaces the set at the end only.

`ServerSession` extends it with one connection's thread: `pc` is where it is, `rd` the
read in progress, `clock` the time against the deadline in force, `driver` the
geckodriver processes (owned, alive, lost) and what Firefox has in memory, `job` the
request and its probe thread, `page` the page on the web. `since` and `wrote` are
history. A read is two steps (`StartRead` looks at the deadline, then the thread is
inside the read), because `read_until` comes back to the loop only when a poll
interval passes without a byte. The actions follow `handle_connection`:
`CallsignLine`, `NoiseLine`, `AgreeLine`, `SpawnDriver` .. `WebDriverFails` for
`BrowserInstance::new`, `OldClosed` for the drop of the browser that a new one, or a
failed launch, replaces, `GetLine`, `PostLine`, `BadLine`, then `Validate`,
`NoBrowser`, `PageLoads`, `Fetched`, `FetchFails`, `BrowserCrashes` and `Deliver` for
`handle_request`. A write that fails is a response with `wrote = None`; the loop goes
on, as in the code.

Firefox's memory cache is on (`browser.rs:141`): what has been loaded (`PageLoads`)
may be what a later `goto` shows, with no load of its own (`Fetched`). A new browser
starts with nothing. All loads are taken to go through the proxy, as the preferences
of `BrowserInstance::new` ask of Firefox. Polls are aligned with the deadline here;
in the code a silent read that begins just before its deadline overruns it by up to
one more poll.

Run `server` (0.9M states): eight addresses with a blocked range of two of them, one
name that may resolve to either, a mapped literal, a local name, two lists, two page
versions, one failed launch, crashes without bound, deadlines of one poll and lines of
one byte before the end, so that a line can just outlive its deadline. One slot in the
proxy is enough: slots do not interact, and the proofs have any number. `Horizon`
bounds the time without an exchange and `MaxFaults` the failed launches; everything
else is unbounded. One failed launch is enough for a session that has lost its browser
and gets another one at its next request; the proofs have any number.

* `ReadsBounded`: skipped lines do not extend the 300 s before AGREE, and a read
  outlasts its deadline by no more polls than a line has bytes. The bound is real:
  a peer that sends one byte per poll does keep a read alive that long.
* `FullIdleWindow`: the idle clock, the restart of a crashed browser and the repeated
  fetch do not get in each other's way.
* `AnswerIsCurrent`: a tag is that of the page at some moment since the browser in use
  was started, not necessarily since the request: NotModified may be concluded from
  Firefox's memory. An answer may be the proxy's own refusal page: it has a tag like
  any other.
* `RequestsAnswered`: a request comes to its end, or its thread enters a call that may
  never return (`NoLimit`).
* `DriversReclaimed`: processes are accounted for. Those whose WebDriver session
  could not be created are lost (`WebDriverFails`): dropping a `Child` does not end
  its process, which the property admits and counts.
* `OutboundAllowed`: no proxied connection is open to a blocked address, whatever
  the name resolved to before or resolves to later. `ListedStaysBlocked`: once a
  refresh has succeeded, a name that stays on the lists stays blocked.

**Fairness** (`RequestsAnswered` only): the thread takes its own steps (`Launch`,
`Handle`), which the 30 s wait for the driver and the 15 s time-outs of the
WebDriver session guarantee, and the probe ends by its client's time-out. Nothing is
asked of the calls without a time-out (`WebDriver`): `connect` and `update_timeouts`
of `BrowserInstance::new`, and `close` when a browser is dropped. One of them that
hangs keeps the thread, and with it the connection's slot of section 5, for ever. Nor
is it assumed that a browser stops crashing: every restart goes through those calls,
and a browser that crashed at every fetch would keep `handle_request` in its loop.

**Proofs.** `ServerSessionProofs` proves all but `RequestsAnswered`, for any limits,
address width, ranges, lists, lookups and number of proxied requests
(`FilterAssumption`, `SessionAssumption`). The inductive invariant is
`FilterInv /\ SessInv`:

* `FilterInv` ties each stage of a proxied request to what has been checked of it (an
  address is unblocked once pinned, whatever the name resolves to later), and says
  that a refresh in progress has all of the lists before `next` (`UpdateOK`), without
  which `Swap` could install less than the lists have.
* `SessInv` adds to the types `ReadOK` (the clock the code looks at is the time since
  the last exchange, and a read in progress is beyond its deadline by at most the
  bytes of the line so far), `DriverOK` and `JobOK` (what is in Firefox's memory, and
  what was fetched, is among the versions the page has had since that browser was
  started).
* `BlockIsCaught` proves the mask arithmetic against `Block`, the prefix lengths 0 and
  `AddrBits` included.

The two action properties rest on `Writes`, which says for each step what it may
have written.

## 8. `WireProtocol`

Requests are one stream of words to the server: what blanks separate, and the line
feeds. `Requests` are those of the browse handlers, GET with or without a tag and
POST; the address is the decoded query parameter, which nobody parses, and so any
sequence of `Words`. `ReadRequest`, `Valid` and `Bodies` are `read_request`: the line
up to the first line feed, its method, the first IF-NONE-MATCH between blanks, and
for a POST the length and the body that follow; where a line feed in the address puts
other bytes in their place, those are taken for a length, and any number of words
may be the body. A line that is no request ends the session (`SessionEnds`), as does
a body that is too large.

A response is the magic (two units, so that it can be torn), the fields, a line end,
the payload's units and a line end. Each unit carries the number of its response,
which only the properties see. `Receive` delivers any prefix of what is on the link,
`Take` is one turn of the loop in `handle_send_request`, `Dispatch` the second
decoding in `dispatch_ax25`. `GiveUp` leaves the rest of a response on the link.
`Reconnect` has a new link, or goes on with the old one and what is on it: over VARA
`reopen_modem_connection` does nothing, and a node may keep a session. `NodeText`
(external) puts the node's text between responses or ends the session.

`Plain` is what the client would have to ask of an address and does not: no line
feed, and no IF-NONE-MATCH that reads as the tag's announcement. A request that is
not `Plain` may become several, with several responses, and the next request shows
the answer to one of them. `late` remembers that, as it does a request given up.

Run `wire` (0.8M states): two requests, a plain address and one with a line feed, a
tag's announcement and a second request in it, a payload with the letters of the
magic, a node that keeps a line feed or makes two bytes of it, one text of the node's
own, limits small enough to be exceeded. Two requests are what a left-over needs.
`WholeAnswer` and `NothingSwallowed` hold whatever was asked or given up before,
`AnswerIsMine` on links on which every request was `Plain` and none was given up.
Behaviours end with the requests: `CHECK_DEADLOCK FALSE`.

A node that makes CR LF of a line feed spoils every payload: the header ends with
the CR, the LF is taken for the first byte of the base64 and the answer is invalid,
while `protocol.rs:138` says the format is designed to survive CRLF translation; it
does if that means CR for LF, which `decode_header` accepts.
`AnswerIsMine` admits that nothing is shown, and nothing wrong is.

Abstractions: blanks at the ends of an address, which `trim` removes, are not words;
a line of more than `MAX_LINE_LENGTH` ends the session like the node's notice does
(its reading is `HearByte` of section 7); a server that answers a tag by NotModified
does so for the page it has then.

**Proofs.** `WireProtocolProofs` proves the three properties for any addresses,
tags, payloads and limits, however the responses are cut, and `RequestRoundTrip`:
the server reads an encoded request back, as one line with nothing left over but its
body, if and only if it is `Plain`. Of addresses nothing is assumed (`WireAssumption`:
a page's tag is neither a line feed nor IF-NONE-MATCH, payloads are base64, constants
have their types). The invariant `WireInv` looks at what the request has read and
what is still on the link as one `Stream`, so that a delivery of any size leaves it
as it is:

* `Intact`: behind every header of the stream there is the whole payload of its
  response. What a request given up leaves behind is the rest of a stream, which is
  intact as well; this is why `WholeAnswer` needs no condition.
* `Reading`: `frame` is what `DecodeHeader` makes of the data, which is incomplete.
  `HeaderExtends` shows that more data does not change a header once it is found,
  `DispatchWhole` that the second decoding finds what the loop found.
* `Answered`: when no line is left for the server, the stream holds a header. With
  `Intact` and `Reading` this gives `NothingSwallowed`.
* `Clean`: on a link without a lost answer, all of whose requests were `Plain`, there
  is one request, or one header, and it is of the last request. `Shown` keeps what was
  shown true while the server goes on.

## 9. `VaraTransport`

The module is the life of one transport. `tr` is the transport (sockets,
`cmd_line_buf`, the link it believes in), `op` the operation in progress with its age
in polls of 500 ms, `cmds`, `wire` and `bytes` what is on its way, `modem` the modem's
view. `VaraConnect` is `connect_modem`, once, as `api_connect_handler` calls it on a
transport it has just made: the setup commands one by one, the installation of the
manager and `open_session`. When it fails the new transport is dropped; the manager
that was in place stays, with a transport of its own and a life of its own.
`OpenSession` is the later request that finds this manager in place and uses it;
`CloseSession`, `Recv` and `DisconnectModem` are the other operations. `Took` is what
each of them does with a line. `read_cmd_line` is `BufferedLine`, `ReadCommands` (any
number of lines at once) and `CommandTimesOut`.

The modem is external. It answers commands in order, makes one connection attempt at
a time, takes no calls (LISTEN OFF is among the setup commands), and does not forget:
`Init` lets it hold the link or the attempt of an earlier client, number 0, and
sockets that close leave it as it is. The callsigns in a CONNECTED line are not
compared with anything, so the CONNECTED of an attempt given up earlier is taken for
the new one. `tr.clear` is the history that tells the cases apart: it is FALSE when
the modem had an attempt under way at the start, and when a CONNECT ends without its
CONNECTED; it is TRUE again when `close_session` has read the DISCONNECTED that
answers its own DISCONNECT. While it is TRUE, `OwnConnected` says, a session is the
one that was asked for, over any number of sessions one after the other, as in
`tests/vara_mock_modem.rs`. While it is FALSE it need not be: a VARA connect that
finds an attempt of an earlier client, or follows one of its own that timed out, may
take the other's link.

Run `vara` (1.1M states): three operations (connect, close, reopen; or connect, give
up, close), two setup commands, one line, datum or closing of the modem's own.
`OperationsEnd` assumes weak fairness of the reading steps: the actor's task runs and
its timers fire. Nothing is asked of the modem. Behaviours end with the operations:
`CHECK_DEADLOCK FALSE`.

Not in the model: `send` (`transport.rs:174-179`), which writes to the data socket
without a time-out, so that a modem that does not read stops the actor; and to which
link data belongs. Nothing empties the data socket between two sessions, so data of a
closed link may be received in the next one.

`claim_vara` refutes the comment of `read_cmd_line` ("retrying WouldBlock until
deadline"): the first 500 ms without a byte end it, so the 60 s that `open_session`
allows between CONNECT and CONNECTED are never waited for, nor the 5 s for OK.

Also visible in the model: `recv` reads a buffered line only when the command socket
becomes readable again, so a DISCONNECTED that came in one chunk with an earlier line
is noticed late. `open_ax25_link` and `reopen_modem_connection` have their default,
empty bodies for VARA: a reconnect repeats the login on whatever link there is.

**Proofs.** `VaraTransportProofs` proves `VaraTypeCorrect`, `SetupIsConfirmed`,
`SessionIsOwn` (`OwnConnected`) for any deadlines, number of setup commands, operations
and lines of the modem's own (`VaraAssumption`: constants have their types, there is
at least one setup command, `None` is no number). To the reader `cmd_line_buf` and the
socket are one queue, `Pending`. `VaraInv` has

* `SetupOK`, without which `SetupConfirmed` is not inductive: of a setup command one
  of three things is on its way, the command, nothing (it was refused), or at most
  one OK, and what the modem has carried out is counted accordingly;
* `ClearOK`: while `clear` holds at most one CONNECT is under way, as a command, as an
  attempt of the modem or as a CONNECTED on its way, and only while `open_session`
  waits for it (`Still`, `Asking`, `Calling`, `Answered`);
* `CloseOK`: between a DISCONNECT and the answer to it nothing is settled, and once the
  answer is there, nothing of an attempt is left behind it (`Unsettled`, `Settled`);
  this is what lets `close_session` set `clear` again;
* `NumbersOK`, `LinkOK`, `UpOK` and `CountOK`: numbers are those of commands sent, a
  link is of a CONNECT, closed sockets hold nothing, and the numbers stay below what
  the operations allow.

## 10. What is only model-checked

Liveness (`CommandsAnswered`, `PromptsResolve`, `RequestsAnswered`,
`OperationsEnd`): fairness is out of the prover's reach. `InsertRestoresCap` and
`EvictsLeastRecent`: what a fold computes needs induction over data.

## 11. Not modelled

The byte layout of AGWPE frames, HTML rewriting and the UI's pages, configuration
files, the access log, TLS and HTTP forwarding in the fetch path, the headless
browser and its scrubbing script, brotli and base64. These are conversions without
behaviour over time, or other people's programs.
