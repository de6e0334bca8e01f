---------------------------- MODULE ServerSession ----------------------------
(***************************************************************************)
(* One connection's thread of server/src/main.rs: the callsign and AGREE   *)
(* dialogue, the request loop with its idle clock, the browser it owns     *)
(* (browser.rs) with its restarts and the probe thread (origin_cc.rs),     *)
(* composed with the filter and the proxy all loads go through.  Time is   *)
(* counted in polls: a Tick is READ_POLL_SECS, after which a read without  *)
(* a byte returns to the loop that looks at the deadline.                  *)
(***************************************************************************)
EXTENDS FetchFilter

CONSTANTS PreAuth,      \* PRE_AUTH_TIMEOUT_SECS
          IdleTimeout,  \* idle_timeout_minutes
          MaxLine,      \* MAX_LINE_LENGTH
          MaxBody,      \* reads a POST body takes, its length included
          Versions,     \* what the page can be; its ETag
          Urls,         \* addresses a client asks for
          MaxFaults,    \* bound: failed launches
          Horizon       \* bound: longest time without an exchange

ASSUME SessionAssumption ==
    /\ PreAuth \in Nat \ {0} /\ IdleTimeout \in Nat \ {0}
    /\ MaxLine \in Nat /\ MaxBody \in Nat \ {0} /\ MaxFaults \in Nat /\ Horizon \in Nat
    /\ Urls \subseteq [scheme : {"http", "https", "other", "invalid"},
                       host : Domains \cup Literals]
    /\ None \notin Versions \cup {"refusal"}
    /\ None \notin [url : Urls, tag : Versions \cup {"refusal", None}]

VARIABLES pc,      \* where the thread is
          rd,      \* the read in progress
          clock,   \* time against the deadline in force: since the callsign
                   \* prompt, after AGREE since session.last_activity
          since,   \* time since the prompt, AGREE, request or response (history)
          driver,  \* geckodriver processes
          job,     \* the request being handled
          page,    \* the page on the web now
          wrote    \* what was written after AGREE since the last read began (history)

sessionVars == <<pc, rd, clock, since, driver, job, page, wrote>>
vars == <<sessionVars, filterVars>>

Dialogue == {"callsign", "agree"}
NoLimit  == {"webdriver", "replace", "discard"}   \* WebDriver calls without a time-out
Reading  == Dialogue \cup {"read", "body"}
PCs      == Reading \cup {"launch", "driver", "webdriver", "replace", "discard",
                          "validate", "fetch", "join", "ended"}

\* The tag of a response: the proxy's own refusal is a page, too.
Tags    == Versions \cup {"refusal"}
Replies == {"Ok", "NotModified", "Blocked", "Err", "text"}

SessionTypeOK ==
    /\ pc \in PCs
    /\ rd \in [at : {"check", "block"}, bytes : 0 .. MaxLine, left : 0 .. MaxBody, heard : BOOLEAN]
    /\ clock \in Nat /\ since \in Nat
    /\ driver \in [own : BOOLEAN,     \* the thread has a BrowserInstance
                   procs : Nat,       \* processes alive
                   lost : Nat,        \* of them, those nobody will kill
                   memory : SUBSET Versions, \* the page in Firefox's memory cache
                   shown : SUBSET Versions,  \* the page since it was started (history)
                   faults : 0 .. MaxFaults]
    /\ job \in [req : {None} \cup [url : Urls, tag : Tags \cup {None}],
                html : Tags \cup {None},       \* what fetch_page returned
                probe : BOOLEAN]               \* the probe thread runs
    /\ page \in Versions
    /\ wrote \in {None} \cup [status : Replies, tag : Tags \cup {None}]

TypeOK == FilterTypeOK /\ SessionTypeOK

NewRead == [at |-> "check", bytes |-> 0, left |-> 0, heard |-> FALSE]
NoJob   == [req |-> None, html |-> None, probe |-> FALSE]

Init ==
    /\ FilterInit
    /\ pc = "callsign" /\ rd = NewRead
    /\ clock = 0 /\ since = 0
    /\ driver = [own |-> FALSE, procs |-> 0, lost |-> 0, memory |-> {}, shown |-> {}, faults |-> 0]
    /\ job = NoJob
    /\ page \in Versions
    /\ wrote = None

-----------------------------------------------------------------------------
(* Returning from handle_connection drops the browser, whose driver is     *)
(* killed (close has no time-out, but nothing here comes after it); `said`  *)
(* is what was written before.                                             *)

Owned == IF driver.own THEN 1 ELSE 0

Return(said) ==
    /\ pc' = "ended" /\ rd' = NewRead
    /\ driver' = [driver EXCEPT !.own = FALSE, !.procs = @ - Owned, !.memory = {}, !.shown = {}]
    /\ wrote' = said
    /\ job' = [NoJob EXCEPT !.probe = job.probe]
    /\ UNCHANGED <<clock, since, page, filterVars>>

-----------------------------------------------------------------------------
(* read_bounded_line_until and read_exact_until.  "check": the loop looks  *)
(* at the deadline; "block": inside the read.  A line is read by           *)
(* read_until, which does not return to the loop while bytes keep coming.  *)

Deadline == IF pc \in Dialogue THEN PreAuth ELSE IdleTimeout

StartRead ==
    /\ pc \in Reading /\ rd.at = "check" /\ clock < Deadline
    /\ rd' = [rd EXCEPT !.at = "block"] /\ wrote' = None
    /\ UNCHANGED <<pc, clock, since, driver, job, page, filterVars>>

\* TimedOut: the dialogue just ends, the request loop says why.
ReadTimesOut ==
    /\ pc \in Reading /\ rd.at = "check" /\ clock >= Deadline
    /\ Return(IF pc \in Dialogue THEN None ELSE [status |-> "text", tag |-> None])

\* Defect: a line may be of any length.
HearByteUncapped ==
    /\ pc \in Reading \ {"body"} /\ rd.at = "block"
    /\ rd' = [rd EXCEPT !.bytes = @ + 1, !.heard = TRUE]
    /\ UNCHANGED <<pc, clock, since, driver, job, page, wrote, filterVars>>

\* A byte of a line that is not its end; beyond the limit the line is an error.
HearByte ==
    /\ pc \in Reading \ {"body"} /\ rd.at = "block"
    /\ \/ /\ rd.bytes < MaxLine
          /\ rd' = [rd EXCEPT !.bytes = @ + 1, !.heard = TRUE]
          /\ UNCHANGED <<pc, clock, since, driver, job, page, wrote, filterVars>>
       \/ rd.bytes = MaxLine /\ Return(None)

\* End of stream, or an error other than the poll's.
PeerCloses ==
    /\ pc \in Reading /\ rd.at = "block"
    /\ Return(None)

-----------------------------------------------------------------------------
(* The dialogue.                                                           *)

\* The first line: validate_callsign_with_allowlist accepts it, and the
\* disclaimer is written, or it does not, or the write fails.
CallsignLine ==
    /\ pc = "callsign" /\ rd.at = "block"
    /\ \/ /\ pc' = "agree" /\ rd' = NewRead
          /\ UNCHANGED <<clock, since, driver, job, page, wrote, filterVars>>
       \/ Return(None)

\* Defect: the deadline is taken anew for every line.
NoiseLineExtends ==
    /\ pc = "agree" /\ rd.at = "block"
    /\ rd' = NewRead /\ clock' = 0
    /\ UNCHANGED <<pc, since, driver, job, page, wrote, filterVars>>

\* The callsign a second time, or a status line of the node: skipped.
NoiseLine ==
    /\ pc = "agree" /\ rd.at = "block"
    /\ rd' = NewRead
    /\ UNCHANGED <<pc, clock, since, driver, job, page, wrote, filterVars>>

\* Any other line: AGREE, and the clock starts anew, or the end.
AgreeLine ==
    /\ pc = "agree" /\ rd.at = "block"
    /\ \/ /\ pc' = "launch" /\ rd' = NewRead
          /\ clock' = 0 /\ since' = 0
          /\ UNCHANGED <<driver, job, page, wrote, filterVars>>
       \/ Return(None)

-----------------------------------------------------------------------------
(* Responses.  handle_request returns to the loop, which touches the       *)
(* session; when the write failed the loop goes on, too.                   *)

\* Defect: the clock is not restarted by a response.
RespondUntouched(status, tag) ==
    /\ pc' = "read" /\ rd' = NewRead
    /\ since' = 0
    /\ wrote' \in {[status |-> status, tag |-> tag], None}
    /\ job' = [job EXCEPT !.req = None, !.html = None]
    /\ UNCHANGED <<clock, page, filterVars>>

Respond(status, tag) ==
    /\ pc' = "read" /\ rd' = NewRead
    /\ clock' = 0 /\ since' = 0
    /\ wrote' \in {[status |-> status, tag |-> tag], None}
    /\ job' = [job EXCEPT !.req = None, !.html = None]
    /\ UNCHANGED <<page, filterVars>>

-----------------------------------------------------------------------------
(* Launching a browser: at the start of the session, when there is none    *)
(* and when it has crashed.  The old one is dropped, and its driver        *)
(* killed, only when the new one is assigned.                              *)

SpawnDriver ==
    /\ pc = "launch"
    /\ pc' = "driver"
    /\ driver' = [driver EXCEPT !.procs = @ + 1]
    /\ UNCHANGED <<rd, clock, since, job, page, wrote, filterVars>>

\* The port accepts within its 30 s; from here on nothing has a time-out:
\* connect, update_timeouts, and the close of the browser that is replaced.
DriverListens ==
    /\ pc = "driver"
    /\ pc' = "webdriver"
    /\ UNCHANGED <<rd, clock, since, driver, job, page, wrote, filterVars>>

GoOn == IF job.req = None THEN "read" ELSE "fetch"

\* Defect: the new browser starts on the profile of the old one.
BrowserUpKeepsProfile ==
    /\ pc = "webdriver"
    /\ pc' = IF driver.own THEN "replace" ELSE GoOn
    /\ driver' = [driver EXCEPT !.own = TRUE, !.shown = {page}]
    /\ UNCHANGED <<rd, clock, since, job, page, wrote, filterVars>>

\* A browser with nothing in memory; the old one, if any, is dropped next.
BrowserUp ==
    /\ pc = "webdriver"
    /\ pc' = IF driver.own THEN "replace" ELSE GoOn
    /\ driver' = [driver EXCEPT !.own = TRUE, !.memory = {}, !.shown = {page}]
    /\ UNCHANGED <<rd, clock, since, job, page, wrote, filterVars>>

\* "Browser unavailable" to the request, or the end of a session just begun.
GiveUp ==
    \/ job.req # None /\ Respond("Err", None)
    \/ /\ job.req = None
       /\ pc' = "ended" /\ wrote' \in {[status |-> "Err", tag |-> None], None}
       /\ UNCHANGED <<rd, clock, since, job, page, filterVars>>

\* BrowserInstance::new fails, with `extra` processes and `orphans` among them
\* left behind; the crashed browser, if any, is dropped before the answer.
LaunchFails(extra, orphans) ==
    /\ driver.faults < MaxFaults
    /\ driver' = [driver EXCEPT !.procs = @ + extra, !.lost = @ + orphans, !.faults = @ + 1]
    /\ IF driver.own
       THEN pc' = "discard" /\ UNCHANGED <<rd, clock, since, job, page, wrote, filterVars>>
       ELSE GiveUp

\* No session directory, runtime or port, or no process: nothing is running.
SpawnFails == pc = "launch" /\ LaunchFails(0, 0)

\* The driver does not listen in time and is killed.
ListenTimesOut == pc = "driver" /\ LaunchFails(-1, 0)

\* No WebDriver session, or no timeouts set: the Child is dropped, which does
\* not end the process.
WebDriverFails == pc = "webdriver" /\ LaunchFails(0, 1)

\* Defect: the old browser's driver is not killed.
OldClosedAlive ==
    \/ /\ pc = "replace" /\ pc' = GoOn
       /\ UNCHANGED <<driver, rd, clock, since, job, page, wrote, filterVars>>
    \/ /\ pc = "discard"
       /\ driver' = [driver EXCEPT !.own = FALSE, !.memory = {}, !.shown = {}]
       /\ GiveUp

\* Drop of the old browser: its session is closed and its driver killed.
OldClosed ==
    \/ /\ pc = "replace" /\ pc' = GoOn
       /\ driver' = [driver EXCEPT !.procs = @ - 1]
       /\ UNCHANGED <<rd, clock, since, job, page, wrote, filterVars>>
    \/ /\ pc = "discard"
       /\ driver' = [driver EXCEPT !.own = FALSE, !.procs = @ - 1, !.memory = {}, !.shown = {}]
       /\ GiveUp

-----------------------------------------------------------------------------
(* Requests.                                                               *)

GetLine ==
    /\ pc = "read" /\ rd.at = "block"
    /\ \E url \in Urls, tag \in Tags \cup {None} :
         job' = [job EXCEPT !.req = [url |-> url, tag |-> tag]]
    /\ pc' = "validate" /\ rd' = NewRead
    /\ clock' = 0 /\ since' = 0 /\ wrote' = None
    /\ UNCHANGED <<driver, page, filterVars>>

\* read_request fails: no GET or POST, no UTF-8, no address.
BadLine ==
    /\ pc = "read" /\ rd.at = "block"
    /\ Return(None)

\* The length and the body follow, under the same deadline.
PostLine ==
    /\ pc = "read" /\ rd.at = "block"
    /\ \E n \in 1 .. MaxBody : rd' = [NewRead EXCEPT !.left = n]
    /\ pc' = "body"
    /\ UNCHANGED <<clock, since, driver, job, page, wrote, filterVars>>

BodyBytes ==
    /\ pc = "body" /\ rd.at = "block" /\ rd.left > 1
    /\ rd' = [rd EXCEPT !.at = "check", !.left = @ - 1]
    /\ UNCHANGED <<pc, clock, since, driver, job, page, wrote, filterVars>>

\* The last bytes: POST is refused with a response; when that cannot be
\* written, or the announced length is too large, the session ends.
PostRefused ==
    /\ pc = "body" /\ rd.at = "block" /\ rd.left = 1
    /\ \/ /\ Respond("Err", None) /\ wrote' # None
          /\ UNCHANGED driver
       \/ Return(None)

Validate ==
    /\ pc = "validate"
    /\ \E answer \in AnswersFor(job.req.url.host) :
         LET verdict == ValidateUrl(job.req.url, answer)
         IN  \/ /\ verdict = "pass"
                /\ pc' = "fetch" /\ job' = [job EXCEPT !.probe = TRUE]
                /\ UNCHANGED <<rd, clock, since, page, wrote, filterVars>>
             \/ verdict # "pass" /\ Respond(verdict, None)
    /\ UNCHANGED driver

-----------------------------------------------------------------------------
(* handle_request from the fetch on.                                       *)

\* Defect: no second attempt after a failed launch.
NoBrowserAgain ==
    /\ pc = "fetch" /\ ~driver.own /\ driver.faults = 0
    /\ pc' = "launch"
    /\ UNCHANGED <<rd, clock, since, driver, job, page, wrote, filterVars>>

NoBrowser ==
    /\ pc = "fetch" /\ ~driver.own
    /\ pc' = "launch"
    /\ UNCHANGED <<rd, clock, since, driver, job, page, wrote, filterVars>>

\* Firefox loads whatever the page asks for, through the proxy.
Load ==
    /\ pc = "fetch" /\ driver.own
    /\ \E k \in Slots, load \in Loads : Ask(k, load)
    /\ UNCHANGED sessionVars

\* The page reaches Firefox, which keeps it in memory
\* (browser.cache.memory.enable), whatever becomes of the fetch.
PageLoads ==
    /\ pc = "fetch" /\ driver.own
    /\ \E k \in Slots : conn[k].host = job.req.url.host /\ conn[k].stage = "open"
    /\ driver' = [driver EXCEPT !.memory = @ \cup {page}]
    /\ UNCHANGED <<pc, rd, clock, since, job, page, wrote, filterVars>>

\* goto and the scrubbing script succeed: on the page just loaded, on one that
\* is still in memory, or on the text with which the proxy refused a load that
\* is not a tunnel.
Fetched ==
    /\ pc = "fetch" /\ driver.own
    /\ \/ \E v \in driver.memory : job' = [job EXCEPT !.html = v]
       \/ \E k \in Slots :
            /\ conn[k].host = job.req.url.host /\ conn[k].stage = "refused" /\ ~conn[k].tunnel
            /\ job' = [job EXCEPT !.html = "refusal"]
    /\ pc' = "join"
    /\ UNCHANGED <<rd, clock, since, driver, page, wrote, filterVars>>

FetchFails ==
    /\ pc = "fetch" /\ driver.own
    /\ Respond("Err", None)
    /\ UNCHANGED driver

\* The WebDriver session is gone: a new browser, and the request once more, as
\* often as it takes.
BrowserCrashes ==
    /\ pc = "fetch" /\ driver.own
    /\ pc' = "launch"
    /\ UNCHANGED <<rd, clock, since, driver, job, page, wrote, filterVars>>

ProbeLoads ==
    /\ job.probe /\ job.req # None
    /\ \E k \in Slots, load \in Loads : load.host = job.req.url.host /\ Ask(k, load)
    /\ UNCHANGED sessionVars

\* probe_origin_cc has its headers or its default, at the latest when its
\* time is up; on an early return of handle_request nobody joins it.
ProbeEnds ==
    /\ job.probe
    /\ job' = [job EXCEPT !.probe = FALSE]
    /\ UNCHANGED <<pc, rd, clock, since, driver, page, wrote, filterVars>>

\* The join, the tag, and the response, or "Compression error".
Deliver ==
    /\ pc = "join" /\ ~job.probe
    /\ \/ job.req.tag = job.html /\ Respond("NotModified", job.html)
       \/ job.req.tag # job.html /\ (Respond("Ok", job.html) \/ Respond("Err", None))
    /\ UNCHANGED driver

-----------------------------------------------------------------------------
(* The world: the page changes; a poll interval passes while the thread    *)
(* waits.  A read in which no byte was heard is back in its loop.          *)

Publish ==
    /\ page' \in Versions \ {page}
    /\ driver' = [driver EXCEPT !.shown = IF driver.own THEN @ \cup {page'} ELSE @]
    /\ UNCHANGED <<pc, rd, clock, since, job, wrote, filterVars>>

Tick ==
    /\ pc \in {"driver", "fetch", "join"} \cup NoLimit \/ (pc \in Reading /\ rd.at = "block")
    /\ since < Horizon
    /\ clock' = clock + 1 /\ since' = since + 1
    /\ rd' = IF pc \in Reading
             THEN [rd EXCEPT !.heard = FALSE, !.at = IF rd.heard THEN "block" ELSE "check"]
             ELSE rd
    /\ UNCHANGED <<pc, driver, job, page, wrote, filterVars>>

-----------------------------------------------------------------------------
Peer    == HearByte \/ PeerCloses \/ CallsignLine \/ NoiseLine \/ AgreeLine
              \/ GetLine \/ BadLine \/ PostLine \/ BodyBytes \/ PostRefused
Launch  == SpawnDriver \/ SpawnFails \/ DriverListens \/ ListenTimesOut
WebDriver == BrowserUp \/ WebDriverFails \/ OldClosed
Handle  == Validate \/ NoBrowser \/ Fetched \/ FetchFails \/ BrowserCrashes \/ Deliver
Filter  == (Refresh \/ \E k \in Slots : Proxy(k)) /\ UNCHANGED sessionVars

Next ==
    \/ StartRead \/ ReadTimesOut \/ Peer \/ Launch \/ WebDriver \/ Handle
    \/ Load \/ PageLoads \/ ProbeLoads \/ ProbeEnds \/ Filter \/ Publish \/ Tick

\* The thread runs; the wait for the driver's port ends after 30 s, a fetch by
\* the 15 s of the WebDriver session and the probe by its own limit.  Nothing is
\* assumed of the calls in NoLimit, nor that a browser ever stops crashing.
Fairness == WF_vars(Launch) /\ WF_vars(Handle) /\ WF_vars(ProbeEnds)

Spec     == Init /\ [][Next]_vars
FairSpec == Spec /\ Fairness

-----------------------------------------------------------------------------
(* Properties.                                                             *)

\* A read goes on after its deadline only while a line is still coming in, and
\* for no more polls than a line has bytes: lines that are skipped before AGREE do
\* not extend the 300 s, and no session outlives its idle time by more
\* (main.rs:192-257, 310-368, 416-434).
ReadsBounded ==
    pc \in Reading /\ rd.at = "block" => since < Deadline + MaxLine

\* A session is closed for idleness only when a whole idle period has passed
\* since the last request or response, however long the fetch, the launch of a
\* browser or the answer took (main.rs:416-436, 454, 463-467).
FullIdleWindow ==
    [][wrote' # None /\ wrote'.status = "text" /\ pc # "ended" => since >= IdleTimeout]_vars

\* The driver processes alive are the owned browser's, the one being launched or
\* being replaced and those whose WebDriver session could not be created: every
\* restart and every end kills what it replaces (browser.rs:92-203, 255-265;
\* main.rs:568-591).
DriversReclaimed ==
    driver.procs = driver.lost + Owned
                     + (IF pc \in {"driver", "webdriver", "replace"} THEN 1 ELSE 0)

\* What a response says of the page was true at some moment since the browser in
\* use was started, after any number of crashes and restarts: Firefox may answer
\* from its memory, but neither NotModified nor a page is concluded from what an
\* earlier browser, or only the client, has seen (browser.rs:140-141, 205-252;
\* main.rs:568-664).
AnswerIsCurrent ==
    [][job.req # None /\ wrote' # None /\ wrote'.tag # None
         => wrote'.tag \in driver.shown \cup {"refusal"}]_vars

\* Every request read comes to its end, unless its thread enters one of the
\* WebDriver calls that have no time-out: it waits nowhere else, whatever browser,
\* probe and lookups do, and with no chain of events but crash and relaunch without
\* end (main.rs:526-664, browser.rs:100-203).
RequestsAnswered == job.req # None ~> (job.req = None \/ pc \in NoLimit)
=============================================================================
