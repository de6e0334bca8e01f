------------------------ MODULE ServerSessionProofs ------------------------
(***************************************************************************)
(* The connection thread, the proxy and the blocklist, for any limits, any *)
(* number of proxied requests, any lists, ranges and lookups.              *)
(***************************************************************************)
EXTENDS ServerSession, TLAPS

-----------------------------------------------------------------------------
(* Arithmetic of address ranges.                                           *)

\* Clearing the bits below k leaves the multiple of k below x.
LEMMA BlockStart ==
  ASSUME NEW k \in Nat \ {0}, NEW n \in Nat, NEW x \in Nat, n * k <= x, x < (n + 1) * k
  PROVE  x - (x % k) = n * k
<1> DEFINE q == x \div k
<1>1. q \in Int /\ x % k \in 0 .. k - 1 /\ x = k * q + (x % k)
  BY Z3
<1>2. k * q <= x /\ x < k * q + k
  BY <1>1
<1> HIDE DEF q
<1>3. q = n
  <2>1. ASSUME q < n PROVE FALSE
    <3>1. PICK d \in Nat : n = q + 1 + d
      <4>1. n - q - 1 \in Nat
        BY <1>1, <2>1
      <4>2. QED
        BY <1>1, <4>1
    <3>2. n * k = k * q + k + d * k /\ d * k >= 0
      BY <1>1, <3>1
    <3>3. QED
      BY <1>1, <1>2, <3>2
  <2>2. ASSUME n < q PROVE FALSE
    <3>1. PICK d \in Nat : q = n + 1 + d
      <4>1. q - n - 1 \in Nat
        BY <1>1, <2>2
      <4>2. QED
        BY <1>1, <4>1
    <3>2. k * q = n * k + k + d * k /\ d * k >= 0
      BY <1>1, <3>1
    <3>3. (n + 1) * k = n * k + k
      OBVIOUS
    <3>4. QED
      BY <1>1, <1>2, <3>2, <3>3
  <2>3. QED
    BY <1>1, <2>1, <2>2
<1>4. QED
  BY <1>1, <1>3

USE FilterAssumption

\* An address of a range is caught by the masks of is_ipv4_in_cidr, the shift
\* by the full width included.
LEMMA BlockIsCaught ==
  ASSUME NEW r \in BlockedRanges, r.prefix <= AddrBits, NEW x \in Block(r)
  PROVE  InCidr(x, r)
<1>1. r.prefix \in Nat /\ r.net \in Bits /\ x \in Bits /\ Bits \subseteq Nat
  BY DEF Bits, Block
<1>2. CASE r.prefix = 0
  BY <1>2 DEF InCidr, Masked
<1>3. CASE r.prefix # 0
  <2> DEFINE k == 2^(AddrBits - r.prefix)
  <2>1. AddrBits - r.prefix \in 0 .. AddrBits
    BY <1>1
  <2>2. k \in Nat \ {0}
    BY <2>1
  <2>3. PICK n \in Bits : \A y \in {x, r.net} : n * k <= y /\ y < (n + 1) * k
    BY DEF Block
  <2> HIDE DEF k
  <2>4. x - (x % k) = n * k /\ r.net - (r.net % k) = n * k
    BY <1>1, <2>2, <2>3, BlockStart
  <2>5. QED
    BY <1>1, <1>3, <2>4 DEF InCidr, Masked, k
<1>4. QED
  BY <1>2, <1>3

-----------------------------------------------------------------------------
(* The filter.                                                             *)

\* What has been checked stays with the request: name and port from the first
\* step on, the address from the lookup on.
ConnOK(c) ==
    /\ c.stage \in {"checked", "pinned", "open"} =>
         c.host \notin LocalNames /\ (c.tunnel => c.port \in {80, 443})
    /\ c.stage \in {"pinned", "open"} => c.ip \in Address /\ ~IpBlocked(c.ip)

\* The refresh in progress holds the lists fetched so far.
UpdateOK ==
    update # None =>
        \A n \in 1 .. update.next - 1 : Listed[n] \subseteq update.domains \cup LocalNames

FilterInv ==
    /\ FilterTypeOK
    /\ \A k \in Slots : ConnOK(conn[k])
    /\ UpdateOK
    /\ ListedStaysBlocked

ConnType == [stage  : {"idle", "checked", "pinned", "open", "refused"},
             host   : Domains \cup Literals \cup {None},
             tunnel : BOOLEAN,
             port   : Nat,
             ip     : Address \cup {None}]

\* A proxied request that is replaced by a checked one of its type.
LEMMA ConnSet ==
  ASSUME FilterInv, NEW k \in Slots, NEW c \in ConnType, ConnOK(c),
         conn' = [conn EXCEPT ![k] = c], UNCHANGED <<blocklist, update, loaded>>
  PROVE  FilterInv'
<1>1. FilterTypeOK'
  BY DEF FilterInv, FilterTypeOK, ConnType
<1>2. ASSUME NEW j \in Slots
      PROVE  ConnOK(conn'[j])
  BY <1>2 DEF FilterInv, FilterTypeOK
<1>3. (\A j \in Slots : ConnOK(conn[j]))'
  BY <1>2 DEF ConnOK
<1>4. UpdateOK' /\ ListedStaysBlocked'
  BY DEF FilterInv, UpdateOK, ListedStaysBlocked
<1>5. QED
  BY <1>1, <1>3, <1>4 DEF FilterInv

\* Nothing of a request is left when it is idle again.
LEMMA IdleOK == Idle \in ConnType /\ ConnOK(Idle)
  BY DEF Idle, ConnType, ConnOK

LEMMA ConnTyped ==
  ASSUME FilterInv, NEW k \in Slots
  PROVE  conn[k] \in ConnType /\ ConnOK(conn[k])
  BY DEF FilterInv, FilterTypeOK, ConnType

\* A request is checked before it goes on.
LEMMA AskStep ==
  ASSUME FilterInv, NEW k \in Slots, NEW load \in Loads, Ask(k, load)
  PROVE  FilterInv'
<1> DEFINE c == [stage  |-> IF (load.tunnel /\ load.port \notin {80, 443}) \/ NameBlocked(load.host)
                            THEN "refused" ELSE "checked",
                 host   |-> load.host, port |-> load.port, tunnel |-> load.tunnel,
                 ip     |-> None]
<1>1. load.host \in Domains \cup Literals /\ load.port \in Nat /\ load.tunnel \in BOOLEAN
  OBVIOUS
<1>2. c \in ConnType
  BY <1>1 DEF ConnType
<1>3. ConnOK(c)
  BY DEF ConnOK, NameBlocked
<1>4. conn' = [conn EXCEPT ![k] = c] /\ UNCHANGED <<blocklist, update, loaded>>
  BY DEF Ask
<1> HIDE DEF c
<1>5. QED
  BY <1>2, <1>3, <1>4, ConnSet

\* The address that is kept is the one that was checked.
LEMMA ProxyStep ==
  ASSUME FilterInv, NEW k \in Slots, Proxy(k)
  PROVE  FilterInv'
<1>0. conn[k] \in ConnType /\ ConnOK(conn[k])
  BY ConnTyped
<1>1. CASE Pin(k)
  <2>1. PICK answer \in AnswersFor(conn[k].host) :
          conn' = [conn EXCEPT ![k] =
             IF answer = <<>> \/ IpBlocked(answer[1])
             THEN [conn[k] EXCEPT !.stage = "refused"]
             ELSE [conn[k] EXCEPT !.stage = "pinned", !.ip = answer[1]]]
    BY <1>1 DEF Pin
  <2>2. UNCHANGED <<blocklist, update, loaded>> /\ conn[k].stage = "checked"
    BY <1>1 DEF Pin
  <2>3. answer \in Seq(Address)
    <3>1. conn[k].host \in Literals => <<conn[k].host>> \in Seq(Address)
      OBVIOUS
    <3>2. QED
      BY <2>1, <3>1 DEF AnswersFor
  <2>4. CASE answer = <<>> \/ IpBlocked(answer[1])
    <3> DEFINE c == [conn[k] EXCEPT !.stage = "refused"]
    <3>1. c \in ConnType /\ ConnOK(c)
      BY <1>0 DEF ConnType, ConnOK
    <3>2. conn' = [conn EXCEPT ![k] = c]
      BY <2>1, <2>4
    <3> HIDE DEF c
    <3>3. QED
      BY <2>2, <3>1, <3>2, ConnSet
  <2>5. CASE answer # <<>> /\ ~IpBlocked(answer[1])
    <3> DEFINE c == [conn[k] EXCEPT !.stage = "pinned", !.ip = answer[1]]
    <3>1. answer[1] \in Address
      BY <2>3, <2>5
    <3>2. c \in ConnType /\ c.ip = answer[1] /\ c.host = conn[k].host /\ c.tunnel = conn[k].tunnel
             /\ c.port = conn[k].port /\ c.stage = "pinned"
      BY <1>0, <3>1 DEF ConnType
    <3>3. conn' = [conn EXCEPT ![k] = c]
      BY <2>1, <2>5
    <3> HIDE DEF c
    <3>4. ConnOK(c)
      BY <1>0, <2>2, <2>5, <3>1, <3>2 DEF ConnOK
    <3>5. QED
      BY <2>2, <3>2, <3>3, <3>4, ConnSet
  <2>6. QED
    BY <2>4, <2>5
<1>2. CASE Connect(k)
  <2> DEFINE c == [conn[k] EXCEPT !.stage = "open"]
  <2>1. c \in ConnType /\ ConnOK(c)
    BY <1>0, <1>2 DEF ConnType, ConnOK, Connect
  <2>2. \/ conn' = [conn EXCEPT ![k] = c]
        \/ conn' = [conn EXCEPT ![k] = Idle]
    BY <1>2 DEF Connect
  <2>3. UNCHANGED <<blocklist, update, loaded>>
    BY <1>2 DEF Connect
  <2> HIDE DEF c
  <2>4. QED
    BY <2>1, <2>2, <2>3, IdleOK, ConnSet
<1>3. CASE Done(k)
  BY <1>3, IdleOK, ConnSet DEF Done
<1>4. QED
  BY <1>1, <1>2, <1>3 DEF Proxy

\* The list in force is replaced by a complete one or not at all.
LEMMA RefreshStep ==
  ASSUME FilterInv, Refresh
  PROVE  FilterInv'
<1> USE DEF FilterInv
<1>0. conn' = conn
  BY DEF Refresh, StartUpdate, FetchList, UpdateFails, Swap
<1>1. (\A k \in Slots : ConnOK(conn[k]))'
  BY <1>0 DEF ConnOK
<1>2. Len(Listed) \in Nat /\ DOMAIN Listed = 1 .. Len(Listed)
      /\ \A n \in 1 .. Len(Listed) : Listed[n] \subseteq Domains
  OBVIOUS
<1>3. CASE StartUpdate
  <2>1. update' = [next |-> 1, domains |-> {}] /\ blocklist' = blocklist /\ loaded' = loaded
    BY <1>3 DEF StartUpdate
  <2>2. FilterTypeOK'
    BY <1>0, <1>2, <2>1 DEF FilterTypeOK
  <2>3. UpdateOK' /\ ListedStaysBlocked'
    BY <2>1 DEF UpdateOK, ListedStaysBlocked
  <2>4. QED
    BY <1>1, <2>2, <2>3
<1>4. CASE FetchList
  <2>1. /\ update \in [next : 1 .. Len(Listed) + 1, domains : SUBSET Domains]
        /\ update.next <= Len(Listed) /\ update # None
        /\ blocklist' = blocklist /\ loaded' = loaded
    BY <1>4 DEF FetchList, FilterTypeOK
  <2>2. PICK more \in SUBSET Extras :
          update' = [next |-> update.next + 1,
                     domains |-> update.domains \cup ((Listed[update.next] \cup more) \ SkippedNames)]
    BY <1>4 DEF FetchList
  <2>3. FilterTypeOK'
    BY <1>0, <1>2, <2>1, <2>2 DEF FilterTypeOK
  <2>4. ASSUME NEW n \in 1 .. update.next
        PROVE  Listed[n] \subseteq update'.domains \cup LocalNames
    <3>1. CASE n = update.next
      BY <2>2, <3>1
    <3>2. CASE n # update.next
      <4>1. n \in 1 .. update.next - 1
        BY <2>1, <3>2
      <4>2. Listed[n] \subseteq update.domains \cup LocalNames
        BY <2>1, <4>1 DEF UpdateOK
      <4>3. QED
        BY <2>2, <4>2
    <3>3. QED
      BY <3>1, <3>2
  <2>5. update'.next - 1 = update.next
    BY <2>1, <2>2
  <2>6. UpdateOK'
    BY <2>4, <2>5 DEF UpdateOK
  <2>7. ListedStaysBlocked'
    BY <2>1 DEF ListedStaysBlocked
  <2>8. QED
    BY <1>1, <2>3, <2>6, <2>7
<1>5. CASE UpdateFails
  <2>1. update' = None /\ blocklist' = blocklist /\ loaded' = loaded
    BY <1>5 DEF UpdateFails
  <2>2. FilterTypeOK' /\ UpdateOK' /\ ListedStaysBlocked'
    BY <1>0, <2>1 DEF FilterTypeOK, UpdateOK, ListedStaysBlocked
  <2>3. QED
    BY <1>1, <2>2
<1>6. CASE Swap
  <2>1. /\ update \in [next : 1 .. Len(Listed) + 1, domains : SUBSET Domains]
        /\ update.next = Len(Listed) + 1 /\ update # None
        /\ blocklist' = update.domains /\ loaded' = TRUE /\ update' = None
    BY <1>6 DEF Swap, FilterTypeOK
  <2>2. FilterTypeOK'
    BY <1>0, <2>1 DEF FilterTypeOK
  <2>3. UpdateOK'
    BY <2>1 DEF UpdateOK
  <2>4. ListedStaysBlocked'
    BY <1>2, <2>1 DEF UpdateOK, ListedStaysBlocked
  <2>5. QED
    BY <1>1, <2>2, <2>3, <2>4
<1>7. QED
  BY <1>3, <1>4, <1>5, <1>6 DEF Refresh

LEMMA FilterUnchanged ==
  ASSUME FilterInv, UNCHANGED filterVars
  PROVE  FilterInv'
  BY DEF FilterInv, filterVars, FilterTypeOK, ConnOK, UpdateOK, ListedStaysBlocked

LEMMA FilterStart == FilterInit => FilterInv
<1> SUFFICES ASSUME FilterInit PROVE FilterInv
  OBVIOUS
<1>1. Idle \in ConnType /\ ConnOK(Idle)
  BY IdleOK
<1>2. FilterTypeOK
  BY <1>1 DEF FilterInit, FilterTypeOK, ConnType
<1>3. QED
  BY <1>1, <1>2 DEF FilterInit, FilterInv, UpdateOK, ListedStaysBlocked

\* The checked address is outside every range as the ranges are meant.
LEMMA OutboundFromInv == FilterInv => OutboundAllowed
<1> SUFFICES ASSUME FilterInv, NEW k \in Slots, conn[k].stage = "open"
             PROVE  /\ conn[k].host \notin LocalNames
                    /\ conn[k].ip.form # "v6own"
                    /\ conn[k].ip.form # "v6" =>
                         \A r \in BlockedRanges : r.prefix <= AddrBits => conn[k].ip.bits \notin Block(r)
                    /\ conn[k].tunnel => conn[k].port \in {80, 443}
  BY DEF OutboundAllowed
<1>1. ConnOK(conn[k])
  BY DEF FilterInv
<1>2. /\ conn[k].host \notin LocalNames /\ (conn[k].tunnel => conn[k].port \in {80, 443})
      /\ conn[k].ip \in Address /\ ~IpBlocked(conn[k].ip)
  BY <1>1 DEF ConnOK
<1>3. conn[k].ip.form # "v6own"
  BY <1>2 DEF IpBlocked
<1>4. ASSUME conn[k].ip.form # "v6", NEW r \in BlockedRanges, r.prefix <= AddrBits,
             conn[k].ip.bits \in Block(r)
      PROVE  FALSE
  <2>1. InCidr(conn[k].ip.bits, r)
    BY <1>4, BlockIsCaught
  <2>2. conn[k].ip.form \in {"v4", "mapped", "sixtofour"}
    BY <1>2, <1>3, <1>4 DEF Address
  <2>3. QED
    BY <1>2, <2>1, <2>2 DEF IpBlocked, Ipv4Blocked
<1>5. QED
  BY <1>2, <1>3, <1>4

-----------------------------------------------------------------------------
(* The session.  Two clocks run together; a line that goes on has one byte *)
(* for every poll after the deadline; a request in progress has written    *)
(* nothing, and what was fetched for it is a page since the browser's      *)
(* start, as is everything in the browser's memory.                        *)

HIDE FilterAssumption
USE SessionAssumption

ReadOK ==
    /\ clock = since
    /\ rd.at = "check" \/ pc = "body" => ~rd.heard
    /\ rd.at = "block" =>
         pc \in Reading /\ since + (IF rd.heard THEN 1 ELSE 0) <= Deadline - 1 + rd.bytes

JobOK ==
    /\ pc \in Reading => job.req = None
    /\ pc \in {"validate", "fetch", "join"} => job.req # None
    /\ job.req # None => wrote = None
    /\ job.req = None => job.html = None
    /\ job.html # None => pc = "join" /\ job.html \in driver.shown \cup {"refusal"}
    /\ wrote # None /\ wrote.status = "text" => pc = "ended"

DriverType == [own : BOOLEAN, procs : Nat, lost : Nat, memory : SUBSET Versions,
               shown : SUBSET Versions, faults : 0 .. MaxFaults]
JobType    == [req : {None} \cup [url : Urls, tag : Tags \cup {None}],
               html : Tags \cup {None}, probe : BOOLEAN]
DriverOK(d) == /\ d \in DriverType /\ d.memory \subseteq d.shown
               /\ d.own => page \in d.shown
BrowserOK == /\ DriverOK(driver)
             /\ pc \in {"replace", "discard", "join"} => driver.own

SessInv == SessionTypeOK /\ ReadOK /\ JobOK /\ BrowserOK /\ DriversReclaimed

\* The processes that are neither the owned browser's nor lost.
Extra == IF pc \in {"driver", "webdriver", "replace"} THEN 1 ELSE 0

ReadType   == [at : {"check", "block"}, bytes : 0 .. MaxLine, left : 0 .. MaxBody, heard : BOOLEAN]

LEMMA NewReadTyped ==
  NewRead \in ReadType /\ NewRead.at = "check" /\ ~NewRead.heard
  BY DEF NewRead, ReadType

\* Returning kills the owned driver and leaves the rest.
LEMMA ReturnStep ==
  ASSUME SessInv, pc \in Reading, NEW said \in {None, [status |-> "text", tag |-> None]}, Return(said)
  PROVE  SessInv'
<1>1. driver \in DriverType /\ job \in JobType
  BY DEF SessInv, SessionTypeOK, DriverType, JobType
<1>2. /\ pc' = "ended" /\ rd' = NewRead /\ wrote' = said
      /\ clock' = clock /\ since' = since /\ page' = page
  BY DEF Return
<1>3. job' \in JobType /\ job'.req = None /\ job'.html = None
  BY <1>1 DEF Return, NoJob, JobType
<1>4. DriverOK(driver') /\ driver'.procs = driver'.lost /\ ~driver'.own
  <2>1. driver.procs = driver.lost + Owned /\ Owned \in Nat
    <3>1. Owned \in Nat
      BY DEF Owned
    <3> HIDE DEF Owned
    <3>2. QED
      BY <1>1, <3>1 DEF SessInv, DriversReclaimed, Reading, Dialogue, DriverType
  <2>2. driver' = [driver EXCEPT !.own = FALSE, !.procs = driver.procs - Owned,
                                 !.memory = {}, !.shown = {}]
    BY DEF Return
  <2>3. driver.procs - Owned = driver.lost
    BY <1>1, <2>1 DEF DriverType
  <2> HIDE DEF Owned
  <2>4. QED
    BY <1>1, <2>2, <2>3 DEF DriverType, DriverOK
<1>5. SessionTypeOK'
  <2>1. wrote' \in {None} \cup [status : Replies, tag : Tags \cup {None}]
    BY <1>2 DEF Replies
  <2>2. QED
    BY <1>2, <1>3, <1>4, <2>1, NewReadTyped
       DEF SessInv, SessionTypeOK, PCs, DriverOK, DriverType, JobType, ReadType
<1>6. ReadOK'
  BY <1>2, NewReadTyped DEF SessInv, ReadOK, Reading, Dialogue
<1>7. JobOK'
  BY <1>2, <1>3 DEF JobOK, Reading, Dialogue
<1>8. DriversReclaimed'
  BY <1>2, <1>4 DEF DriversReclaimed, Owned, DriverOK, DriverType
<1>9. BrowserOK'
  BY <1>2, <1>4 DEF BrowserOK, DriverOK
<1>10. QED
  BY <1>5, <1>6, <1>7, <1>8, <1>9 DEF SessInv

\* A response restarts both clocks and ends the request.
LEMMA RespondStep ==
  ASSUME SessInv, NEW status \in Replies \ {"text"}, NEW tag \in Tags \cup {None},
         Respond(status, tag), DriverOK(driver'), driver'.procs = driver'.lost + Owned'
  PROVE  SessInv'
<1>1. job \in JobType
  BY DEF SessInv, SessionTypeOK, JobType
<1>2. /\ pc' = "read" /\ rd' = NewRead /\ clock' = 0 /\ since' = 0 /\ page' = page
      /\ wrote' = None \/ wrote' = [status |-> status, tag |-> tag]
  BY DEF Respond
<1>3. job' \in JobType /\ job'.req = None /\ job'.html = None
  BY <1>1 DEF Respond, JobType
<1>4. wrote' \in {None} \cup [status : Replies, tag : Tags \cup {None}]
         /\ (wrote' # None => wrote'.status # "text")
  BY <1>2
<1>5. SessionTypeOK'
  BY <1>2, <1>3, <1>4, NewReadTyped
     DEF SessInv, SessionTypeOK, PCs, Reading, Dialogue, DriverOK, DriverType, JobType, ReadType
<1>6. ReadOK'
  BY <1>2, NewReadTyped DEF ReadOK
<1>7. JobOK'
  BY <1>2, <1>3, <1>4 DEF JobOK
<1>8. DriversReclaimed'
  <2>1. Owned' \in Nat
    BY DEF Owned
  <2>2. QED
    BY <1>2, <2>1 DEF DriversReclaimed, DriverOK, DriverType
<1>9. BrowserOK'
  BY <1>2 DEF BrowserOK, DriverOK
<1>10. QED
  BY <1>5, <1>6, <1>7, <1>8, <1>9 DEF SessInv

\* What the types give about the parts of a state.
LEMMA Parts ==
  ASSUME SessInv
  PROVE  /\ rd \in ReadType /\ driver \in DriverType /\ job \in JobType
         /\ clock \in Nat /\ since \in Nat /\ Owned \in Nat /\ Deadline \in Nat
  BY DEF SessInv, SessionTypeOK, ReadType, DriverType, JobType, Owned, Deadline

\* A step that only reads: the thread stays in a reading state, or comes to
\* another, with the same clocks.
LEMMA ReadingStep ==
  ASSUME SessInv, pc \in Reading, pc' \in Reading \cup {"launch"}, rd' \in ReadType,
         UNCHANGED <<clock, driver, job, page>>, since' = since,
         rd'.at = "check" \/ pc' = "body" => ~rd'.heard,
         rd'.at = "block" =>
           pc' = pc /\ since + (IF rd'.heard THEN 1 ELSE 0) <= Deadline - 1 + rd'.bytes,
         wrote' = wrote \/ wrote' = None
  PROVE  SessInv'
<1>1. SessionTypeOK'
  BY DEF SessInv, SessionTypeOK, ReadType, PCs
<1>2. ReadOK'
  <2>1. pc' = pc => Deadline' = Deadline
    BY DEF Deadline
  <2>2. rd'.at = "check" \/ rd'.at = "block"
    BY DEF ReadType
  <2>3. QED
    BY <2>1, <2>2 DEF SessInv, ReadOK
<1>3. JobOK'
  BY DEF SessInv, JobOK, Reading, Dialogue
<1>4. DriversReclaimed'
  BY DEF SessInv, DriversReclaimed, Owned, Reading, Dialogue
<1>5. BrowserOK'
  BY DEF SessInv, BrowserOK, DriverOK, Reading, Dialogue
<1>6. QED
  BY <1>1, <1>2, <1>3, <1>4, <1>5 DEF SessInv

LEMMA StartReadStep == ASSUME SessInv, StartRead PROVE SessInv'
<1>1. /\ pc \in Reading /\ pc' = pc /\ rd.at = "check" /\ clock < Deadline
      /\ rd' = [rd EXCEPT !.at = "block"] /\ wrote' = None
      /\ UNCHANGED <<clock, driver, job, page>> /\ since' = since
  BY DEF StartRead
<1>2. rd' \in ReadType /\ rd'.at = "block" /\ ~rd'.heard /\ rd'.bytes \in Nat
  BY <1>1, Parts DEF SessInv, ReadOK, ReadType
<1>3. since + (IF rd'.heard THEN 1 ELSE 0) <= Deadline - 1 + rd'.bytes
  BY <1>1, <1>2, Parts DEF SessInv, ReadOK
<1>4. pc' \in Reading \cup {"launch"} /\ (rd'.at = "check" \/ pc' = "body" => ~rd'.heard)
  BY <1>1, <1>2
<1>5. QED
  BY <1>1, <1>2, <1>3, <1>4, ReadingStep

LEMMA HearByteStep == ASSUME SessInv, HearByte PROVE SessInv'
<1>1. CASE Return(None)
  BY <1>1, ReturnStep DEF HearByte
<1>2. CASE /\ rd.bytes < MaxLine
           /\ rd' = [rd EXCEPT !.bytes = rd.bytes + 1, !.heard = TRUE]
           /\ UNCHANGED <<pc, clock, since, driver, job, page, wrote, filterVars>>
  <2>1. pc \in Reading \ {"body"} /\ rd.at = "block"
    BY DEF HearByte
  <2>2. /\ rd' \in ReadType /\ rd'.at = "block" /\ rd'.heard /\ rd'.bytes = rd.bytes + 1
        /\ rd.bytes \in Nat
    <3>1. rd \in ReadType /\ rd.bytes \in 0 .. MaxLine /\ MaxLine \in Nat
      BY Parts DEF ReadType
    <3>2. rd.bytes + 1 \in 0 .. MaxLine
      BY <1>2, <3>1
    <3>3. DEFINE b == rd.bytes + 1
    <3>4. b \in 0 .. MaxLine /\ rd' = [rd EXCEPT !.bytes = b, !.heard = TRUE]
      BY <1>2, <3>2
    <3> HIDE DEF b
    <3>5. rd' \in ReadType /\ rd'.at = "block" /\ rd'.heard = TRUE /\ rd'.bytes = b
      BY <2>1, <3>1, <3>4 DEF ReadType
    <3>6. QED
      BY <3>1, <3>5 DEF b
  <2>3. since <= Deadline - 1 + rd.bytes
    BY <2>1, <2>2, Parts DEF SessInv, ReadOK
  <2>4. since + 1 <= Deadline - 1 + rd'.bytes
    BY <2>2, <2>3, Parts
  <2>5. QED
    BY <1>2, <2>1, <2>2, <2>4, ReadingStep
<1>3. QED
  BY <1>1, <1>2 DEF HearByte

\* The lines of the dialogue and the head of a POST start a new read.
LEMMA LineStep ==
  ASSUME SessInv, ReadTimesOut \/ PeerCloses \/ CallsignLine \/ NoiseLine \/ BadLine \/ PostLine
  PROVE  SessInv'
<1>1. CASE ReadTimesOut
  BY <1>1, ReturnStep DEF ReadTimesOut
<1>2. CASE PeerCloses
  BY <1>2, ReturnStep DEF PeerCloses
<1>3. CASE CallsignLine
  BY <1>3, ReturnStep, ReadingStep, NewReadTyped DEF CallsignLine, Reading, Dialogue
<1>4. CASE NoiseLine
  BY <1>4, ReadingStep, NewReadTyped DEF NoiseLine, Reading, Dialogue
<1>5. CASE BadLine
  BY <1>5, ReturnStep DEF BadLine, Reading
<1>6. CASE PostLine
  <2>1. PICK n \in 1 .. MaxBody : rd' = [NewRead EXCEPT !.left = n]
    BY <1>6 DEF PostLine
  <2>2. rd' \in ReadType /\ rd'.at = "check" /\ ~rd'.heard
    <3>1. n \in 0 .. MaxBody /\ 0 \in 0 .. MaxLine
      BY <2>1
    <3>2. QED
      BY <2>1, <3>1 DEF ReadType, NewRead
  <2>3. QED
    BY <1>6, <2>2, ReadingStep DEF PostLine, Reading
<1>7. QED
  BY <1>1, <1>2, <1>3, <1>4, <1>5, <1>6

LEMMA BodyStep == ASSUME SessInv, BodyBytes \/ PostRefused PROVE SessInv'
<1>1. CASE BodyBytes
  <2>1. rd' \in ReadType /\ rd'.at = "check" /\ ~rd'.heard
    <3>1. rd \in ReadType /\ rd.left - 1 \in 0 .. MaxBody /\ ~rd.heard
      BY <1>1, Parts DEF BodyBytes, ReadType, SessInv, ReadOK
    <3>2. rd' = [rd EXCEPT !.at = "check", !.left = rd.left - 1]
      BY <1>1 DEF BodyBytes
    <3>3. QED
      BY <3>1, <3>2 DEF ReadType
  <2>2. QED
    BY <1>1, <2>1, ReadingStep DEF BodyBytes, Reading
<1>2. CASE PostRefused
  <2>1. pc = "body" /\ pc \in Reading
    BY <1>2 DEF PostRefused, Reading
  <2>2. CASE Return(None)
    BY <2>1, <2>2, ReturnStep
  <2>3. CASE Respond("Err", None) /\ UNCHANGED driver
    <3>1. DriverOK(driver') /\ driver'.procs = driver'.lost + Owned'
      BY <2>1, <2>3, Parts DEF SessInv, BrowserOK, DriverOK, DriversReclaimed, DriverType, Owned
    <3>2. QED
      BY <2>3, <3>1, RespondStep DEF Replies
  <2>4. QED
    BY <1>2, <2>2, <2>3 DEF PostRefused
<1>3. QED
  BY <1>1, <1>2

LEMMA AgreeStep == ASSUME SessInv, AgreeLine PROVE SessInv'
<1>1. pc = "agree" /\ pc \in Reading
  BY DEF AgreeLine, Reading, Dialogue
<1>2. CASE Return(None)
  BY <1>1, <1>2, ReturnStep
<1>3. CASE /\ pc' = "launch" /\ rd' = NewRead /\ clock' = 0 /\ since' = 0
           /\ UNCHANGED <<driver, job, page, wrote, filterVars>>
  <2>1. SessionTypeOK'
    BY <1>3, NewReadTyped DEF SessInv, SessionTypeOK, PCs, ReadType
  <2>2. ReadOK' /\ JobOK' /\ DriversReclaimed' /\ BrowserOK'
    BY <1>1, <1>3, NewReadTyped
       DEF SessInv, ReadOK, JobOK, DriversReclaimed, BrowserOK, DriverOK, Owned, Reading, Dialogue
  <2>3. QED
    BY <2>1, <2>2 DEF SessInv
<1>4. QED
  BY <1>2, <1>3 DEF AgreeLine

\* A step outside the reads that leaves the request alone: the browser is
\* launched, comes up or crashes.
Starting == {"launch", "driver", "webdriver", "replace", "discard", "fetch"}
LEMMA DriverStep ==
  ASSUME SessInv, pc \in Starting, pc' \in Starting \cup {"read"},
         UNCHANGED <<rd, clock, since, job, page, wrote>>,
         pc' = "fetch" => job.req # None, pc' = "read" => job.req = None,
         DriverOK(driver'), pc' \in {"replace", "discard"} => driver'.own,
         driver'.procs = driver'.lost + Owned' + Extra'
  PROVE  SessInv'
<1>1. SessionTypeOK'
  BY DEF SessInv, SessionTypeOK, DriverOK, DriverType, PCs, Reading, Starting
<1>2. ReadOK'
  BY DEF SessInv, ReadOK, Reading, Dialogue, Starting
<1>3. JobOK'
  BY DEF SessInv, JobOK, Reading, Dialogue, Starting
<1>4. BrowserOK'
  BY DEF BrowserOK, DriverOK, Starting
<1>5. QED
  BY <1>1, <1>2, <1>3, <1>4 DEF SessInv, DriversReclaimed, Extra

\* The answer, or the end, when there is no browser.
LEMMA GiveUpStep ==
  ASSUME SessInv, pc \in Starting, GiveUp, DriverOK(driver'), driver'.procs = driver'.lost + Owned'
  PROVE  SessInv'
<1>1. CASE Respond("Err", None)
  BY <1>1, RespondStep DEF Replies
<1>2. CASE /\ pc' = "ended" /\ wrote' \in {[status |-> "Err", tag |-> None], None}
           /\ job.req = None
           /\ UNCHANGED <<rd, clock, since, job, page, filterVars>>
  <2>1. wrote' \in {None} \cup [status : Replies, tag : Tags \cup {None}]
    BY <1>2 DEF Replies
  <2>2. SessionTypeOK'
    BY <1>2, <2>1 DEF SessInv, SessionTypeOK, DriverOK, DriverType, PCs
  <2>3. ReadOK'
    BY <1>2 DEF SessInv, ReadOK, Reading, Dialogue, Starting
  <2>4. JobOK'
    BY <1>2 DEF SessInv, JobOK, Reading, Dialogue
  <2>5. DriversReclaimed'
    BY <1>2 DEF DriversReclaimed, Owned, DriverOK, DriverType
  <2>6. BrowserOK'
    BY <1>2 DEF BrowserOK, DriverOK
  <2>7. QED
    BY <2>2, <2>3, <2>4, <2>5, <2>6 DEF SessInv
<1>3. QED
  BY <1>1, <1>2 DEF GiveUp

\* A launch that fails leaves the old browser, to be dropped, or none.
LEMMA LaunchFailsStep ==
  ASSUME SessInv, NEW extra \in Int, NEW orphans \in Nat, LaunchFails(extra, orphans),
         pc \in {"launch", "driver", "webdriver"}, orphans = extra + Extra
  PROVE  SessInv'
<1> DEFINE procs == driver.procs + extra
           lost  == driver.lost + orphans
           flts  == driver.faults + 1
<1>0. DriverOK(driver) /\ Owned \in Nat /\ Extra \in Nat
  BY Parts DEF SessInv, BrowserOK, Extra
<1>1. procs = lost + Owned /\ procs \in Nat /\ lost \in Nat /\ flts \in 0 .. MaxFaults
  <2>1. /\ driver.procs \in Nat /\ driver.lost \in Nat /\ driver.faults \in 0 .. MaxFaults
        /\ driver.faults < MaxFaults
    BY <1>0 DEF DriverOK, DriverType, LaunchFails
  <2>2. driver.procs = driver.lost + Owned + Extra
    BY DEF SessInv, DriversReclaimed, Extra
  <2> HIDE DEF Owned, Extra
  <2>3. QED
    BY <1>0, <2>1, <2>2
<1>2. driver' = [driver EXCEPT !.procs = procs, !.lost = lost, !.faults = flts]
  BY DEF LaunchFails
<1> HIDE DEF procs, lost, flts
<1>3. /\ DriverOK(driver') /\ driver'.procs = procs /\ driver'.lost = lost
      /\ driver'.own = driver.own
  BY <1>0, <1>1, <1>2 DEF DriverOK, DriverType
<1>4. driver'.procs = driver'.lost + Owned'
  BY <1>1, <1>3 DEF Owned
<1>5. CASE GiveUp
  BY <1>3, <1>4, <1>5, GiveUpStep DEF Starting
<1>6. CASE driver.own /\ pc' = "discard" /\ UNCHANGED <<rd, clock, since, job, page, wrote>>
  <2>1. driver'.procs = driver'.lost + Owned' + Extra'
    BY <1>1, <1>3, <1>4, <1>6 DEF Extra, Owned
  <2>2. QED
    BY <1>3, <1>6, <2>1, DriverStep DEF Starting
<1>7. QED
  BY <1>5, <1>6 DEF LaunchFails

LEMMA LaunchStep ==
  ASSUME SessInv, Launch
  PROVE  SessInv'
<1>0. DriverOK(driver) /\ Owned \in Nat /\ driver.procs \in Nat /\ driver.lost \in Nat
  BY Parts DEF SessInv, BrowserOK, DriverType
<1>1. CASE SpawnDriver
  <2>1. pc = "launch" /\ pc' = "driver" /\ UNCHANGED <<rd, clock, since, job, page, wrote>>
    BY <1>1 DEF SpawnDriver
  <2> DEFINE p == driver.procs + 1
  <2>2. p \in Nat /\ driver' = [driver EXCEPT !.procs = p]
    BY <1>0, <1>1 DEF SpawnDriver
  <2>3. p = driver.lost + Owned + 1
    BY <1>0, <2>1 DEF SessInv, DriversReclaimed
  <2> HIDE DEF p
  <2>4. /\ DriverOK(driver') /\ driver'.procs = p /\ driver'.own = driver.own
        /\ driver'.lost = driver.lost
    BY <1>0, <2>2 DEF DriverOK, DriverType
  <2>5. driver'.procs = driver'.lost + Owned' + Extra'
    BY <2>1, <2>3, <2>4 DEF Owned, Extra
  <2>6. QED
    BY <2>1, <2>4, <2>5, DriverStep DEF Starting
<1>2. CASE DriverListens
  <2>1. /\ pc = "driver" /\ pc' = "webdriver"
        /\ UNCHANGED <<rd, clock, since, job, page, wrote>> /\ driver' = driver
    BY <1>2 DEF DriverListens
  <2>2. driver'.procs = driver'.lost + Owned' + Extra'
    BY <2>1 DEF SessInv, DriversReclaimed, Owned, Extra
  <2>3. QED
    BY <1>0, <2>1, <2>2, DriverStep DEF Starting
<1>3. CASE SpawnFails
  <2>1. pc = "launch" /\ LaunchFails(0, 0) /\ Extra = 0
    BY <1>3 DEF SpawnFails, Extra
  <2>2. 0 \in Int /\ 0 \in Nat /\ 0 = 0 + Extra
    BY <2>1
  <2>3. QED
    BY <2>1, <2>2, LaunchFailsStep
<1>4. CASE ListenTimesOut
  <2>1. pc = "driver" /\ LaunchFails(-1, 0) /\ Extra = 1
    BY <1>4 DEF ListenTimesOut, Extra
  <2>2. -1 \in Int /\ 0 \in Nat /\ 0 = -1 + Extra
    BY <2>1
  <2>3. QED
    BY <2>1, <2>2, LaunchFailsStep
<1>5. QED
  BY <1>1, <1>2, <1>3, <1>4 DEF Launch

LEMMA WebDriverStep ==
  ASSUME SessInv, WebDriver
  PROVE  SessInv'
<1>0. /\ DriverOK(driver) /\ Owned \in Nat /\ driver.procs \in Nat /\ driver.lost \in Nat
      /\ page \in Versions
  BY Parts DEF SessInv, SessionTypeOK, BrowserOK, DriverType
<1>1. CASE BrowserUp
  <2>1. /\ pc = "webdriver" /\ pc' = IF driver.own THEN "replace" ELSE GoOn
        /\ driver' = [driver EXCEPT !.own = TRUE, !.memory = {}, !.shown = {page}]
        /\ UNCHANGED <<rd, clock, since, job, page, wrote>>
    BY <1>1 DEF BrowserUp
  <2>2. /\ DriverOK(driver') /\ driver'.procs = driver.procs /\ driver'.own = TRUE
        /\ driver'.lost = driver.lost
    BY <1>0, <2>1 DEF DriverOK, DriverType
  <2>3. driver.procs = driver.lost + Owned + 1
    BY <2>1 DEF SessInv, DriversReclaimed
  <2>4. driver'.procs = driver'.lost + Owned' + Extra'
    BY <1>0, <2>1, <2>2, <2>3 DEF Owned, Extra, GoOn
  <2>5. QED
    BY <2>1, <2>2, <2>4, DriverStep DEF Starting, GoOn
<1>2. CASE WebDriverFails
  <2>1. pc = "webdriver" /\ LaunchFails(0, 1) /\ Extra = 1
    BY <1>2 DEF WebDriverFails, Extra
  <2>2. 0 \in Int /\ 1 \in Nat /\ 1 = 0 + Extra
    BY <2>1
  <2>3. QED
    BY <2>1, <2>2, LaunchFailsStep
<1>3. CASE pc = "replace" /\ OldClosed
  <2>1. driver.own /\ driver.procs = driver.lost + 1 + 1
    BY <1>0, <1>3 DEF SessInv, BrowserOK, DriversReclaimed, Owned
  <2> DEFINE p == driver.procs - 1
  <2>2. p = driver.lost + 1 /\ p \in Nat /\ driver' = [driver EXCEPT !.procs = p]
    BY <1>0, <1>3, <2>1 DEF OldClosed
  <2> HIDE DEF p
  <2>3. pc' = GoOn /\ UNCHANGED <<rd, clock, since, job, page, wrote>>
    BY <1>3 DEF OldClosed
  <2>4. /\ DriverOK(driver') /\ driver'.procs = p /\ driver'.own = driver.own
        /\ driver'.lost = driver.lost
    BY <1>0, <2>2 DEF DriverOK, DriverType
  <2>5. driver'.procs = driver'.lost + Owned' + Extra'
    BY <1>0, <2>1, <2>2, <2>3, <2>4 DEF Owned, Extra, GoOn
  <2>6. QED
    BY <1>3, <2>3, <2>4, <2>5, DriverStep DEF Starting, GoOn
<1>4. CASE pc = "discard" /\ OldClosed
  <2>1. driver.own /\ driver.procs = driver.lost + 1
    BY <1>0, <1>4 DEF SessInv, BrowserOK, DriversReclaimed, Owned
  <2> DEFINE p == driver.procs - 1
  <2>2. /\ p = driver.lost /\ p \in Nat
        /\ driver' = [driver EXCEPT !.own = FALSE, !.procs = p, !.memory = {}, !.shown = {}]
    BY <1>0, <1>4, <2>1 DEF OldClosed
  <2> HIDE DEF p
  <2>3. /\ DriverOK(driver') /\ driver'.procs = p /\ driver'.own = FALSE
        /\ driver'.lost = driver.lost
    BY <1>0, <2>2 DEF DriverOK, DriverType
  <2>4. driver'.procs = driver'.lost + Owned'
    BY <1>0, <2>2, <2>3 DEF Owned
  <2>5. QED
    BY <1>4, <2>3, <2>4, GiveUpStep DEF OldClosed, Starting
<1>5. QED
  BY <1>1, <1>2, <1>3, <1>4 DEF WebDriver, OldClosed

\* While a request is handled the driver is not being launched.
LEMMA SameDriver ==
  ASSUME SessInv, pc \notin {"driver", "webdriver", "replace"}, UNCHANGED driver
  PROVE  DriverOK(driver') /\ driver'.procs = driver'.lost + Owned'
<1>1. driver.procs = driver.lost + Owned
  BY Parts DEF SessInv, DriversReclaimed, DriverType
<1>2. Owned' = Owned
  BY DEF Owned
<1>3. DriverOK(driver')
  BY DEF SessInv, BrowserOK, DriverOK
<1>4. QED
  BY <1>1, <1>2, <1>3, Parts

\* A step of the request that keeps clocks, driver and page.
LEMMA JobStep ==
  ASSUME SessInv, pc \in {"validate", "fetch"},
         pc' \in {"fetch", "join", "launch"}, pc' = "join" => driver.own,
         UNCHANGED <<rd, clock, since, driver, page, wrote>>,
         job' \in JobType, job'.req = job.req,
         job'.html # None => pc' = "join" /\ job'.html \in driver.shown \cup {"refusal"}
  PROVE  SessInv'
<1>0. pc' \notin Reading /\ pc \notin Reading /\ rd.at = "check" /\ job.req # None
  BY Parts DEF SessInv, ReadOK, JobOK, Reading, Dialogue, ReadType
<1>1. SessionTypeOK'
  BY DEF SessInv, SessionTypeOK, JobType, PCs
<1>2. ReadOK'
  BY <1>0 DEF SessInv, ReadOK, Reading
<1>3. JobOK'
  BY <1>0 DEF SessInv, JobOK
<1>4. DriversReclaimed'
  BY SameDriver, Parts DEF DriversReclaimed, DriverOK, DriverType, Owned
<1>5. BrowserOK'
  BY DEF SessInv, BrowserOK, DriverOK
<1>6. QED
  BY <1>1, <1>2, <1>3, <1>4, <1>5 DEF SessInv

LEMMA GetLineStep == ASSUME SessInv, GetLine PROVE SessInv'
<1>1. PICK url \in Urls, tag \in Tags \cup {None} :
        job' = [job EXCEPT !.req = [url |-> url, tag |-> tag]]
  BY DEF GetLine
<1>2. /\ pc = "read" /\ pc' = "validate" /\ rd' = NewRead /\ clock' = 0 /\ since' = 0
      /\ wrote' = None /\ UNCHANGED <<driver, page>>
  BY DEF GetLine
<1> DEFINE req == [url |-> url, tag |-> tag]
<1>3. req \in [url : Urls, tag : Tags \cup {None}] /\ req # None
  BY DEF Tags
<1>4. page \in Versions /\ job \in JobType
  BY Parts DEF SessInv, SessionTypeOK
<1>5. job' = [job EXCEPT !.req = req]
  BY <1>1
<1> HIDE DEF req
<1>6. job' \in JobType /\ job'.req = req /\ job'.html = job.html
  BY <1>3, <1>4, <1>5 DEF JobType
<1>7. SessionTypeOK'
  BY <1>2, <1>4, <1>6, NewReadTyped
     DEF SessInv, SessionTypeOK, JobType, ReadType, PCs
<1>8. ReadOK'
  BY <1>2, NewReadTyped DEF ReadOK, Reading, Dialogue
<1>9. JobOK'
  BY <1>2, <1>3, <1>6 DEF SessInv, JobOK, Reading, Dialogue
<1>10. DriversReclaimed'
  BY <1>2, SameDriver, Parts DEF DriversReclaimed, DriverOK, DriverType, Owned
<1>11. BrowserOK'
  BY <1>2 DEF SessInv, BrowserOK, DriverOK
<1>12. QED
  BY <1>7, <1>8, <1>9, <1>10, <1>11 DEF SessInv

LEMMA Verdicts ==
  ASSUME NEW url \in Urls, NEW answer
  PROVE  ValidateUrl(url, answer) \in {"Err", "Blocked", "pass"}
<1>1. url.scheme \in {"http", "https", "other", "invalid"} /\ url.host \in Domains \cup Literals
  OBVIOUS
<1>2. CASE url.scheme = "invalid" \/ url.scheme = "other"
  BY <1>2 DEF ValidateUrl
<1>3. CASE url.scheme \in {"http", "https"} /\ url.host \in Domains
  <2>1. url.host \notin Literals
    BY <1>3, FilterAssumption
  <2>2. QED
    BY <1>3, <2>1 DEF ValidateUrl
<1>4. CASE url.scheme \in {"http", "https"} /\ url.host \in Literals
  <2>1. url.host \notin Domains
    BY <1>4, FilterAssumption
  <2>2. QED
    BY <1>4, <2>1 DEF ValidateUrl
<1>5. QED
  BY <1>1, <1>2, <1>3, <1>4

LEMMA ValidateStep == ASSUME SessInv, Validate PROVE SessInv'
<1>1. pc = "validate" /\ UNCHANGED driver /\ pc \notin Reading
  BY DEF Validate, Reading, Dialogue
<1>2. job \in JobType /\ job.req # None /\ job.req.url \in Urls
  BY <1>1, Parts DEF SessInv, JobOK, JobType
<1>3. PICK url \in Urls : url = job.req.url
  BY <1>2
<1>4. PICK answer :
        LET verdict == ValidateUrl(url, answer)
        IN  \/ /\ verdict = "pass"
               /\ pc' = "fetch" /\ job' = [job EXCEPT !.probe = TRUE]
               /\ UNCHANGED <<rd, clock, since, page, wrote, filterVars>>
            \/ verdict # "pass" /\ Respond(verdict, None)
  BY <1>3 DEF Validate
<1>5. CASE /\ pc' = "fetch" /\ job' = [job EXCEPT !.probe = TRUE]
           /\ UNCHANGED <<rd, clock, since, page, wrote, filterVars>>
  <2>1. job' \in JobType /\ job'.req = job.req /\ job'.html = job.html
    BY <1>2, <1>5 DEF JobType
  <2>2. job'.html = None
    BY <1>1, <2>1 DEF SessInv, JobOK
  <2>3. QED
    BY <1>1, <1>2, <1>5, <2>1, <2>2, JobStep
<1>6. CASE ValidateUrl(url, answer) # "pass" /\ Respond(ValidateUrl(url, answer), None)
  <2>1. PICK v \in {"Err", "Blocked"} : v = ValidateUrl(url, answer)
    BY <1>6, Verdicts
  <2>2. Respond(v, None)
    BY <1>6, <2>1
  <2>3. DriverOK(driver') /\ driver'.procs = driver'.lost + Owned'
    BY <1>1, SameDriver
  <2>4. QED
    BY <2>2, <2>3, RespondStep DEF Replies
<1>7. QED
  BY <1>4, <1>5, <1>6

LEMMA FetchStep ==
  ASSUME SessInv, NoBrowser \/ Fetched \/ FetchFails \/ BrowserCrashes
  PROVE  SessInv'
<1>1. pc = "fetch" /\ pc \notin Reading
  BY DEF NoBrowser, Fetched, FetchFails, BrowserCrashes, Reading, Dialogue
<1>2. /\ job \in JobType /\ job.req # None /\ job.html = None
      /\ DriverOK(driver)
  BY <1>1, Parts DEF SessInv, JobOK, BrowserOK
<1>3. CASE NoBrowser \/ BrowserCrashes
  BY <1>1, <1>2, <1>3, JobStep DEF NoBrowser, BrowserCrashes
<1>4. CASE Fetched
  <2>1. PICK html \in driver.memory \cup {"refusal"} : job' = [job EXCEPT !.html = html]
    BY <1>4 DEF Fetched
  <2>2. html \in Tags /\ html \in driver.shown \cup {"refusal"}
    BY <1>2, <2>1 DEF DriverOK, DriverType, Tags
  <2>3. job' \in JobType /\ job'.req = job.req /\ job'.html = html
    BY <1>2, <2>1, <2>2 DEF JobType
  <2>4. QED
    BY <1>1, <1>4, <2>2, <2>3, JobStep DEF Fetched
<1>5. CASE FetchFails
  <2>1. DriverOK(driver') /\ driver'.procs = driver'.lost + Owned'
    BY <1>1, <1>5, SameDriver DEF FetchFails
  <2>2. QED
    BY <1>5, <2>1, RespondStep DEF FetchFails, Replies
<1>6. QED
  BY <1>3, <1>4, <1>5

LEMMA PageLoadsStep == ASSUME SessInv, PageLoads PROVE SessInv'
<1>1. /\ pc = "fetch" /\ pc' = "fetch" /\ UNCHANGED <<rd, clock, since, job, page, wrote>>
      /\ driver' = [driver EXCEPT !.memory = driver.memory \cup {page}] /\ driver.own
  BY DEF PageLoads
<1>2. DriverOK(driver) /\ page \in Versions /\ job.req # None
  BY <1>1 DEF SessInv, SessionTypeOK, BrowserOK, JobOK
<1>3. /\ DriverOK(driver') /\ driver'.own = driver.own /\ driver'.procs = driver.procs
      /\ driver'.lost = driver.lost
  BY <1>1, <1>2 DEF DriverOK, DriverType
<1>4. driver'.procs = driver'.lost + Owned' + Extra'
  BY <1>1, <1>3 DEF SessInv, DriversReclaimed, Owned, Extra
<1>5. QED
  BY <1>1, <1>2, <1>3, <1>4, DriverStep DEF Starting

LEMMA DeliverStep == ASSUME SessInv, Deliver PROVE SessInv'
<1>1. DriverOK(driver') /\ driver'.procs = driver'.lost + Owned'
  BY SameDriver DEF Deliver
<1>2. PICK html \in Tags \cup {None} : html = job.html
  BY Parts DEF JobType
<1>3. Respond("NotModified", html) \/ Respond("Ok", html) \/ Respond("Err", None)
  BY <1>2 DEF Deliver
<1>4. QED
  BY <1>1, <1>3, RespondStep DEF Replies

LEMMA ProbeEndsStep == ASSUME SessInv, ProbeEnds PROVE SessInv'
<1>1. job' = [job EXCEPT !.probe = FALSE] /\ UNCHANGED <<pc, rd, clock, since, driver, page, wrote>>
  BY DEF ProbeEnds
<1>2. /\ job' \in JobType /\ job'.req = job.req /\ job'.html = job.html
  BY <1>1, Parts DEF JobType
<1>3. SessionTypeOK' /\ ReadOK'
  BY <1>1, <1>2 DEF SessInv, SessionTypeOK, JobType, ReadOK, Deadline
<1>4. JobOK' /\ DriversReclaimed' /\ BrowserOK'
  BY <1>1, <1>2 DEF SessInv, JobOK, DriversReclaimed, BrowserOK, DriverOK, Owned
<1>5. QED
  BY <1>3, <1>4 DEF SessInv

LEMMA PublishStep == ASSUME SessInv, Publish PROVE SessInv'
<1>1. page' \in Versions /\ UNCHANGED <<pc, rd, clock, since, job, wrote>>
  BY DEF Publish
<1>2. DriverOK(driver)
  BY DEF SessInv, BrowserOK
<1> DEFINE shown == IF driver.own THEN driver.shown \cup {page'} ELSE driver.shown
<1>3. driver' = [driver EXCEPT !.shown = shown]
  BY DEF Publish
<1>4. driver.shown \subseteq shown /\ shown \subseteq Versions /\ (driver.own => page' \in shown)
  BY <1>1, <1>2 DEF DriverOK, DriverType
<1> HIDE DEF shown
<1>5. /\ driver' \in DriverType /\ driver'.own = driver.own /\ driver'.procs = driver.procs
      /\ driver'.lost = driver.lost /\ driver'.memory = driver.memory /\ driver'.shown = shown
  BY <1>2, <1>3, <1>4 DEF DriverOK, DriverType
<1>6. SessionTypeOK' /\ ReadOK'
  BY <1>1, <1>5 DEF SessInv, SessionTypeOK, DriverType, ReadOK, Deadline
<1>7. JobOK' /\ DriversReclaimed'
  BY <1>1, <1>4, <1>5 DEF SessInv, JobOK, DriversReclaimed, Owned
<1>8. BrowserOK'
  BY <1>1, <1>2, <1>4, <1>5 DEF SessInv, BrowserOK, DriverOK
<1>9. QED
  BY <1>6, <1>7, <1>8 DEF SessInv

LEMMA TickStep == ASSUME SessInv, Tick PROVE SessInv'
<1>0. clock \in Nat /\ since \in Nat /\ rd \in ReadType /\ Deadline \in Nat /\ rd.bytes \in Nat
  BY Parts DEF ReadType
<1>1. clock' = clock + 1 /\ since' = since + 1 /\ UNCHANGED <<pc, driver, job, page, wrote>>
  BY DEF Tick
<1>2. Deadline' = Deadline
  BY <1>1 DEF Deadline
<1>3. CASE pc \in Reading
  <2>1. rd.at = "block"
    BY <1>3 DEF Tick, Reading, Dialogue, NoLimit
  <2>2. rd' = [rd EXCEPT !.heard = FALSE, !.at = IF rd.heard THEN "block" ELSE "check"]
    BY <1>3 DEF Tick
  <2>3. /\ rd' \in ReadType /\ rd'.heard = FALSE /\ rd'.bytes = rd.bytes
        /\ rd'.at = IF rd.heard THEN "block" ELSE "check"
    BY <1>0, <2>2 DEF ReadType
  <2>4. rd.heard => since + 1 <= Deadline - 1 + rd.bytes
    BY <1>0, <2>1 DEF SessInv, ReadOK
  <2>5. ReadOK'
    BY <1>0, <1>1, <1>2, <1>3, <2>3, <2>4 DEF SessInv, ReadOK
  <2>6. SessionTypeOK' /\ JobOK' /\ DriversReclaimed' /\ BrowserOK'
    BY <1>0, <1>1, <2>3
       DEF SessInv, SessionTypeOK, ReadType, JobOK, DriversReclaimed, BrowserOK, DriverOK, Owned
  <2>7. QED
    BY <2>5, <2>6 DEF SessInv
<1>4. CASE pc \notin Reading
  <2>1. rd' = rd /\ rd.at # "block"
    BY <1>4 DEF Tick, SessInv, ReadOK
  <2>2. ReadOK'
    BY <1>0, <1>1, <2>1 DEF SessInv, ReadOK
  <2>3. SessionTypeOK' /\ JobOK' /\ DriversReclaimed' /\ BrowserOK'
    BY <1>0, <1>1, <2>1
       DEF SessInv, SessionTypeOK, JobOK, DriversReclaimed, BrowserOK, DriverOK, Owned
  <2>4. QED
    BY <2>2, <2>3 DEF SessInv
<1>5. QED
  BY <1>3, <1>4

-----------------------------------------------------------------------------
(* The theorems.                                                           *)

Inv == FilterInv /\ SessInv

LEMMA Start == Init => Inv
<1> SUFFICES ASSUME Init PROVE Inv
  OBVIOUS
<1>1. FilterInv
  BY FilterStart DEF Init
<1>2. NoJob \in JobType /\ NoJob.req = None /\ NoJob.html = None
  BY DEF NoJob, JobType
<1>3. /\ driver \in DriverType /\ driver.procs = 0 /\ driver.lost = 0 /\ driver.own = FALSE
      /\ driver.memory = {} /\ driver.shown = {}
  BY DEF Init, DriverType
<1>4. SessionTypeOK
  BY <1>2, <1>3, NewReadTyped
     DEF Init, SessionTypeOK, JobType, DriverType, ReadType, PCs, Reading, Dialogue
<1>5. ReadOK /\ JobOK
  BY <1>2, NewReadTyped DEF Init, ReadOK, JobOK
<1>6. DriversReclaimed /\ BrowserOK
  BY <1>3 DEF Init, DriversReclaimed, BrowserOK, DriverOK, Owned
<1>7. QED
  BY <1>1, <1>4, <1>5, <1>6 DEF Inv, SessInv

LEMMA SessUnchanged ==
  ASSUME SessInv, UNCHANGED sessionVars
  PROVE  SessInv'
<1>1. SessionTypeOK' /\ ReadOK'
  BY DEF SessInv, sessionVars, SessionTypeOK, ReadOK, Deadline
<1>2. JobOK' /\ DriversReclaimed' /\ BrowserOK'
  BY DEF SessInv, sessionVars, JobOK, DriversReclaimed, BrowserOK, DriverOK, Owned
<1>3. QED
  BY <1>1, <1>2 DEF SessInv

\* The steps of the thread, of the probe's end, of the world and of the clock
\* leave the filter alone.
LEMMA OwnSteps ==
  ASSUME SessInv,
         \/ StartRead \/ ReadTimesOut \/ Peer \/ Launch \/ WebDriver \/ Handle
         \/ PageLoads \/ ProbeEnds \/ Publish \/ Tick
  PROVE  SessInv' /\ UNCHANGED filterVars
<1>1. CASE StartRead
  BY <1>1, StartReadStep DEF StartRead
<1>2. CASE ReadTimesOut
  BY <1>2, LineStep DEF ReadTimesOut, Return
<1>3. CASE Peer
  <2>1. SessInv'
    BY <1>3, HearByteStep, LineStep, BodyStep, AgreeStep, GetLineStep DEF Peer
  <2>2. UNCHANGED filterVars
    BY <1>3 DEF Peer, HearByte, PeerCloses, CallsignLine, NoiseLine, AgreeLine, GetLine, BadLine,
                PostLine, BodyBytes, PostRefused, Return, Respond
  <2>3. QED
    BY <2>1, <2>2
<1>4. CASE Launch
  <2>1. SessInv'
    BY <1>4, LaunchStep
  <2>2. UNCHANGED filterVars
    BY <1>4 DEF Launch, SpawnDriver, SpawnFails, DriverListens, ListenTimesOut,
                LaunchFails, GiveUp, Respond
  <2>3. QED
    BY <2>1, <2>2
<1>5. CASE Handle
  <2>1. SessInv'
    BY <1>5, ValidateStep, FetchStep, DeliverStep DEF Handle
  <2>2. UNCHANGED filterVars
    BY <1>5 DEF Handle, Validate, NoBrowser, Fetched, FetchFails, BrowserCrashes, Deliver, Respond
  <2>3. QED
    BY <2>1, <2>2
<1>6. CASE ProbeEnds
  BY <1>6, ProbeEndsStep DEF ProbeEnds
<1>7. CASE Publish
  BY <1>7, PublishStep DEF Publish
<1>8. CASE Tick
  BY <1>8, TickStep DEF Tick
<1>9. CASE WebDriver
  BY <1>9, WebDriverStep DEF WebDriver, BrowserUp, WebDriverFails, OldClosed,
                             LaunchFails, GiveUp, Respond
<1>10. CASE PageLoads
  BY <1>10, PageLoadsStep DEF PageLoads
<1>11. QED
  BY <1>1, <1>2, <1>3, <1>4, <1>5, <1>6, <1>7, <1>8, <1>9, <1>10

LEMMA Step == Inv /\ [Next]_vars => Inv'
<1> SUFFICES ASSUME Inv, [Next]_vars PROVE Inv'
  OBVIOUS
<1>0. FilterInv /\ SessInv
  BY DEF Inv
<1>1. CASE UNCHANGED vars
  BY <1>0, <1>1, FilterUnchanged, SessUnchanged DEF vars, Inv
<1>2. CASE \/ StartRead \/ ReadTimesOut \/ Peer \/ Launch \/ WebDriver \/ Handle
           \/ PageLoads \/ ProbeEnds \/ Publish \/ Tick
  BY <1>0, <1>2, OwnSteps, FilterUnchanged DEF Inv
<1>3. CASE Load
  <2>1. PICK k \in Slots, load \in Loads : Ask(k, load)
    BY <1>3 DEF Load
  <2>2. FilterInv'
    BY <1>0, <2>1, AskStep
  <2>3. QED
    BY <1>0, <1>3, <2>2, SessUnchanged DEF Load, Inv
<1>4. CASE ProbeLoads
  <2>1. PICK k \in Slots, load \in Loads : Ask(k, load)
    BY <1>4 DEF ProbeLoads
  <2>2. FilterInv'
    BY <1>0, <2>1, AskStep
  <2>3. QED
    BY <1>0, <1>4, <2>2, SessUnchanged DEF ProbeLoads, Inv
<1>5. CASE Filter
  BY <1>0, <1>5, RefreshStep, ProxyStep, SessUnchanged DEF Filter, Inv
<1>6. QED
  BY <1>1, <1>2, <1>3, <1>4, <1>5 DEF Next

\* The invariant of the composition: the filter's and the session's part.
LEMMA Invariance == Spec => []Inv
  BY Start, Step, PTL DEF Spec

\* The state of handle_connection, of the browser, the proxy and the blocklist
\* keeps its types.
THEOREM SessionTypeCorrect == Spec => []TypeOK
<1>1. Inv => TypeOK
  BY DEF Inv, FilterInv, SessInv, TypeOK
<1>2. QED
  BY <1>1, Invariance, PTL

\* Every read of the thread ends in time, whatever the limits are: after its
\* deadline it goes on for no more polls than a line may have bytes.
THEOREM ReadsAreBounded == Spec => []ReadsBounded
<1>1. Inv => ReadsBounded
  <2> SUFFICES ASSUME Inv, pc \in Reading, rd.at = "block"
               PROVE  since < Deadline + MaxLine
    BY DEF ReadsBounded
  <2>1. since <= Deadline - 1 + rd.bytes /\ rd.bytes \in 0 .. MaxLine
    BY Parts DEF Inv, SessInv, ReadOK, ReadType
  <2>2. since \in Nat /\ Deadline \in Nat /\ MaxLine \in Nat
    BY Parts DEF Inv
  <2>3. QED
    BY <2>1, <2>2
<1>2. QED
  BY <1>1, Invariance, PTL

\* No restart, no failed launch and no end of a session loses a driver process
\* other than the ones that never got a WebDriver session.
THEOREM DriversAreReclaimed == Spec => []DriversReclaimed
<1>1. Inv => DriversReclaimed
  BY DEF Inv, SessInv
<1>2. QED
  BY <1>1, Invariance, PTL

\* Whatever the name service answers and when, no connection of the proxy ends
\* at a forbidden address.
THEOREM OutboundIsAllowed == Spec => []OutboundAllowed
<1>1. Inv => OutboundAllowed
  BY OutboundFromInv DEF Inv
<1>2. QED
  BY <1>1, Invariance, PTL

\* A refresh of the blocklist that fails half-way changes nothing.
THEOREM ListedStayBlocked == Spec => []ListedStaysBlocked
<1>1. Inv => ListedStaysBlocked
  BY DEF Inv, FilterInv
<1>2. QED
  BY <1>1, Invariance, PTL

-----------------------------------------------------------------------------
(* What a step may write.                                                  *)

Written ==
    \/ wrote' = wrote \/ wrote' = None
    \/ /\ pc \in Reading \ Dialogue /\ clock >= Deadline
       /\ wrote' = [status |-> "text", tag |-> None]
    \/ wrote'.status # "text" /\ (wrote'.tag = None \/ wrote'.tag = job.html)

LEMMA RespondWrites ==
  ASSUME NEW status \in Replies \ {"text"}, NEW tag, tag = None \/ tag = job.html,
         Respond(status, tag)
  PROVE  Written
<1>1. CASE wrote' = None
  BY <1>1 DEF Written
<1>2. CASE wrote' = [status |-> status, tag |-> tag]
  BY <1>2 DEF Written
<1>3. QED
  BY <1>1, <1>2 DEF Respond

LEMMA Writes == ASSUME Inv, Next PROVE Written
<1>1. CASE ReadTimesOut
  <2>1. wrote' = IF pc \in Dialogue THEN None ELSE [status |-> "text", tag |-> None]
    BY <1>1 DEF ReadTimesOut, Return
  <2>2. pc \in Reading /\ clock >= Deadline
    BY <1>1 DEF ReadTimesOut
  <2>3. QED
    BY <2>1, <2>2 DEF Written
<1>2. CASE StartRead \/ Load \/ PageLoads \/ ProbeLoads \/ ProbeEnds \/ Filter \/ Publish \/ Tick
  BY <1>2 DEF StartRead, Load, PageLoads, ProbeLoads, ProbeEnds, Filter, Publish, Tick, sessionVars, Written
<1>3. CASE Peer
  <2>1. CASE PostRefused
    BY <2>1, RespondWrites DEF PostRefused, Return, Replies, Written
  <2>2. CASE HearByte \/ PeerCloses \/ CallsignLine \/ NoiseLine \/ AgreeLine \/ GetLine
                \/ BadLine \/ PostLine \/ BodyBytes
    BY <2>2 DEF HearByte, PeerCloses, CallsignLine, NoiseLine, AgreeLine, GetLine, BadLine,
                PostLine, BodyBytes, Return, Written
  <2>3. QED
    BY <1>3, <2>1, <2>2 DEF Peer
<1>4. CASE Launch \/ WebDriver
  <2>1. CASE GiveUp
    <3>1. CASE Respond("Err", None)
      BY <3>1, RespondWrites DEF Replies
    <3>2. CASE wrote' = [status |-> "Err", tag |-> None] \/ wrote' = None
      BY <3>2 DEF Written
    <3>3. QED
      BY <2>1, <3>1, <3>2 DEF GiveUp
  <2>2. CASE wrote' = wrote
    BY <2>2 DEF Written
  <2>3. QED
    BY <1>4, <2>1, <2>2 DEF Launch, WebDriver, SpawnDriver, SpawnFails, DriverListens,
       ListenTimesOut, BrowserUp, WebDriverFails, OldClosed, LaunchFails
<1>5. CASE Handle
  <2>1. CASE NoBrowser \/ Fetched \/ BrowserCrashes
    BY <2>1 DEF NoBrowser, Fetched, BrowserCrashes, Written
  <2>2. CASE FetchFails
    BY <2>2, RespondWrites DEF FetchFails, Replies
  <2>3. CASE Validate
    <3>1. job.req.url \in Urls
      BY <2>3, Parts DEF Validate, Inv, SessInv, JobOK, JobType
    <3>2. PICK url \in Urls : url = job.req.url
      BY <3>1
    <3>3. wrote' = wrote \/ \E answer : ValidateUrl(url, answer) # "pass"
                                       /\ Respond(ValidateUrl(url, answer), None)
      BY <2>3, <3>2 DEF Validate
    <3>4. ASSUME NEW answer, ValidateUrl(url, answer) # "pass",
                 Respond(ValidateUrl(url, answer), None)
          PROVE  Written
      <4>1. PICK v \in {"Err", "Blocked"} : v = ValidateUrl(url, answer)
        BY <3>4, Verdicts
      <4>2. Respond(v, None)
        BY <3>4, <4>1
      <4>3. QED
        BY <4>2, RespondWrites DEF Replies
    <3>5. QED
      BY <3>3, <3>4 DEF Written
  <2>4. CASE Deliver
    <3>1. PICK html : html = job.html
      OBVIOUS
    <3>2. Respond("NotModified", html) \/ Respond("Ok", html) \/ Respond("Err", None)
      BY <2>4, <3>1 DEF Deliver
    <3>3. QED
      BY <3>1, <3>2, RespondWrites DEF Replies
  <2>5. QED
    BY <1>5, <2>1, <2>2, <2>3, <2>4 DEF Handle
<1>6. QED
  BY <1>1, <1>2, <1>3, <1>4, <1>5 DEF Next

\* A session is never closed for idleness before a whole idle period has passed
\* since the last exchange.
THEOREM IdleWindowIsFull == Spec => FullIdleWindow
<1>1. Inv /\ [Next]_vars =>
        [wrote' # None /\ wrote'.status = "text" /\ pc # "ended" => since >= IdleTimeout]_vars
  <2> SUFFICES ASSUME Inv, Next, wrote' # None, wrote'.status = "text", pc # "ended"
               PROVE  since >= IdleTimeout
    OBVIOUS
  <2>1. wrote' # wrote
    BY DEF Inv, SessInv, JobOK
  <2>2. pc \in Reading \ Dialogue /\ clock >= Deadline
    BY <2>1, Writes DEF Written
  <2>3. QED
    BY <2>2 DEF Inv, SessInv, ReadOK, Deadline
<1>2. QED
  BY <1>1, Invariance, PTL DEF FullIdleWindow, Spec

\* An answer that names a version names one the page had since the browser in use
\* was started, over any number of crashes and restarts.
THEOREM AnswersAreCurrent == Spec => AnswerIsCurrent
<1>1. Inv /\ [Next]_vars =>
        [job.req # None /\ wrote' # None /\ wrote'.tag # None
           => wrote'.tag \in driver.shown \cup {"refusal"}]_vars
  <2> SUFFICES ASSUME Inv, Next, job.req # None, wrote' # None, wrote'.tag # None
               PROVE  wrote'.tag \in driver.shown \cup {"refusal"}
    OBVIOUS
  <2>1. /\ wrote = None
        /\ job.html # None => job.html \in driver.shown \cup {"refusal"}
        /\ pc \notin Reading
    BY DEF Inv, SessInv, JobOK
  <2>2. wrote'.tag = job.html
    BY <2>1, Writes DEF Written
  <2>3. QED
    BY <2>1, <2>2
<1>2. QED
  BY <1>1, Invariance, PTL DEF AnswerIsCurrent, Spec
=============================================================================
