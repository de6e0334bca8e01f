----------------------------- MODULE FetchFilter -----------------------------
(***************************************************************************)
(* What stands between the browser and the network: the filtering proxy    *)
(* (server/src/proxy.rs) through which every load of the browser and of    *)
(* the cache-control probe goes, the address rules (filter.rs) and the     *)
(* domain blocklist with its refresh thread (blocklist.rs).  The proxy's   *)
(* tasks, the refresh thread and the name service interleave; a name may   *)
(* resolve differently at every lookup.                                    *)
(***************************************************************************)
EXTENDS Integers, Sequences

CONSTANTS Domains,        \* host names
          LocalNames,     \* BLOCKED_HOSTNAMES
          SkippedNames,   \* names a blocklist may contain but cannot block
          Literals,       \* hosts given as an address
          AddrBits,       \* bits of an IPv4 address: 32 in the program
          BlockedRanges,  \* config.blocked_ranges: networks with prefix length
          Answers,        \* what a lookup may return, <<>> when it fails
          Listed,         \* of each blocklist URL: the names it always has
          Extras,         \* names that come and go on the lists
          Loads,          \* what may be asked of the proxy: host, port, by CONNECT?
          Slots,          \* proxied requests in flight
          None

\* An address: IPv4, IPv6 with an IPv4 address inside (mapped, 6to4), IPv6 of
\* the host's own networks (loopback, unique-local, link-local, multicast,
\* unspecified, discard) or any other.
Bits    == 0 .. 2^AddrBits - 1
Address == [form : {"v4", "mapped", "sixtofour", "v6own", "v6"}, bits : Bits]

ASSUME FilterAssumption ==
    /\ AddrBits \in Nat
    /\ \A n \in 0 .. AddrBits : 2^n \in Nat \ {0}
    /\ BlockedRanges \subseteq [net : Bits, prefix : Nat]
    /\ Literals \subseteq Address
    /\ Answers \subseteq Seq(Address)
    /\ SkippedNames \subseteq LocalNames
    /\ Listed \in Seq(SUBSET Domains) /\ Extras \subseteq Domains
    /\ Loads \subseteq [host : Domains \cup Literals, port : Nat, tunnel : BOOLEAN]
    /\ None \notin Address
    /\ Domains \cap Address = {}

VARIABLES blocklist,  \* DOMAIN_BLOCKLIST
          update,     \* the refresh in progress, or None
          loaded,     \* some refresh has succeeded (history)
          conn        \* the proxied requests

filterVars == <<blocklist, update, loaded, conn>>

Idle == [stage |-> "idle", host |-> None, tunnel |-> FALSE, port |-> 0, ip |-> None]

FilterTypeOK ==
    /\ blocklist \subseteq Domains
    /\ update \in {None} \cup [next : 1 .. Len(Listed) + 1, domains : SUBSET Domains]
    /\ loaded \in BOOLEAN
    /\ conn \in [Slots -> [stage  : {"idle", "checked", "pinned", "open", "refused"},
                           host   : Domains \cup Literals \cup {None},
                           tunnel : BOOLEAN,
                           port   : Nat,
                           ip     : Address \cup {None}]]

FilterInit ==
    /\ blocklist = {}
    /\ update = None
    /\ loaded = FALSE
    /\ conn = [k \in Slots |-> Idle]

-----------------------------------------------------------------------------
(* Addresses.                                                              *)

\* x & mask: the low AddrBits - p bits are cleared.
Masked(x, p) == IF p = 0 THEN 0 ELSE x - (x % 2^(AddrBits - p))

InCidr(x, r) == r.prefix <= AddrBits /\ Masked(x, r.prefix) = Masked(r.net, r.prefix)

Ipv4Blocked(x) == \E r \in BlockedRanges : InCidr(x, r)

IpBlocked(a) ==
    \/ a.form = "v6own"
    \/ a.form \in {"v4", "mapped", "sixtofour"} /\ Ipv4Blocked(a.bits)

NameBlocked(host) == host \in LocalNames \cup blocklist

\* validate_url on the address a client asked for; every address of the
\* answer is looked at.
ValidateUrl(url, answer) ==
    CASE url.scheme = "invalid" -> "Err"
      [] url.scheme = "other"   -> "Blocked"
      [] url.scheme \in {"http", "https"} /\ url.host \in Domains ->
           IF NameBlocked(url.host) THEN "Blocked"
           ELSE IF answer = <<>> THEN "Err"
           ELSE IF \E i \in DOMAIN answer : IpBlocked(answer[i]) THEN "Blocked" ELSE "pass"
      [] url.scheme \in {"http", "https"} /\ url.host \in Literals ->
           IF IpBlocked(url.host) THEN "Blocked" ELSE "pass"

-----------------------------------------------------------------------------
(* The proxy.  Ask: a request of the browser or of the probe arrives; its  *)
(* port and its name are checked.  Pin: one lookup, whose first address is *)
(* checked and kept.  The connection then goes to the address kept.        *)

Ask(k, load) ==
    /\ conn[k].stage = "idle"
    /\ conn' = [conn EXCEPT ![k] =
         [stage  |-> IF (load.tunnel /\ load.port \notin {80, 443}) \/ NameBlocked(load.host)
                     THEN "refused" ELSE "checked",
          host   |-> load.host, port |-> load.port, tunnel |-> load.tunnel,
          ip     |-> None]]
    /\ UNCHANGED <<blocklist, update, loaded>>

\* resolve_and_pin: a literal is its own answer.
AnswersFor(host) == IF host \in Literals THEN {<<host>>} ELSE Answers

\* Defect: a name with one clean address is let through.
PinAnyClean(k) ==
    /\ conn[k].stage = "checked"
    /\ \E answer \in AnswersFor(conn[k].host) :
         conn' = [conn EXCEPT ![k] =
           IF answer = <<>> \/ \A i \in DOMAIN answer : IpBlocked(answer[i])
           THEN [@ EXCEPT !.stage = "refused"]
           ELSE [@ EXCEPT !.stage = "pinned", !.ip = answer[1]]]
    /\ UNCHANGED <<blocklist, update, loaded>>

Pin(k) ==
    /\ conn[k].stage = "checked"
    /\ \E answer \in AnswersFor(conn[k].host) :
         conn' = [conn EXCEPT ![k] =
           IF answer = <<>> \/ IpBlocked(answer[1])
           THEN [@ EXCEPT !.stage = "refused"]
           ELSE [@ EXCEPT !.stage = "pinned", !.ip = answer[1]]]
    /\ UNCHANGED <<blocklist, update, loaded>>

\* tunnel and forward_http connect to the pinned address, or fail in time.
Connect(k) ==
    /\ conn[k].stage = "pinned"
    /\ \/ conn' = [conn EXCEPT ![k].stage = "open"]
       \/ conn' = [conn EXCEPT ![k] = Idle]
    /\ UNCHANGED <<blocklist, update, loaded>>

Done(k) ==
    /\ conn[k].stage \in {"open", "refused"}
    /\ conn' = [conn EXCEPT ![k] = Idle]
    /\ UNCHANGED <<blocklist, update, loaded>>

Proxy(k) == Pin(k) \/ Connect(k) \/ Done(k)

-----------------------------------------------------------------------------
(* The refresh thread: update_blocklist at start-up and every interval.    *)

StartUpdate ==
    /\ update = None
    /\ update' = [next |-> 1, domains |-> {}]
    /\ UNCHANGED <<blocklist, loaded, conn>>

\* One list was fetched within the limits and its lines are added.
FetchList ==
    /\ update # None /\ update.next <= Len(Listed)
    /\ \E more \in SUBSET Extras :
         update' = [next |-> update.next + 1,
                    domains |-> update.domains \cup ((Listed[update.next] \cup more) \ SkippedNames)]
    /\ UNCHANGED <<blocklist, loaded, conn>>

\* Defect: what was fetched before the failure replaces the list.
SwapOnFailure ==
    /\ update # None /\ update.next <= Len(Listed)
    /\ blocklist' = update.domains /\ loaded' = TRUE
    /\ update' = None
    /\ UNCHANGED conn

\* A fetch fails (status, size, time, encoding): `?` leaves the update.
UpdateFails ==
    /\ update # None /\ update.next <= Len(Listed)
    /\ update' = None
    /\ UNCHANGED <<blocklist, loaded, conn>>

Swap ==
    /\ update # None /\ update.next = Len(Listed) + 1
    /\ blocklist' = update.domains /\ loaded' = TRUE
    /\ update' = None
    /\ UNCHANGED conn

Refresh == StartUpdate \/ FetchList \/ UpdateFails \/ Swap

-----------------------------------------------------------------------------
(* Properties.                                                             *)

\* The addresses of a range: the aligned block of 2^(AddrBits - prefix)
\* addresses in which the network address lies.
Block(r) ==
    {x \in Bits : \E n \in Bits :
        \A y \in {x, r.net} : n * 2^(AddrBits - r.prefix) <= y
                           /\ y < (n + 1) * 2^(AddrBits - r.prefix)}

\* Where a connection ends up is allowed (proxy.rs:145-180, 206-237): never an
\* address of the host's own IPv6 networks or one whose IPv4 part lies in a
\* blocked range, although the name is resolved at a different time than
\* validate_url resolved it; a tunnel goes to the two web ports only.
OutboundAllowed ==
    \A k \in Slots : conn[k].stage = "open" =>
        /\ conn[k].host \notin LocalNames
        /\ conn[k].ip.form # "v6own"
        /\ conn[k].ip.form # "v6" =>
             \A r \in BlockedRanges : r.prefix <= AddrBits => conn[k].ip.bits \notin Block(r)
        /\ conn[k].tunnel => conn[k].port \in {80, 443}

\* Once a refresh has succeeded, a name that stays on the lists stays blocked,
\* whatever later refreshes fail half-way (blocklist.rs:63-103).
ListedStaysBlocked ==
    loaded => \A n \in DOMAIN Listed : Listed[n] \subseteq blocklist \cup LocalNames
=============================================================================
