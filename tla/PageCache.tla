------------------------------ MODULE PageCache ------------------------------
(***************************************************************************)
(* The page cache (client/src/cache.rs) under the browse handlers of       *)
(* client/src/proxy.rs.  Every method of Cache is atomic (one mutex around  *)
(* one SQLite connection, a transaction in insert), but a handler calls     *)
(* several of them with a radio round trip in between, beside other tabs,   *)
(* the cache page's delete and clear, and restarts of the client.  How long *)
(* a page may be kept is what the server's probe makes of the origin's      *)
(* headers (server/src/origin_cc.rs).                                       *)
(***************************************************************************)
EXTENDS Integers, FiniteSets, FiniteSetsExt, SequencesExt

CONSTANTS Tabs,       \* browse handlers that may run at once
          Urls,
          Etags,      \* versions of a page; the tag is a hash of the content
          None,       \* no entry, no If-None-Match
          SizeOf,     \* the compressed size of each version
          Headers,    \* what an origin may say of a page's life, see Lifetimes
          DefaultAge, \* default_max_age_seconds and
          MaxMaxAge,  \* max_max_age_seconds of the server
          Caps,       \* values of cache.max_bytes the operator may configure
          MaxTtl,     \* cache.max_ttl_seconds
          MaxTime,    \* bound on the clock
          DiskFaults, \* whether an SQL statement may fail
          ClockFaults \* whether the clock may be set back

\* Cache-Control, or None: its words and the two numbers, None when absent or
\* unreadable; Expires less Date, None when they do not give a duration.
Lifetimes ==
    [cc : {None} \cup [words : SUBSET {"no-store", "private", "no-cache"},
                       smaxage : Int \cup {None}, maxage : Int \cup {None}],
     expires : Nat \cup {None}]

ASSUME CacheAssumption ==
    /\ Headers \subseteq Lifetimes /\ DefaultAge \in Int /\ MaxMaxAge \in Nat
    /\ SizeOf \in [Etags -> Nat \ {0}]
    /\ Caps \subseteq Nat /\ Caps # {}
    /\ MaxTtl \in Nat /\ MaxTime \in Nat
    /\ DiskFaults \in BOOLEAN /\ ClockFaults \in BOOLEAN

VARIABLES db,       \* table entries: None or the row of each URL
          cap,      \* cap_bytes of this run of the client
          now,      \* the clock, in seconds
          tab,      \* what each browse handler is doing
          content,  \* the version of each page on the web
          heard,    \* history: when the server last vouched for a stored page and
                    \* the cache was told, and the headers it was stored with
          stuck     \* history: rows an SQL error kept from eviction in the step just taken

vars == <<db, cap, now, tab, content, heard, stuck>>

Row == [etag : Etags, fetched : Nat, used : Nat, size : Nat, age : 0..MaxTtl]

Modes == {"get", "reload", "post"}
Answer == [kind : {"ok", "notmodified"}, etag : Etags, origin : Headers]
NoAnswer == [kind |-> "none", etag |-> None, origin |-> None]

\* A handler: "hit" it has found a fresh row, "stale" it has not and will look
\* up the tag to send, "sent" it awaits the answer, "answered" it has one,
\* "touched" it has marked the row as confirmed and will read it.
Idle == [st |-> "idle", url |-> None, mode |-> "get", inm |-> None, ans |-> NoAnswer]

TypeOK ==
    /\ db \in [Urls -> Row \cup {None}]
    /\ cap \in Caps
    /\ now \in 0..MaxTime
    /\ tab \in [Tabs -> [st : {"idle", "hit", "stale", "sent", "answered", "touched"},
                         url : Urls \cup {None}, mode : Modes,
                         inm : Etags \cup {None}, ans : Answer \cup {NoAnswer}]]
    /\ content \in [Urls -> Etags]
    /\ heard \in [Urls -> [at : Nat, origin : Headers \cup {None}]]
    /\ stuck \subseteq Urls

\* The history of the pages that are stored.
Nothing == [at |-> 0, origin |-> None]
Heard(table, words) == [u \in Urls |-> IF table[u] = None THEN Nothing ELSE words[u]]

Init ==
    /\ db = [u \in Urls |-> None]
    /\ cap \in Caps
    /\ now = 0
    /\ tab = [t \in Tabs |-> Idle]
    /\ content \in [Urls -> Etags]
    /\ heard = [u \in Urls |-> Nothing]
    /\ stuck = {}

Stored == {u \in Urls : db[u] # None}
Total(table) ==
    MapThenSumSet(LAMBDA u : table[u].size, {u \in Urls : table[u] # None})

-----------------------------------------------------------------------------
(* parse_cache_control.                                                    *)

\* The max_age of the response; negative: not to be stored.
ParseCacheControl(hd) ==
    LET number == IF hd.cc.smaxage # None THEN hd.cc.smaxage ELSE hd.cc.maxage
    IN  IF hd.cc = None
        THEN IF hd.expires # None THEN Min({hd.expires, MaxMaxAge}) ELSE DefaultAge
        ELSE IF hd.cc.words \cap {"no-store", "private"} # {} THEN -1
        ELSE IF "no-cache" \in hd.cc.words THEN 0
        ELSE IF number # None THEN Max({0, Min({number, MaxMaxAge})}) ELSE DefaultAge

-----------------------------------------------------------------------------
(* Methods of Cache.                                                       *)

\* lookup: the row, or None; an SQL error reads as a miss.
Lookup(u) == {db[u]} \cup (IF DiskFaults THEN {None} ELSE {})

\* Hit::is_fresh; a row from the future is not fresh.
IsFresh(row) == now >= row.fetched /\ now - row.fetched < row.age

\* A statement whose result is ignored: it takes effect or it fails.
Execute(table) == db' = table \/ (DiskFaults /\ db' = db)

\* A defect: a served page counts as fetched now.
SlidingTouch(u) ==
    IF db[u] = None THEN db ELSE [db EXCEPT ![u].used = now, ![u].fetched = now]

\* touch_last_used and touch_fresh update the row that is there, if any.
TouchLastUsed(u) == IF db[u] = None THEN db ELSE [db EXCEPT ![u].used = now]

TouchFresh(u) ==
    IF db[u] = None THEN db ELSE [db EXCEPT ![u].fetched = now, ![u].used = now]

\* Defect: the page just stored is not counted.
EvictBeforeInsert(table, u, order, fails) ==
    FoldLeft(LAMBDA s, v :
               IF s.over <= 0 \/ v = u \/ v \in fails THEN s
               ELSE [over |-> s.over - table[v].size, gone |-> s.gone \cup {v}],
             [over |-> Total(table) - table[u].size - cap, gone |-> {}], order)

\* The eviction loop of insert over the rows in the order of last_used.
Evict(table, u, order, fails) ==
    FoldLeft(LAMBDA s, v :
               IF s.over <= 0 \/ v = u \/ v \in fails THEN s
               ELSE [over |-> s.over - table[v].size, gone |-> s.gone \cup {v}],
             [over |-> Total(table) - cap, gone |-> {}], order)

\* A defect: DESC for ASC.
MostRecentFirst(table) ==
    {s \in SetToSeqs({u \in Urls : table[u] # None}) :
        \A i, j \in DOMAIN s : i < j => table[s[i]].used >= table[s[j]].used}

\* The orders in which the query may return the rows: by last_used, ties in
\* any order.
LeastRecentFirst(table) ==
    {s \in SetToSeqs({u \in Urls : table[u] # None}) :
        \A i, j \in DOMAIN s : i < j => table[s[i]].used <= table[s[j]].used}

\* The victims query: a row that cannot be read empties the whole list, and a
\* total that cannot be read counts as 0, with the same effect: no victims.
Victims(table) == LeastRecentFirst(table) \cup (IF DiskFaults THEN {<<>>} ELSE {})

\* A defect: the operator's limit on the age is forgotten.
UncappedInsert(u, etag, age, origin) ==
    IF age < 0 THEN UNCHANGED <<db, heard>> /\ stuck' = {}
    ELSE /\ db' = [db EXCEPT ![u] = [etag |-> etag, fetched |-> now, used |-> now,
                                    size |-> SizeOf[etag], age |-> age]]
         /\ heard' = [heard EXCEPT ![u] = [at |-> now, origin |-> origin]]
         /\ stuck' = {}

\* insert: nothing for a negative max_age; else upsert and evict in one
\* transaction, which a failing upsert or commit leaves without effect.  The
\* origin's headers are for the history.
Insert(u, etag, age, origin) ==
    \/ age < 0 /\ UNCHANGED <<db, heard>> /\ stuck' = {}
    \/ DiskFaults /\ age >= 0 /\ UNCHANGED <<db, heard>> /\ stuck' = {}
    \/ /\ age >= 0
       /\ LET row   == [etag |-> etag, fetched |-> now, used |-> now,
                        size |-> SizeOf[etag], age |-> Min({age, MaxTtl})]
              table == [db EXCEPT ![u] = row]
          IN  \E order \in Victims(table),
                 fails \in IF DiskFaults THEN SUBSET Stored ELSE {{}} :
                 LET gone == Evict(table, u, order, fails).gone
                 IN  /\ db' = [v \in Urls |-> IF v \in gone THEN None ELSE table[v]]
                     /\ stuck' = IF order = <<>> THEN Urls ELSE fails
       /\ heard' = Heard(db', [heard EXCEPT ![u] = [at |-> now, origin |-> origin]])

-----------------------------------------------------------------------------
(* Browse handlers.                                                        *)

Become(t, s) == tab' = [tab EXCEPT ![t] = s]

\* handle_browse up to the radio: a POST and a reload ask no one.
Browse(t, u, mode) ==
    /\ tab[t].st = "idle"
    /\ UNCHANGED <<db, cap, now, content, heard>> /\ stuck' = {}
    /\ \/ /\ mode \in {"post", "reload"}
          /\ Become(t, [Idle EXCEPT !.st = "sent", !.url = u, !.mode = mode])
       \/ /\ mode = "get"
          /\ \E row \in Lookup(u) :
               Become(t, [Idle EXCEPT !.url = u,
                            !.st = IF row # None /\ IsFresh(row) THEN "hit" ELSE "stale"])

\* A fresh hit: touch_last_used, then the page (or a 304 to the browser).
ServeHit(t) ==
    /\ tab[t].st = "hit"
    /\ Execute(TouchLastUsed(tab[t].url))
    /\ Become(t, Idle)
    /\ UNCHANGED <<cap, now, content, heard>> /\ stuck' = {}

\* The second lookup, for the tag to send.
SendConditional(t) ==
    /\ tab[t].st = "stale"
    /\ \E row \in Lookup(tab[t].url) :
         Become(t, [tab[t] EXCEPT !.st = "sent", !.inm = IF row = None THEN None ELSE row.etag])
    /\ UNCHANGED <<db, cap, now, content, heard>> /\ stuck' = {}

\* handle_request: the page as it is now, or NotModified when the tag is that of
\* the page as it is now, with what the probe has found (no headers at all when
\* it has failed); a POST is always rejected (RequestFails).
ServerAnswers(t, hd) ==
    /\ tab[t].st = "sent" /\ tab[t].mode # "post"
    /\ LET etag == content[tab[t].url] IN
         Become(t, [tab[t] EXCEPT !.st = "answered",
                      !.ans = [kind |-> IF tab[t].inm = etag THEN "notmodified" ELSE "ok",
                               etag |-> etag, origin |-> hd]])
    /\ UNCHANGED <<db, cap, now, content, heard>> /\ stuck' = {}

\* No page: an Err or Blocked answer, a lost session, an answer that does not
\* decode, a browser that went away.  The cache is left alone.
RequestFails(t) ==
    /\ tab[t].st = "sent"
    /\ Become(t, Idle)
    /\ UNCHANGED <<db, cap, now, content, heard>> /\ stuck' = {}

\* Status::Ok: the page is stored, then shown.
StoreAnswer(t) ==
    /\ tab[t].st = "answered" /\ tab[t].ans.kind = "ok"
    /\ LET ans == tab[t].ans
       IN  Insert(tab[t].url, ans.etag, ParseCacheControl(ans.origin), ans.origin)
    /\ Become(t, Idle)
    /\ UNCHANGED <<cap, now, content>>

\* Status::NotModified for the tag that was sent: touch_fresh.  Any other one
\* is an error page.
Confirm(t) ==
    /\ tab[t].st = "answered" /\ tab[t].ans.kind = "notmodified"
    /\ IF tab[t].inm = tab[t].ans.etag
         THEN /\ \/ /\ db' = TouchFresh(tab[t].url)
                    /\ heard' = Heard(db', [heard EXCEPT ![tab[t].url].at = now])
                 \/ DiskFaults /\ UNCHANGED <<db, heard>>
              /\ Become(t, [tab[t] EXCEPT !.st = "touched"])
         ELSE Become(t, Idle) /\ UNCHANGED <<db, heard>>
    /\ UNCHANGED <<cap, now, content>> /\ stuck' = {}

\* The page is read back and shown, or an error page if it is gone.
ServeConfirmed(t) ==
    /\ tab[t].st = "touched"
    /\ Become(t, Idle)
    /\ UNCHANGED <<db, cap, now, content, heard>> /\ stuck' = {}

-----------------------------------------------------------------------------
(* The cache page, the operator and the world.                             *)

Delete(u) ==
    /\ db[u] # None
    /\ db' = [db EXCEPT ![u] = None]
    /\ heard' = Heard(db', heard)
    /\ UNCHANGED <<cap, now, tab, content>> /\ stuck' = {}

Clear ==
    /\ Stored # {}
    /\ db' = [u \in Urls |-> None]
    /\ heard' = Heard(db', heard)
    /\ UNCHANGED <<cap, now, tab, content>> /\ stuck' = {}

\* Cache::open keeps the table; the cap may be another one.
Restart(newCap) ==
    /\ cap' = newCap
    /\ tab' = [t \in Tabs |-> Idle]
    /\ UNCHANGED <<db, now, content, heard>> /\ stuck' = {}

Publish(u, etag) ==
    /\ content[u] # etag
    /\ content' = [content EXCEPT ![u] = etag]
    /\ UNCHANGED <<db, cap, now, tab, heard>> /\ stuck' = {}

Tick ==
    /\ now < MaxTime
    /\ now' = now + 1
    /\ UNCHANGED <<db, cap, tab, content, heard>> /\ stuck' = {}

\* The system clock is set back.
SetClock(time) ==
    /\ ClockFaults /\ time < now
    /\ now' = time
    /\ UNCHANGED <<db, cap, tab, content, heard>> /\ stuck' = {}

Next ==
    \/ \E t \in Tabs :
         \/ \E u \in Urls, mode \in Modes : Browse(t, u, mode)
         \/ \E hd \in Headers : ServerAnswers(t, hd)
         \/ ServeHit(t) \/ SendConditional(t) \/ RequestFails(t)
         \/ StoreAnswer(t) \/ Confirm(t) \/ ServeConfirmed(t)
    \/ \E u \in Urls : Delete(u) \/ \E etag \in Etags : Publish(u, etag)
    \/ Clear \/ Tick \/ \E time \in 0..MaxTime : SetClock(time)
    \/ \E newCap \in Caps : Restart(newCap)

Spec == Init /\ [][Next]_vars

-----------------------------------------------------------------------------
(* Properties.                                                             *)

\* The steps in which an answer changes the table; a restart leaves it alone.
Inserts(t) == tab[t].ans.kind = "ok" /\ tab'[t] = Idle /\ db' # db

\* After an insert the store is within the configured limit, whatever was
\* stored under an earlier, larger limit; it exceeds it only by the page just
\* stored and by rows an SQL error kept: those whose own DELETE failed, or all of
\* them when the total or the list of victims could not be read (cache.rs:135-161).
InsertRestoresCap ==
    [][\A t \in Tabs : Inserts(t) =>
         \/ Total(db') <= cap
         \/ \A v \in Urls : db'[v] # None => v = tab[t].url \/ v \in stuck']_vars

\* What an insert evicts was used no later than anything it keeps (but the page
\* just stored and rows an SQL error kept), and it evicts no more than the
\* limit demands: without its last victim the store would be over it.
EvictsLeastRecent ==
    [][\A t \in Tabs : Inserts(t) =>
         LET gone == {v \in Urls : db[v] # None /\ db'[v] = None}
             kept == {v \in Urls : db[v] # None /\ db'[v] # None} \ ({tab[t].url} \cup stuck')
         IN  /\ \A v \in gone, w \in kept : db[v].used <= db[w].used
             /\ gone # {} => \E v \in gone : Total(db') + db[v].size > cap]_vars

\* What the origin permits at an age of the page, each header on its own.
Permits(hd, age) ==
    /\ hd.cc # None =>
         /\ hd.cc.words = {}
         /\ hd.cc.smaxage # None => age < hd.cc.smaxage
         /\ hd.cc.smaxage = None /\ hd.cc.maxage # None => age < hd.cc.maxage
         /\ hd.cc.smaxage = None /\ hd.cc.maxage = None => age < DefaultAge
    /\ hd.cc = None =>
         /\ hd.expires # None => age < hd.expires
         /\ hd.expires = None => age < DefaultAge

\* A page is shown without asking the server only while the server's last word
\* on it -- the answer it was stored from, or a later NotModified -- is of an
\* age that the origin's headers and the limits of both operators permit;
\* reading it (touch_last_used) does not prolong its life, nor does a restart,
\* and neither a page marked private nor, once the clock was set back, a page
\* stored in its future is shown so (origin_cc.rs:24-68, proxy.rs:379-396,
\* 453-463, cache.rs:29-35, 97-100).
FreshMeansConfirmed ==
    [][\A t \in Tabs : tab[t].st # "hit" /\ tab'[t].st = "hit" =>
         LET word == heard[tab'[t].url]
             age  == now - word.at
         IN  word.origin \in Headers /\ Permits(word.origin, age) /\ age \in 0..(MaxTtl - 1)]_vars
=============================================================================
