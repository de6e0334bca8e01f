-------------------------- MODULE PageCacheProofs --------------------------
(***************************************************************************)
(* The page cache, for any number of tabs, pages and versions, any headers *)
(* and limits, with failing statements and a clock that is set back.  What *)
(* the eviction loop computes is a fold and stays with TLC: the proofs use *)
(* only that it removes rows.                                              *)
(***************************************************************************)
EXTENDS PageCache, TLAPS

LEMMA Limits == DefaultAge \in Int /\ MaxMaxAge \in Nat /\ MaxTtl \in Nat /\ MaxTime \in Nat
  BY CacheAssumption

LEMMA MinOfTwo ==
  ASSUME NEW a \in Int, NEW b \in Int
  PROVE  Min({a, b}) \in {a, b} /\ Min({a, b}) <= a /\ Min({a, b}) <= b
  BY DEF Min

LEMMA MaxOfTwo ==
  ASSUME NEW a \in Int, NEW b \in Int
  PROVE  Max({a, b}) \in {a, b} /\ Max({a, b}) >= a /\ Max({a, b}) >= b
  BY DEF Max

-----------------------------------------------------------------------------
(* parse_cache_control.                                                    *)

Directives == [words : SUBSET {"no-store", "private", "no-cache"},
               smaxage : Int \cup {None}, maxage : Int \cup {None}]

LEMMA HeaderType ==
  ASSUME NEW hd \in Headers
  PROVE  /\ hd.cc # None => hd.cc \in Directives
         /\ hd.expires # None => hd.expires \in Nat
<1>1. hd \in Lifetimes
  BY CacheAssumption
<1>2. QED
  BY <1>1 DEF Lifetimes, Directives

\* The number of s-maxage, and without it the one of max-age.
Number(cc) == IF cc.smaxage # None THEN cc.smaxage ELSE cc.maxage

\* The branches of parse_cache_control, one by one.
LEMMA ParseCases ==
  ASSUME NEW hd \in Headers
  PROVE  /\ hd.cc = None /\ hd.expires # None =>
              ParseCacheControl(hd) = Min({hd.expires, MaxMaxAge})
         /\ hd.cc = None /\ hd.expires = None => ParseCacheControl(hd) = DefaultAge
         /\ hd.cc # None =>
              /\ hd.cc.words \cap {"no-store", "private"} # {} => ParseCacheControl(hd) = -1
              /\ hd.cc.words \cap {"no-store", "private"} = {} =>
                   /\ "no-cache" \in hd.cc.words => ParseCacheControl(hd) = 0
                   /\ "no-cache" \notin hd.cc.words /\ Number(hd.cc) # None =>
                        ParseCacheControl(hd) = Max({0, Min({Number(hd.cc), MaxMaxAge})})
                   /\ "no-cache" \notin hd.cc.words /\ Number(hd.cc) = None =>
                        ParseCacheControl(hd) = DefaultAge
  BY DEF ParseCacheControl, Number

LEMMA NumberType ==
  ASSUME NEW cc \in Directives, Number(cc) # None
  PROVE  Number(cc) \in Int
  BY DEF Directives, Number

\* An age that the server reads out of a number.
LEMMA CappedAge ==
  ASSUME NEW n \in Int
  PROVE  /\ Min({n, MaxMaxAge}) \in Int /\ Min({n, MaxMaxAge}) <= n
         /\ Max({0, Min({n, MaxMaxAge})}) \in Int
         /\ \A age \in Nat : age < Max({0, Min({n, MaxMaxAge})}) => age < n
<1> DEFINE m == Min({n, MaxMaxAge})
<1>1. m \in Int /\ m <= n
  BY Limits, MinOfTwo
<1> HIDE DEF m
<1>2. Max({0, m}) \in {0, m}
  BY <1>1, MaxOfTwo
<1>3. QED
  BY <1>1, <1>2 DEF m

LEMMA ParseType ==
  ASSUME NEW hd \in Headers
  PROVE  ParseCacheControl(hd) \in Int
<1>1. CASE hd.cc = None
  <2>1. hd.expires # None => Min({hd.expires, MaxMaxAge}) \in Int
    <3> HAVE hd.expires # None
    <3>1. PICK n \in Int : n = hd.expires
      BY HeaderType
    <3>2. Min({n, MaxMaxAge}) \in Int
      BY Limits, MinOfTwo
    <3>3. QED
      BY <3>1, <3>2
  <2>2. QED
    BY <1>1, <2>1, ParseCases, Limits
<1>2. CASE hd.cc # None
  <2>1. Number(hd.cc) # None => Max({0, Min({Number(hd.cc), MaxMaxAge})}) \in Int
    BY <1>2, HeaderType, NumberType, CappedAge
  <2>2. QED
    <3>1. hd.cc.words \cap {"no-store", "private"} # {} => ParseCacheControl(hd) = -1
      BY <1>2, ParseCases
    <3>2. hd.cc.words \cap {"no-store", "private"} = {} /\ "no-cache" \in hd.cc.words
            => ParseCacheControl(hd) = 0
      BY <1>2, ParseCases
    <3>3. CASE hd.cc.words \cap {"no-store", "private"} = {} /\ "no-cache" \notin hd.cc.words
      BY <1>2, <2>1, <3>3, ParseCases, Limits
    <3>4. QED
      BY <3>1, <3>2, <3>3
<1>3. QED
  BY <1>1, <1>2

\* As long as a page is younger than the max_age that the server derived, every
\* header of the origin permits to show it.
LEMMA ParsePermits ==
  ASSUME NEW hd \in Headers, NEW age \in Nat, age < ParseCacheControl(hd)
  PROVE  Permits(hd, age)
<1>1. CASE hd.cc = None
  <2>1. hd.expires # None => age < hd.expires
    <3> HAVE hd.expires # None
    <3>1. PICK n \in Int : n = hd.expires
      BY HeaderType
    <3>2. age < Min({hd.expires, MaxMaxAge})
      BY <1>1, ParseCases
    <3>3. Min({n, MaxMaxAge}) \in Int /\ Min({n, MaxMaxAge}) <= n
      BY Limits, MinOfTwo
    <3>4. QED
      BY <3>1, <3>2, <3>3
  <2>2. hd.expires = None => age < DefaultAge
    BY <1>1, ParseCases
  <2>3. QED
    BY <1>1, <2>1, <2>2 DEF Permits
<1>2. CASE hd.cc # None
  <2>1. hd.cc \in Directives
    BY <1>2, HeaderType
  <2>2. hd.cc.words \cap {"no-store", "private"} = {}
    <3> SUFFICES ASSUME hd.cc.words \cap {"no-store", "private"} # {} PROVE FALSE
      OBVIOUS
    <3>1. ParseCacheControl(hd) = -1
      BY <1>2, ParseCases
    <3>2. QED
      BY <3>1
  <2>3. "no-cache" \notin hd.cc.words
    <3> SUFFICES ASSUME "no-cache" \in hd.cc.words PROVE FALSE
      OBVIOUS
    <3>1. ParseCacheControl(hd) = 0
      BY <1>2, <2>2, ParseCases
    <3>2. QED
      BY <3>1
  <2>4. hd.cc.words = {}
    BY <2>1, <2>2, <2>3 DEF Directives
  <2>5. Number(hd.cc) # None => age < Number(hd.cc)
    <3> HAVE Number(hd.cc) # None
    <3>1. Number(hd.cc) \in Int
      BY <2>1, NumberType
    <3>2. age < Max({0, Min({Number(hd.cc), MaxMaxAge})})
      BY <1>2, <2>2, <2>3, ParseCases
    <3>3. QED
      BY <3>1, <3>2, CappedAge
  <2>6. Number(hd.cc) = None => age < DefaultAge
    BY <1>2, <2>2, <2>3, ParseCases
  <2>7. QED
    BY <1>2, <2>4, <2>5, <2>6 DEF Permits, Number
<1>3. QED
  BY <1>1, <1>2

-----------------------------------------------------------------------------
(* The inductive invariant: a row's times are those of the server's last   *)
(* word on it, and its life is what the headers and both limits leave.     *)

Life(origin) == Min({ParseCacheControl(origin), MaxTtl})

RowOK(row, word) ==
    row # None =>
        /\ word.origin \in Headers /\ ParseCacheControl(word.origin) >= 0
        /\ row.fetched = word.at
        /\ row.age = Life(word.origin)

RowsOK == \A u \in Urls : RowOK(db[u], heard[u])

\* A handler that is busy is busy with a page.
BusyOK == \A t \in Tabs : tab[t].st # "idle" => tab[t].url \in Urls

CacheInv == TypeOK /\ RowsOK /\ BusyOK

TableType == [Urls -> Row \cup {None}]
WordType  == [at : Nat, origin : Headers \cup {None}]
TabType   == [st : {"idle", "hit", "stale", "sent", "answered", "touched"},
              url : Urls \cup {None}, mode : Modes,
              inm : Etags \cup {None}, ans : Answer \cup {NoAnswer}]

LEMMA LifeType ==
  ASSUME NEW origin \in Headers, ParseCacheControl(origin) >= 0
  PROVE  /\ Life(origin) \in 0 .. MaxTtl
         /\ Life(origin) <= ParseCacheControl(origin)
<1>1. PICK n \in Int : n = ParseCacheControl(origin)
  BY ParseType
<1>2. Min({n, MaxTtl}) \in {n, MaxTtl} /\ Min({n, MaxTtl}) <= n /\ Min({n, MaxTtl}) <= MaxTtl
  BY Limits, MinOfTwo
<1>3. n >= 0 /\ Life(origin) = Min({n, MaxTtl})
  BY <1>1 DEF Life
<1>4. QED
  BY <1>1, <1>2, <1>3, Limits

LEMMA InitOK == Init => CacheInv
<1> SUFFICES ASSUME Init PROVE CacheInv
  OBVIOUS
<1>1. now \in 0 .. MaxTime /\ cap \in Caps /\ stuck \subseteq Urls
  BY Limits DEF Init
<1>2. Idle \in TabType
  BY DEF Idle, TabType, Modes
<1>3. heard \in [Urls -> WordType]
  BY DEF Init, Nothing, WordType
<1>4. BusyOK
  BY DEF Init, BusyOK, Idle
<1>5. QED
  BY <1>1, <1>2, <1>3, <1>4 DEF Init, CacheInv, TypeOK, RowsOK, RowOK, TabType, WordType

\* A table that keeps its type keeps the history in step.
LEMMA HeardType ==
  ASSUME NEW table \in TableType, NEW words \in [Urls -> WordType]
  PROVE  /\ Heard(table, words) \in [Urls -> WordType]
         /\ \A u \in Urls : table[u] # None => Heard(table, words)[u] = words[u]
  BY DEF Heard, Nothing, WordType

\* What an insert leaves: a table of the same type, less what was evicted, in
\* which the new row has the life of its headers.
LEMMA InsertOK ==
  ASSUME CacheInv, NEW u, NEW etag \in Etags, NEW origin \in Headers,
         Insert(u, etag, ParseCacheControl(origin), origin)
  PROVE  /\ db' \in TableType /\ heard' \in [Urls -> WordType] /\ stuck' \subseteq Urls
         /\ RowsOK'
<1> DEFINE age == ParseCacheControl(origin)
           row == [etag |-> etag, fetched |-> now, used |-> now,
                   size |-> SizeOf[etag], age |-> Life(origin)]
           table == [db EXCEPT ![u] = row]
           words == [heard EXCEPT ![u] = [at |-> now, origin |-> origin]]
<1>1. db \in TableType /\ heard \in [Urls -> WordType] /\ now \in Nat
  BY Limits DEF CacheInv, TypeOK, TableType, WordType
<1>2. CASE UNCHANGED <<db, heard>> /\ stuck' = {}
  BY <1>1, <1>2 DEF CacheInv, RowsOK
<1>3. CASE /\ age >= 0
           /\ \E order \in Victims(table),
                 fails \in IF DiskFaults THEN SUBSET Stored ELSE {{}} :
                 LET gone == Evict(table, u, order, fails).gone
                 IN  /\ db' = [v \in Urls |-> IF v \in gone THEN None ELSE table[v]]
                     /\ stuck' = IF order = <<>> THEN Urls ELSE fails
           /\ heard' = Heard(db', words)
  <2>1. row \in Row
    <3>1. SizeOf[etag] \in Nat
      BY CacheAssumption
    <3>2. Life(origin) \in 0 .. MaxTtl
      BY <1>3, LifeType
    <3>3. QED
      BY <1>1, <3>1, <3>2 DEF Row
  <2> HIDE DEF row
  <2>2. table \in TableType /\ \A v \in Urls : table[v] = IF v = u THEN row ELSE db[v]
    BY <1>1, <2>1 DEF TableType
  <2>3. words \in [Urls -> WordType]
        /\ \A v \in Urls : words[v] = IF v = u THEN [at |-> now, origin |-> origin] ELSE heard[v]
    BY <1>1 DEF WordType
  <2> HIDE DEF table, words
  <2>4. PICK gone : db' = [v \in Urls |-> IF v \in gone THEN None ELSE table[v]]
    BY <1>3
  <2>5. stuck' \subseteq Urls
    BY <1>3 DEF Stored
  <2>6. db' \in TableType
    BY <2>2, <2>4 DEF TableType
  <2>7. /\ heard' \in [Urls -> WordType]
        /\ \A v \in Urls : db'[v] # None => heard'[v] = words[v]
    BY <1>3, <2>3, <2>6, HeardType
  <2>8. ASSUME NEW v \in Urls PROVE RowOK(db'[v], heard'[v])
    <3> SUFFICES ASSUME db'[v] # None PROVE RowOK(db'[v], heard'[v])
      BY DEF RowOK
    <3>1. db'[v] = table[v] /\ heard'[v] = words[v]
      BY <2>4, <2>7
    <3>2. CASE v = u
      BY <1>3, <2>2, <2>3, <3>1, <3>2 DEF RowOK, row
    <3>3. CASE v # u
      BY <2>2, <2>3, <3>1, <3>3 DEF RowOK, CacheInv, RowsOK
    <3>4. QED
      BY <3>2, <3>3
  <2>9. QED
    BY <2>5, <2>6, <2>7, <2>8 DEF RowsOK
<1>4. QED
  BY <1>2, <1>3 DEF Insert, Life

\* A change of a row's last_used keeps it in step with the history.
LEMMA UsedOK ==
  ASSUME CacheInv, NEW u, db' = TouchLastUsed(u), UNCHANGED heard
  PROVE  db' \in TableType /\ RowsOK'
<1>1. db \in TableType /\ now \in Nat
  BY Limits DEF CacheInv, TypeOK, TableType
<1>2. CASE db[u] = None \/ u \notin Urls
  BY <1>1, <1>2 DEF TouchLastUsed, TableType, CacheInv, RowsOK
<1>3. CASE db[u] # None /\ u \in Urls
  <2>1. db[u] \in Row
    BY <1>1, <1>3 DEF TableType
  <2> DEFINE row == [db[u] EXCEPT !.used = now]
  <2>2. row \in Row /\ row.fetched = db[u].fetched /\ row.age = db[u].age
    BY <1>1, <2>1 DEF Row
  <2>3. db' = [db EXCEPT ![u] = row]
    BY <1>3 DEF TouchLastUsed
  <2> HIDE DEF row
  <2>4. QED
    BY <1>1, <1>3, <2>2, <2>3 DEF TableType, CacheInv, RowsOK, RowOK
<1>4. QED
  BY <1>2, <1>3

\* A confirmation moves the row and the history to the same time.
LEMMA ConfirmedOK ==
  ASSUME CacheInv, NEW u, db' = TouchFresh(u),
         heard' = Heard(db', [heard EXCEPT ![u].at = now])
  PROVE  db' \in TableType /\ heard' \in [Urls -> WordType] /\ RowsOK'
<1> DEFINE words == [heard EXCEPT ![u].at = now]
<1>1. db \in TableType /\ heard \in [Urls -> WordType] /\ now \in Nat
  BY Limits DEF CacheInv, TypeOK, TableType, WordType
<1>2. /\ words \in [Urls -> WordType]
      /\ \A v \in Urls : /\ words[v].origin = heard[v].origin
                         /\ words[v].at = IF v = u THEN now ELSE heard[v].at
  BY <1>1 DEF WordType
<1> HIDE DEF words
<1>3. db' \in TableType
      /\ \A v \in Urls : db'[v] # None =>
           /\ db[v] # None /\ db'[v].age = db[v].age
           /\ db'[v].fetched = IF v = u THEN now ELSE db[v].fetched
  <2>1. CASE db[u] = None \/ u \notin Urls
    BY <1>1, <2>1 DEF TouchFresh, TableType
  <2>2. CASE db[u] # None /\ u \in Urls
    <3>1. db[u] \in Row
      BY <1>1, <2>2 DEF TableType
    <3> DEFINE row == [db[u] EXCEPT !.fetched = now, !.used = now]
    <3>2. row \in Row /\ row.fetched = now /\ row.age = db[u].age
      BY <1>1, <3>1 DEF Row
    <3>3. db' = [db EXCEPT ![u] = row]
      BY <2>2 DEF TouchFresh
    <3> HIDE DEF row
    <3>4. QED
      BY <1>1, <2>2, <3>2, <3>3 DEF TableType
  <2>3. QED
    BY <2>1, <2>2
<1>4. /\ heard' \in [Urls -> WordType]
      /\ \A v \in Urls : db'[v] # None => heard'[v] = words[v]
  BY <1>2, <1>3, HeardType DEF words
<1>5. ASSUME NEW v \in Urls, db'[v] # None PROVE RowOK(db'[v], heard'[v])
  <2>1. RowOK(db[v], heard[v]) /\ db[v] # None /\ heard'[v] = words[v]
    BY <1>3, <1>4, <1>5 DEF CacheInv, RowsOK
  <2>2. QED
    BY <1>2, <1>3, <1>5, <2>1 DEF RowOK
<1>6. QED
  BY <1>3, <1>4, <1>5 DEF RowsOK, RowOK

\* Rows are only taken away.
LEMMA RemovedOK ==
  ASSUME CacheInv, db' \in TableType, heard' = Heard(db', heard),
         \A u \in Urls : db'[u] \in {db[u], None}
  PROVE  heard' \in [Urls -> WordType] /\ RowsOK'
<1>1. heard \in [Urls -> WordType]
  BY DEF CacheInv, TypeOK, WordType
<1>2. /\ heard' \in [Urls -> WordType]
      /\ \A u \in Urls : db'[u] # None => heard'[u] = heard[u]
  BY <1>1, HeardType
<1>3. QED
  BY <1>2 DEF CacheInv, RowsOK, RowOK

\* A handler takes up a state of its type.
LEMMA TabOK ==
  ASSUME CacheInv, NEW t, NEW s \in TabType, s.st # "idle" => s.url \in Urls, Become(t, s)
  PROVE  tab' \in [Tabs -> TabType] /\ BusyOK'
<1>1. tab \in [Tabs -> TabType]
  BY DEF CacheInv, TypeOK, TabType
<1>2. QED
  BY <1>1 DEF CacheInv, BusyOK, Become

LEMMA IdleType == Idle \in TabType /\ Idle.st = "idle"
  BY DEF Idle, TabType, Modes

\* The types of a state, by its parts.
LEMMA TypeParts ==
  ASSUME CacheInv
  PROVE  /\ db \in TableType /\ cap \in Caps /\ now \in 0 .. MaxTime
         /\ tab \in [Tabs -> TabType] /\ content \in [Urls -> Etags]
         /\ heard \in [Urls -> WordType] /\ stuck \subseteq Urls
  BY DEF CacheInv, TypeOK, TableType, TabType, WordType

LEMMA Parts ==
  ASSUME db' \in TableType, heard' \in [Urls -> WordType], RowsOK',
         tab' \in [Tabs -> TabType], BusyOK',
         cap' \in Caps, now' \in 0 .. MaxTime, content' \in [Urls -> Etags],
         stuck' \subseteq Urls
  PROVE  CacheInv'
  BY DEF CacheInv, TypeOK, TableType, TabType, WordType

\* A step that leaves the table alone needs a look at the handlers only.
LEMMA TableKept ==
  ASSUME CacheInv, UNCHANGED <<db, heard>>, stuck' = {},
         tab' \in [Tabs -> TabType], BusyOK',
         cap' \in Caps, now' \in 0 .. MaxTime, content' \in [Urls -> Etags]
  PROVE  CacheInv'
<1>1. RowsOK'
  BY DEF CacheInv, RowsOK
<1>2. QED
  BY <1>1, TypeParts, Parts

LEMMA TabsKept ==
  ASSUME CacheInv, UNCHANGED tab
  PROVE  tab' \in [Tabs -> TabType] /\ BusyOK'
  BY TypeParts DEF CacheInv, BusyOK

-----------------------------------------------------------------------------
(* One lemma for the handlers, one for the rest, by action.                *)

LEMMA HandlerOK ==
  ASSUME CacheInv, NEW t \in Tabs,
         \/ \E u \in Urls, mode \in Modes : Browse(t, u, mode)
         \/ \E hd \in Headers : ServerAnswers(t, hd)
         \/ ServeHit(t) \/ SendConditional(t) \/ RequestFails(t)
         \/ StoreAnswer(t) \/ Confirm(t) \/ ServeConfirmed(t)
  PROVE  CacheInv'
<1>0. /\ db \in TableType /\ cap \in Caps /\ now \in 0 .. MaxTime
      /\ tab \in [Tabs -> TabType] /\ content \in [Urls -> Etags]
      /\ heard \in [Urls -> WordType] /\ stuck \subseteq Urls
  BY TypeParts
<1>t. tab[t] \in TabType /\ (tab[t].st # "idle" => tab[t].url \in Urls)
  BY <1>0 DEF CacheInv, BusyOK
<1>i. Become(t, Idle) => tab' \in [Tabs -> TabType] /\ BusyOK'
  BY IdleType, TabOK
<1>1. ASSUME NEW u \in Urls, NEW mode \in Modes, Browse(t, u, mode)
      PROVE  CacheInv'
  <2>2. tab' \in [Tabs -> TabType] /\ BusyOK'
    <3>1. CASE Become(t, [Idle EXCEPT !.st = "sent", !.url = u, !.mode = mode])
      <4> DEFINE s == [Idle EXCEPT !.st = "sent", !.url = u, !.mode = mode]
      <4>1. s \in TabType /\ s.url \in Urls
        BY DEF Idle, TabType, Modes
      <4> HIDE DEF s
      <4>2. QED
        BY <3>1, <4>1, TabOK DEF s
    <3>2. ASSUME NEW st \in {"hit", "stale"}, Become(t, [Idle EXCEPT !.url = u, !.st = st])
          PROVE  tab' \in [Tabs -> TabType] /\ BusyOK'
      <4> DEFINE s == [Idle EXCEPT !.url = u, !.st = st]
      <4>1. s \in TabType /\ s.url \in Urls
        BY DEF Idle, TabType, Modes
      <4> HIDE DEF s
      <4>2. QED
        BY <3>2, <4>1, TabOK DEF s
    <3>3. QED
      BY <1>1, <3>1, <3>2 DEF Browse
  <2>3. QED
    BY <1>0, <1>1, <2>2, TableKept DEF Browse
<1>2. ASSUME NEW hd \in Headers, ServerAnswers(t, hd)
      PROVE  CacheInv'
  <2> DEFINE etag == content[tab[t].url]
             ans == [kind |-> IF tab[t].inm = etag THEN "notmodified" ELSE "ok",
                     etag |-> etag, origin |-> hd]
             s == [tab[t] EXCEPT !.st = "answered", !.ans = ans]
  <2>1. etag \in Etags
    BY <1>0, <1>2, <1>t DEF ServerAnswers
  <2>2. ans \in Answer
    BY <2>1 DEF Answer
  <2> HIDE DEF ans
  <2>3. s \in TabType /\ s.url = tab[t].url
    BY <1>t, <2>2 DEF TabType
  <2> HIDE DEF s
  <2>4. tab' \in [Tabs -> TabType] /\ BusyOK'
    BY <1>2, <1>t, <2>3, TabOK DEF ServerAnswers, s, ans
  <2>5. QED
    BY <1>0, <1>2, <2>4, TableKept DEF ServerAnswers
<1>3. ASSUME ServeHit(t) PROVE CacheInv'
  <2>1. tab' \in [Tabs -> TabType] /\ BusyOK'
    BY <1>3, <1>i DEF ServeHit
  <2>2. CASE db' = db
    BY <1>0, <1>3, <2>1, <2>2, TableKept DEF ServeHit
  <2>3. CASE db' = TouchLastUsed(tab[t].url)
    BY <1>0, <1>3, <2>1, <2>3, UsedOK, Parts DEF ServeHit
  <2>4. QED
    BY <1>3, <2>2, <2>3 DEF ServeHit, Execute
<1>4. ASSUME SendConditional(t) PROVE CacheInv'
  <2>1. PICK row \in Lookup(tab[t].url) :
          Become(t, [tab[t] EXCEPT !.st = "sent", !.inm = IF row = None THEN None ELSE row.etag])
    BY <1>4 DEF SendConditional
  <2> DEFINE s == [tab[t] EXCEPT !.st = "sent", !.inm = IF row = None THEN None ELSE row.etag]
  <2>2. row \in Row \cup {None}
    BY <1>0, <1>4, <1>t, <2>1 DEF Lookup, TableType, SendConditional
  <2>3. s \in TabType /\ s.url = tab[t].url
    BY <1>t, <2>2 DEF TabType, Row
  <2> HIDE DEF s
  <2>4. tab' \in [Tabs -> TabType] /\ BusyOK'
    BY <1>4, <1>t, <2>1, <2>3, TabOK DEF SendConditional, s
  <2>5. QED
    BY <1>0, <1>4, <2>4, TableKept DEF SendConditional
<1>5. ASSUME RequestFails(t) PROVE CacheInv'
  BY <1>0, <1>5, <1>i, TableKept DEF RequestFails
<1>6. ASSUME StoreAnswer(t) PROVE CacheInv'
  <2>1. tab[t].ans \in Answer
    BY <1>6, <1>t DEF StoreAnswer, TabType, NoAnswer
  <2>2. tab[t].ans.etag \in Etags /\ tab[t].ans.origin \in Headers
    BY <2>1 DEF Answer
  <2>3. /\ db' \in TableType /\ heard' \in [Urls -> WordType] /\ stuck' \subseteq Urls
        /\ RowsOK'
    BY <1>6, <2>2, InsertOK DEF StoreAnswer
  <2>4. tab' \in [Tabs -> TabType] /\ BusyOK'
    BY <1>6, <1>i DEF StoreAnswer
  <2>5. QED
    BY <1>0, <1>6, <2>3, <2>4, Parts DEF StoreAnswer
<1>7. ASSUME Confirm(t) PROVE CacheInv'
  <2> DEFINE s == [tab[t] EXCEPT !.st = "touched"]
  <2>1. s \in TabType /\ s.url = tab[t].url
    BY <1>t DEF TabType
  <2> HIDE DEF s
  <2>2. tab' \in [Tabs -> TabType] /\ BusyOK'
    BY <1>7, <1>i, <1>t, <2>1, TabOK DEF Confirm, s
  <2>3. CASE UNCHANGED <<db, heard>>
    BY <1>0, <1>7, <2>2, <2>3, TableKept DEF Confirm
  <2>4. CASE /\ db' = TouchFresh(tab[t].url)
             /\ heard' = Heard(db', [heard EXCEPT ![tab[t].url].at = now])
    BY <1>0, <1>7, <2>2, <2>4, ConfirmedOK, Parts DEF Confirm
  <2>5. QED
    BY <1>7, <2>3, <2>4 DEF Confirm
<1>8. ASSUME ServeConfirmed(t) PROVE CacheInv'
  BY <1>0, <1>8, <1>i, TableKept DEF ServeConfirmed
<1>9. QED
  BY <1>1, <1>2, <1>3, <1>4, <1>5, <1>6, <1>7, <1>8

LEMMA WorldOK ==
  ASSUME CacheInv,
         \/ \E u \in Urls : Delete(u) \/ \E etag \in Etags : Publish(u, etag)
         \/ Clear \/ Tick \/ \E time \in 0 .. MaxTime : SetClock(time)
         \/ \E newCap \in Caps : Restart(newCap)
  PROVE  CacheInv'
<1>0. /\ db \in TableType /\ cap \in Caps /\ now \in 0 .. MaxTime
      /\ content \in [Urls -> Etags]
  BY TypeParts
<1>1. ASSUME NEW u \in Urls, Delete(u) PROVE CacheInv'
  <2>1. db' \in TableType /\ \A v \in Urls : db'[v] \in {db[v], None}
    BY <1>0, <1>1 DEF Delete, TableType
  <2>2. heard' \in [Urls -> WordType] /\ RowsOK'
    BY <1>1, <2>1, RemovedOK DEF Delete
  <2>3. QED
    BY <1>0, <1>1, <2>1, <2>2, TabsKept, Parts DEF Delete
<1>2. ASSUME Clear PROVE CacheInv'
  <2>1. db' \in TableType /\ \A v \in Urls : db'[v] \in {db[v], None}
    BY <1>0, <1>2 DEF Clear, TableType
  <2>2. heard' \in [Urls -> WordType] /\ RowsOK'
    BY <1>2, <2>1, RemovedOK DEF Clear
  <2>3. QED
    BY <1>0, <1>2, <2>1, <2>2, TabsKept, Parts DEF Clear
<1>3. ASSUME NEW u \in Urls, NEW etag \in Etags, Publish(u, etag) PROVE CacheInv'
  <2>1. content' \in [Urls -> Etags]
    BY <1>0, <1>3 DEF Publish
  <2>2. QED
    BY <1>0, <1>3, <2>1, TabsKept, TableKept DEF Publish
<1>4. ASSUME Tick \/ \E time \in 0 .. MaxTime : SetClock(time) PROVE CacheInv'
  <2>1. now' \in 0 .. MaxTime
    BY <1>0, <1>4, Limits DEF Tick, SetClock
  <2>2. QED
    BY <1>0, <1>4, <2>1, TabsKept, TableKept DEF Tick, SetClock
<1>5. ASSUME NEW newCap \in Caps, Restart(newCap) PROVE CacheInv'
  <2>1. tab' \in [Tabs -> TabType] /\ BusyOK'
    BY <1>5, IdleType DEF Restart, BusyOK
  <2>2. QED
    BY <1>0, <1>5, <2>1, TableKept DEF Restart
<1>6. QED
  BY <1>1, <1>2, <1>3, <1>4, <1>5

LEMMA StepOK == CacheInv /\ [Next]_vars => CacheInv'
<1> SUFFICES ASSUME CacheInv, [Next]_vars PROVE CacheInv'
  OBVIOUS
<1>1. CASE Next
  BY <1>1, HandlerOK, WorldOK DEF Next
<1>2. CASE UNCHANGED vars
  BY <1>2 DEF vars, CacheInv, TypeOK, RowsOK, BusyOK
<1>3. QED
  BY <1>1, <1>2

-----------------------------------------------------------------------------
(* Theorems.                                                               *)

\* A row that is fresh is of an age that its headers and both limits permit.
LEMMA FreshOK ==
  ASSUME CacheInv, NEW u \in Urls, db[u] # None, IsFresh(db[u])
  PROVE  /\ heard[u].origin \in Headers
         /\ Permits(heard[u].origin, now - heard[u].at)
         /\ now - heard[u].at \in 0 .. (MaxTtl - 1)
<1>1. RowOK(db[u], heard[u])
  BY DEF CacheInv, RowsOK
<1>2. db[u].fetched \in Nat /\ db[u].age \in 0 .. MaxTtl /\ now \in Nat
  BY TypeParts, Limits DEF TableType, Row
<1>3. PICK age \in Int : age = now - heard[u].at
  BY <1>1, <1>2 DEF RowOK
<1>4. age \in Nat /\ age < Life(heard[u].origin)
  BY <1>1, <1>2, <1>3 DEF RowOK, IsFresh
<1>5. /\ Life(heard[u].origin) \in 0 .. MaxTtl
      /\ Life(heard[u].origin) <= ParseCacheControl(heard[u].origin)
      /\ ParseCacheControl(heard[u].origin) \in Int
  BY <1>1, LifeType, ParseType DEF RowOK
<1>6. age < ParseCacheControl(heard[u].origin) /\ age \in 0 .. (MaxTtl - 1)
  BY <1>4, <1>5, Limits
<1>7. Permits(heard[u].origin, age)
  BY <1>1, <1>4, <1>6, ParsePermits DEF RowOK
<1>8. QED
  BY <1>1, <1>3, <1>6, <1>7 DEF RowOK

\* A handler comes to a hit by a lookup that found a fresh row, and in no other
\* way.
LEMMA HitIsFresh ==
  ASSUME CacheInv, [Next]_vars, NEW t \in Tabs, tab[t].st # "hit", tab'[t].st = "hit"
  PROVE  LET u == tab'[t].url IN u \in Urls /\ db[u] # None /\ IsFresh(db[u])
<1>0. tab \in [Tabs -> TabType]
  BY TypeParts
<1>1. ASSUME NEW s, NEW r \in Tabs, Become(r, s), s.st # "hit" PROVE FALSE
  BY <1>0, <1>1 DEF Become
<1>2. ~UNCHANGED tab
  OBVIOUS
<1>3. Idle.st # "hit"
  BY DEF Idle
<1>5. PICK r \in Tabs, u \in Urls, mode \in Modes : Browse(r, u, mode)
  <2>1. \A r \in Tabs : ~ServeHit(r) /\ ~RequestFails(r) /\ ~StoreAnswer(r) /\ ~ServeConfirmed(r)
    BY <1>1, <1>3 DEF ServeHit, RequestFails, StoreAnswer, ServeConfirmed
  <2>2. \A r \in Tabs : ~SendConditional(r)
    BY <1>0, <1>1 DEF SendConditional, TabType
  <2>3. \A r \in Tabs, hd \in Headers : ~ServerAnswers(r, hd)
    BY <1>0, <1>1 DEF ServerAnswers, TabType
  <2>4. \A r \in Tabs : ~Confirm(r)
    BY <1>0, <1>1, <1>3 DEF Confirm, TabType
  <2>5. ~\E newCap \in Caps : Restart(newCap)
    BY <1>3 DEF Restart
  <2>6. QED
    BY <1>2, <2>1, <2>2, <2>3, <2>4, <2>5
       DEF Next, vars, Delete, Publish, Clear, Tick, SetClock
<1>6. PICK row \in Lookup(u) :
        Become(r, [Idle EXCEPT !.url = u,
                     !.st = IF row # None /\ IsFresh(row) THEN "hit" ELSE "stale"])
  <2>1. [Idle EXCEPT !.st = "sent", !.url = u, !.mode = mode].st # "hit"
    BY DEF Idle
  <2>2. QED
    BY <1>1, <1>5, <2>1 DEF Browse
<1>7. r = t /\ row # None /\ IsFresh(row) /\ tab'[t].url = u
  <2>1. r = t
    BY <1>0, <1>6 DEF Become
  <2>2. /\ [Idle EXCEPT !.url = u, !.st = IF row # None /\ IsFresh(row) THEN "hit" ELSE "stale"].st
            = IF row # None /\ IsFresh(row) THEN "hit" ELSE "stale"
        /\ [Idle EXCEPT !.url = u, !.st = IF row # None /\ IsFresh(row) THEN "hit" ELSE "stale"].url = u
    BY DEF Idle
  <2>3. QED
    BY <1>0, <1>6, <2>1, <2>2 DEF Become
<1>8. QED
  BY <1>6, <1>7 DEF Lookup

\* Table, handlers, clock and history keep their types, whatever fails.
THEOREM CacheTypeCorrect == Spec => []TypeOK
<1>1. CacheInv => TypeOK
  BY DEF CacheInv
<1>2. QED
  BY <1>1, InitOK, StepOK, PTL DEF Spec

\* A page is shown without asking the server only at an age of the server's last
\* word on it that the origin's headers and the limits of both operators permit.
THEOREM FreshIsConfirmed == Spec => FreshMeansConfirmed
<1>1. CacheInv /\ [Next]_vars =>
        [\A t \in Tabs : tab[t].st # "hit" /\ tab'[t].st = "hit" =>
           LET word == heard[tab'[t].url]
               age  == now - word.at
           IN  word.origin \in Headers /\ Permits(word.origin, age) /\ age \in 0..(MaxTtl - 1)]_vars
  <2> SUFFICES ASSUME CacheInv, [Next]_vars, NEW t \in Tabs,
                      tab[t].st # "hit", tab'[t].st = "hit"
               PROVE  LET word == heard[tab'[t].url]
                          age  == now - word.at
                      IN  /\ word.origin \in Headers /\ Permits(word.origin, age)
                          /\ age \in 0..(MaxTtl - 1)
    OBVIOUS
  <2>1. QED
    BY HitIsFresh, FreshOK
<1>2. QED
  BY <1>1, InitOK, StepOK, PTL DEF Spec, FreshMeansConfirmed
=============================================================================
