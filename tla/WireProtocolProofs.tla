------------------------- MODULE WireProtocolProofs -------------------------
(***************************************************************************)
(* Requests and responses, for every set of addresses, tags and payloads,  *)
(* however a response is cut into pieces, whatever the limits are and      *)
(* whatever text of the node comes between: what is shown is one response  *)
(* of the server, whole; on a link without a lost answer it is the answer  *)
(* to the request that was made; and no request waits for what it has.     *)
(* The argument looks at data and link as one stream that is read from its *)
(* front: wherever it is cut, what follows a header is its payload.        *)
(***************************************************************************)
EXTENDS WireProtocol, SequenceTheorems, WellFoundedInduction, TLAPS

(* The inductive invariant.                                                *)

Token    == Words \cup Etags \cup {"GET", "POST", "IF-NONE-MATCH", "\n", "body"}
ReadType == [verb : {"GET", "POST"}, url : Seq(Token), tag : Seq(Token)]
Response == [req : ReadType, payload : Payloads \cup {<<>>}]
Unit     == {"RE", "SP", "fields", "b64", "lf", "cr", "crlf", "text", "dead"} \X Nat

WireType ==
    /\ eol \in Eols
    /\ asked \in Seq(Requests) /\ uplink \in Seq(Token)
    /\ sent \in Seq(Response)
    /\ link \in Seq(Unit) /\ data \in Seq(Unit)

\* What the current request has read, and what is still to come.
Stream == IF pc = "wait" THEN data \o link ELSE link

\* Every header on the link is one of a response of the server, its line's end and
\* all of its payload follow: what was read of a stream is taken from its front.
Follows(q, s, i, n) ==
    /\ n \in DOMAIN s /\ i + 1 + Len(s[n].payload) \in DOMAIN q
    /\ q[i + 1][1] \notin {"RE", "SP", "b64"}
    /\ \A j \in 1 .. Len(s[n].payload) : q[i + 1 + j] = <<s[n].payload[j], n>>
Intact(q, s) == \A i \in DOMAIN q : q[i][1] = "fields" => Follows(q, s, i, q[i][2])

\* decode_header on the data so far: no header yet, or a response that is not
\* complete, and then frame is what it found.
Reading ==
    pc = "wait" =>
        \/ DecodeHeader(data).st = "none" /\ frame = None
        \/ /\ DecodeHeader(data).st = "ok" /\ frame = DecodeHeader(data)
           /\ Len(data) < frame.end + frame.len

\* When no line is left to answer, there is a whole header to read.
Whole(q, i) == /\ {i, i + 1, i + 2} \subseteq DOMAIN q
               /\ q[i][1] = "RE" /\ q[i + 1][1] = "SP" /\ q[i + 2][1] = "fields"
Answered == pc = "wait" /\ up /\ uplink = <<>> => \E i \in DOMAIN Stream : Whole(Stream, i)

\* On a link without a lost answer there is one request, or one response to it.
Fields(q) == {i \in DOMAIN q : q[i][1] = "fields"}
Clean ==
    ~late =>
        /\ pc \notin {"died", "failed"}
        /\ uplink # <<>> => /\ pc = "wait" /\ asked # <<>>
                            /\ uplink = Encode(Last(asked)) /\ Plain(Last(asked))
        /\ uplink # <<>> \/ pc # "wait" => Fields(Stream) = {}
        /\ \A i, j \in Fields(Stream) : i = j
        /\ \A i \in Fields(Stream) : sent[Stream[i][2]].req = Last(asked)

\* What was shown stays what the server sent.
Shown ==
    /\ page # None /\ page.how = "page" => page.n \in DOMAIN sent /\ WholeAnswer
    /\ pc = "done" /\ ~late => page.n \in DOMAIN sent /\ AnswerIsMine

WireInv == WireType /\ Intact(Stream, sent) /\ Reading /\ Answered /\ Clean /\ Shown

-----------------------------------------------------------------------------
(* The first of several positions.                                         *)

LEMMA MinOf ==
  ASSUME NEW S, S \subseteq Nat, S # {}
  PROVE  Min(S) \in S /\ \A y \in S : Min(S) <= y
<1>1. PICK x \in S : \A y \in S : ~ (<<y, x>> \in OpToRel(<, Nat))
  BY NatLessThanWellFounded, WFMin
<1>2. \A y \in S : ~ (y < x)
  BY <1>1 DEF OpToRel
<1>3. \E z \in S : \A y \in S : z <= y
  BY <1>2
<1>4. QED
  BY <1>3 DEF Min

-----------------------------------------------------------------------------
(* decode_header.                                                          *)

Magic(d, i) == d[i][1] = "RE" /\ d[i + 1][1] = "SP"

\* The magic that is found is the first one.
LEMMA MagicFirst ==
  ASSUME NEW d \in Seq(Unit)
  PROVE  /\ MagicAt(d) \in Nat
         /\ MagicAt(d) # 0 => MagicAt(d) \in 1 .. Len(d) - 1 /\ Magic(d, MagicAt(d))
         /\ \A i \in 1 .. Len(d) - 1 : Magic(d, i) => MagicAt(d) # 0 /\ MagicAt(d) <= i
<1> DEFINE found == {i \in 1 .. Len(d) - 1 : d[i][1] = "RE" /\ d[i + 1][1] = "SP"}
<1>1. MagicAt(d) = IF found = {} THEN 0 ELSE Min(found)
  BY DEF MagicAt
<1>2. Len(d) \in Nat /\ found \subseteq Nat /\ 0 \notin found
  BY LenProperties
<1>3. found # {} => Min(found) \in found /\ \A i \in found : Min(found) <= i
  BY <1>2, MinOf
<1>a. \A i \in 1 .. Len(d) - 1 : Magic(d, i) => i \in found
  BY DEF Magic
<1>4. CASE found = {}
  <2>1. MagicAt(d) = 0 /\ \A i \in 1 .. Len(d) - 1 : ~Magic(d, i)
    BY <1>1, <1>a, <1>4
  <2>2. QED
    BY <2>1
<1>5. CASE found # {}
  <2>1. PICK p \in found : p = Min(found)
    BY <1>3, <1>5
  <2>2. MagicAt(d) = p /\ \A i \in found : p <= i
    BY <1>1, <1>3, <1>5, <2>1
  <2>3. p \in Nat /\ p # 0 /\ p \in 1 .. Len(d) - 1 /\ Magic(d, p)
    BY <1>2, <2>1 DEF Magic
  <2> HIDE DEF found
  <2>4. QED
    BY <1>a, <2>2, <2>3
<1>6. QED
  BY <1>4, <1>5

\* DecodeHeader for the responses s.
HeaderIn(d, s) ==
    LET p == MagicAt(d)
    IN  IF p = 0 \/ Len(d) < p + 2 THEN Header("none", 0, 0, 0)
        ELSE IF d[p + 2][1] # "fields" THEN Header("err", 0, 0, 0)
        ELSE IF Len(d) < p + 3 THEN Header("none", 0, 0, 0)
        ELSE Header("ok", d[p + 2][2], Len(s[d[p + 2][2]].payload), HeaderEnd(p))

LEMMA DecodeIsHeaderIn ==
  ASSUME UNCHANGED eol
  PROVE  /\ \A d : DecodeHeader(d) = HeaderIn(d, sent)
         /\ DecodeHeader(data)' = HeaderIn(data', sent')
  BY DEF DecodeHeader, HeaderIn, HeaderEnd

LEMMA DecodeIsHeader == \A d : DecodeHeader(d) = HeaderIn(d, sent)
  BY DEF DecodeHeader, HeaderIn

LEMMA Ends == \A p \in Nat : HeaderEnd(p) \in {p + 2, p + 3} /\ (eol # "crlf" => HeaderEnd(p) = p + 3)
  BY DEF HeaderEnd

\* What the fields of a header say.
LEMMA HeaderFields ==
  ASSUME NEW d \in Seq(Unit), NEW s
  PROVE  /\ HeaderIn(d, s).st \in {"none", "err", "ok"}
         /\ HeaderIn(d, s).st = "ok" =>
              \E p \in 1 .. Len(d) - 1 :
                /\ p = MagicAt(d) /\ Magic(d, p)
                /\ p + 3 <= Len(d) /\ d[p + 2][1] = "fields"
                /\ HeaderIn(d, s).n = d[p + 2][2] /\ HeaderIn(d, s).end = HeaderEnd(p)
                /\ HeaderIn(d, s).len = Len(s[d[p + 2][2]].payload)
         /\ HeaderIn(d, s).st = "none" =>
              \/ MagicAt(d) = 0 \/ Len(d) < MagicAt(d) + 2
              \/ d[MagicAt(d) + 2][1] = "fields" /\ Len(d) < MagicAt(d) + 3
         /\ HeaderIn(d, s).st = "err" =>
              MagicAt(d) # 0 /\ MagicAt(d) + 2 <= Len(d) /\ d[MagicAt(d) + 2][1] # "fields"
<1>1. PICK p \in Nat : p = MagicAt(d)
  BY MagicFirst
<1>2. Len(d) \in Nat /\ (p # 0 => p \in 1 .. Len(d) - 1 /\ Magic(d, p))
  BY <1>1, MagicFirst, LenProperties
<1>3. HeaderIn(d, s) =
        IF p = 0 \/ Len(d) < p + 2 THEN Header("none", 0, 0, 0)
        ELSE IF d[p + 2][1] # "fields" THEN Header("err", 0, 0, 0)
        ELSE IF Len(d) < p + 3 THEN Header("none", 0, 0, 0)
        ELSE Header("ok", d[p + 2][2], Len(s[d[p + 2][2]].payload), HeaderEnd(p))
  BY <1>1 DEF HeaderIn
<1>4. CASE p = 0 \/ Len(d) < p + 2
  <2>1. HeaderIn(d, s).st = "none"
    BY <1>3, <1>4 DEF Header
  <2>2. QED
    BY <1>1, <1>4, <2>1
<1>5. CASE p # 0 /\ ~(Len(d) < p + 2) /\ d[p + 2][1] # "fields"
  <2>1. HeaderIn(d, s).st = "err"
    BY <1>3, <1>5 DEF Header
  <2>2. p + 2 <= Len(d)
    BY <1>2, <1>5
  <2>3. QED
    BY <1>1, <1>5, <2>1, <2>2
<1>6. CASE p # 0 /\ ~(Len(d) < p + 2) /\ d[p + 2][1] = "fields" /\ Len(d) < p + 3
  <2>1. HeaderIn(d, s).st = "none"
    BY <1>3, <1>6 DEF Header
  <2>2. QED
    BY <1>1, <1>6, <2>1
<1>7. CASE p # 0 /\ ~(Len(d) < p + 2) /\ d[p + 2][1] = "fields" /\ ~(Len(d) < p + 3)
  <2>1. HeaderIn(d, s) = Header("ok", d[p + 2][2], Len(s[d[p + 2][2]].payload), HeaderEnd(p))
    BY <1>3, <1>7
  <2>2. /\ HeaderIn(d, s).st = "ok" /\ HeaderIn(d, s).n = d[p + 2][2] /\ HeaderIn(d, s).end = HeaderEnd(p)
        /\ HeaderIn(d, s).len = Len(s[d[p + 2][2]].payload)
    BY <2>1 DEF Header
  <2>3. p \in 1 .. Len(d) - 1 /\ p + 3 <= Len(d) /\ Magic(d, p)
    BY <1>2, <1>7
  <2>4. QED
    BY <1>1, <1>7, <2>2, <2>3
<1>8. QED
  BY <1>4, <1>5, <1>6, <1>7

\* A header that has been found is found again when more has arrived.
LEMMA HeaderExtends ==
  ASSUME NEW d \in Seq(Unit), NEW c \in Seq(Unit), NEW s, HeaderIn(d, s).st = "ok"
  PROVE  HeaderIn(d \o c, s) = HeaderIn(d, s)
<1> DEFINE e == d \o c
<1>1. /\ e \in Seq(Unit) /\ Len(e) = Len(d) + Len(c) /\ Len(d) \in Nat /\ Len(c) \in Nat
      /\ \A i \in 1 .. Len(d) : e[i] = d[i]
  BY ConcatProperties, LenProperties
<1>2. PICK p \in 1 .. Len(d) - 1 : /\ p = MagicAt(d) /\ Magic(d, p)
                                   /\ p + 3 <= Len(d) /\ d[p + 2][1] = "fields"
  BY HeaderFields
<1> HIDE DEF e
<1>3. PICK q \in Nat : q = MagicAt(e)
  BY <1>1, MagicFirst
<1>4. Magic(e, p) /\ p \in 1 .. Len(e) - 1
  <2>1. p \in 1 .. Len(d) /\ p + 1 \in 1 .. Len(d) /\ p \in 1 .. Len(e) - 1
    BY <1>1, <1>2
  <2>2. e[p] = d[p] /\ e[p + 1] = d[p + 1]
    BY <1>1, <2>1
  <2>3. QED
    BY <1>2, <2>1, <2>2 DEF Magic
<1>5. q # 0 /\ q <= p /\ Magic(e, q) /\ q \in 1 .. Len(e) - 1
  BY <1>1, <1>3, <1>4, MagicFirst
<1>6. Magic(d, q) /\ q \in 1 .. Len(d) - 1
  <2>1. PICK m \in Nat : m = Len(d) /\ p \in 1 .. m - 1
    BY <1>1, <1>2
  <2>2. q \in 1 .. m - 1 /\ q \in 1 .. m /\ q + 1 \in 1 .. m
    BY <1>3, <1>5, <2>1
  <2>3. e[q] = d[q] /\ e[q + 1] = d[q + 1]
    BY <1>1, <2>1, <2>2
  <2>4. QED
    BY <1>5, <2>1, <2>2, <2>3 DEF Magic
<1>7. p <= q
  BY <1>2, <1>6, MagicFirst
<1>8. MagicAt(e) = p /\ e[p + 2] = d[p + 2]
  BY <1>1, <1>2, <1>3, <1>5, <1>7
<1>9. HeaderIn(e, s) = HeaderIn(d, s)
  BY <1>1, <1>2, <1>8 DEF HeaderIn
<1>10. QED
  BY <1>9 DEF e

-----------------------------------------------------------------------------
(* The stream.                                                             *)

\* e is q, x long, and then r, y long.
Joins(e, q, r, x, y) ==
    /\ x = Len(q) /\ y = Len(r) /\ x + y = Len(e)
    /\ DOMAIN q = 1 .. x /\ DOMAIN r = 1 .. y /\ DOMAIN e = 1 .. x + y
    /\ \A i \in 1 .. x : e[i] = q[i]
    /\ \A i \in 1 .. y : e[x + i] = r[i]

LEMMA Concat ==
  ASSUME NEW S, NEW q \in Seq(S), NEW r \in Seq(S)
  PROVE  /\ q \o r \in Seq(S) /\ Len(q) \in Nat /\ Len(r) \in Nat
         /\ Joins(q \o r, q, r, Len(q), Len(r))
<1>1. PICK x \in Nat, y \in Nat : x = Len(q) /\ y = Len(r) /\ DOMAIN q = 1 .. x /\ DOMAIN r = 1 .. y
  BY LenProperties
<1>2. /\ q \o r \in Seq(S) /\ Len(q \o r) = Len(q) + Len(r)
      /\ \A i \in 1 .. x + y : (q \o r)[i] = IF i <= x THEN q[i] ELSE r[i - x]
  BY <1>1, ConcatProperties
<1>3. DOMAIN (q \o r) = 1 .. x + y
  BY <1>1, <1>2, LenProperties
<1>4. ASSUME NEW i \in 1 .. y PROVE (q \o r)[x + i] = r[i]
  <2>1. x + i \in 1 .. x + y /\ ~(x + i <= x) /\ (x + i) - x = i
    OBVIOUS
  <2>2. (q \o r)[x + i] = r[(x + i) - x]
    BY <1>2, <2>1
  <2>3. QED
    BY <2>1, <2>2
<1>5. ASSUME NEW i \in 1 .. x PROVE (q \o r)[i] = q[i]
  <2>1. i \in 1 .. x + y /\ i <= x
    OBVIOUS
  <2>2. QED
    BY <1>2, <2>1
<1>6. Joins(q \o r, q, r, x, y)
  BY <1>1, <1>2, <1>3, <1>4, <1>5 DEF Joins
<1>7. QED
  BY <1>1, <1>2, <1>6

\* Three pieces one after the other, whichever two are joined first.
LEMMA Regroup ==
  ASSUME NEW a \in Seq(Unit), NEW b \in Seq(Unit), NEW c \in Seq(Unit)
  PROVE  (a \o b) \o c = a \o (b \o c)
  BY ConcatAssociative, SMTT(20)

\* The same for the words of a request.
Regrouped(a, b, c) == (a \o b) \o c = a \o (b \o c)

LEMMA RegroupWords ==
  ASSUME NEW a \in Seq(Token), NEW b \in Seq(Token), NEW c \in Seq(Token)
  PROVE  Regrouped(a, b, c)
  BY ConcatAssociative, SMTT(20) DEF Regrouped

\* A piece is taken from the front.
LEMMA Split ==
  ASSUME NEW S, NEW q \in Seq(S), NEW k \in 1 .. Len(q)
  PROVE  /\ SubSeq(q, 1, k) \in Seq(S) /\ SubSeq(q, k + 1, Len(q)) \in Seq(S)
         /\ SubSeq(q, 1, k) \o SubSeq(q, k + 1, Len(q)) = q
<1>1. PICK m \in Nat : m = Len(q) /\ DOMAIN q = 1 .. m
  BY LenProperties
<1>2. \A i \in 1 .. m : q[i] \in S
  BY <1>1, ElementOfSeq
<1>b. k \in 1 .. m
  BY <1>1
<1>c. k \in Nat /\ m - k \in Nat /\ k + (m - k) = m
  BY <1>b
<1>a. PICK w \in Nat : w = m - k /\ k + w = m /\ k \in 1 .. m
  BY <1>b, <1>c
<1>3. /\ SubSeq(q, 1, k) \in Seq(S) /\ Len(SubSeq(q, 1, k)) = k
      /\ \A i \in 1 .. k : SubSeq(q, 1, k)[i] = q[i]
  <2>1. \A i \in 1 .. k : q[i] \in S
    BY <1>1, <1>2
  <2>2. 1 \in Int /\ k \in Int /\ 1 <= k
    BY <1>1
  <2>3. QED
    BY <2>1, <2>2, SubSeqProperties
<1>4. /\ SubSeq(q, k + 1, m) \in Seq(S) /\ Len(SubSeq(q, k + 1, m)) = m - k
      /\ \A i \in 1 .. m - k : SubSeq(q, k + 1, m)[i] = q[k + i]
  <2>1. \A i \in k + 1 .. m : q[i] \in S
    BY <1>1, <1>2
  <2>2. k + 1 \in Int /\ m \in Int /\ m - (k + 1) + 1 = m - k
    BY <1>1
  <2>3. PICK a \in Int : a = k + 1
    BY <2>2
  <2>4. /\ SubSeq(q, a, m) \in Seq(S) /\ Len(SubSeq(q, a, m)) = IF a <= m THEN m - a + 1 ELSE 0
        /\ \A i \in 1 .. m - a + 1 : SubSeq(q, a, m)[i] = q[a + i - 1]
    BY <2>1, <2>2, <2>3, SubSeqProperties
  <2>5. QED
    BY <1>1, <2>2, <2>3, <2>4
<1>5. SubSeq(q, 1, k) \o SubSeq(q, k + 1, m) = q
  <2> DEFINE a == SubSeq(q, 1, k)
             b == SubSeq(q, k + 1, m)
  <2>1. a \in Seq(S) /\ b \in Seq(S) /\ Len(a) = k /\ Len(b) = m - k
    BY <1>3, <1>4
  <2>2. \A i \in 1 .. k : a[i] = q[i]
    BY <1>3
  <2>3. \A i \in 1 .. m - k : b[i] = q[k + i]
    BY <1>4
  <2> HIDE DEF a, b
  <2>5. /\ a \o b \in Seq(S) /\ Len(a \o b) = Len(q)
        /\ \A i \in 1 .. k + w : (a \o b)[i] = IF i <= k THEN a[i] ELSE b[i - k]
    <3>1. /\ a \o b \in Seq(S) /\ Len(a \o b) = Len(a) + Len(b)
          /\ \A i \in 1 .. Len(a) + Len(b) : (a \o b)[i] = IF i <= Len(a) THEN a[i] ELSE b[i - Len(a)]
      BY <2>1, ConcatProperties
    <3>2. Len(a) = k /\ Len(b) = w
      BY <2>1, <1>a
    <3>3. QED
      BY <1>1, <1>a, <3>1, <3>2
  <2>6. \A i \in 1 .. Len(q) : (a \o b)[i] = q[i]
    <3>1. \A i \in 1 .. k : (a \o b)[i] = q[i]
      BY <2>2, <1>a, <2>5
    <3>2. ASSUME NEW i \in 1 .. m, i > k PROVE (a \o b)[i] = q[i]
      <4>1. i - k \in 1 .. m - k /\ k + (i - k) = i /\ i \in 1 .. k + w /\ ~(i <= k)
        BY <1>1, <1>a, <3>2
      <4>2. (a \o b)[i] = b[i - k]
        BY <2>5, <4>1
      <4>3. b[i - k] = q[k + (i - k)]
        BY <2>3, <4>1
      <4>4. QED
        BY <4>1, <4>2, <4>3
    <3>3. \A i \in 1 .. m : i \in 1 .. k \/ i > k
      BY <1>b
    <3>4. \A i \in 1 .. m : (a \o b)[i] = q[i]
      BY <3>1, <3>2, <3>3
    <3>5. QED
      BY <1>1, <3>4
  <2>7. a \o b = q
    BY <2>5, <2>6, SeqEqual
  <2>8. QED
    BY <2>7 DEF a, b
<1>6. QED
  BY <1>1, <1>3, <1>4, <1>5

LEMMA PayloadType ==
  ASSUME NEW s \in Seq(Response), NEW n \in DOMAIN s
  PROVE  /\ s[n] \in Response /\ s[n].payload \in Seq({"RE", "SP", "b64"})
         /\ Len(s[n].payload) \in Nat /\ DOMAIN s[n].payload = 1 .. Len(s[n].payload)
         /\ \A j \in 1 .. Len(s[n].payload) : s[n].payload[j] \in {"RE", "SP", "b64"}
<1>1. s[n] \in Response
  BY ElementOfSeq, LenProperties
<1>2. PICK p \in Seq({"RE", "SP", "b64"}) : p = s[n].payload
  <2>1. s[n].payload \in Payloads \cup {<<>>}
    BY <1>1 DEF Response
  <2>2. <<>> \in Seq({"RE", "SP", "b64"})
    OBVIOUS
  <2>3. QED
    BY <2>1, <2>2, WireAssumption
<1>3. Len(p) \in Nat /\ DOMAIN p = 1 .. Len(p)
  BY LenProperties
<1>4. \A j \in 1 .. Len(p) : p[j] \in {"RE", "SP", "b64"}
  BY ElementOfSeq
<1>5. QED
  BY <1>1, <1>2, <1>3, <1>4

LEMMA IntactRight ==
  ASSUME NEW q \in Seq(Unit), NEW r \in Seq(Unit), NEW s \in Seq(Response), Intact(q \o r, s)
  PROVE  Intact(r, s)
<1> DEFINE e == q \o r
<1>a. Joins(e, q, r, Len(q), Len(r)) /\ Len(q) \in Nat /\ Len(r) \in Nat
  BY Concat
<1>b. PICK x \in Nat, y \in Nat : Joins(e, q, r, x, y)
  BY <1>a
<1>1. /\ DOMAIN r = 1 .. y /\ DOMAIN e = 1 .. x + y
      /\ \A i \in 1 .. y : e[x + i] = r[i]
  BY <1>b DEF Joins
<1>c. Intact(e, s)
  OBVIOUS
<1> HIDE DEF e
<1>2. ASSUME NEW i \in 1 .. y, NEW n, Follows(e, s, x + i, n)
      PROVE  Follows(r, s, i, n)
  <2>1. PICK l \in Nat : l = Len(s[n].payload)
    BY <1>2, PayloadType DEF Follows
  <2>2. (x + i) + 1 + l \in 1 .. x + y
    BY <1>1, <1>2, <2>1 DEF Follows
  <2>3. i + 1 + l \in 1 .. y
    BY <2>2
  <2>4. ASSUME NEW j \in 1 .. l PROVE r[i + 1 + j] = e[(x + i) + 1 + j]
    <3>1. i + 1 + j \in 1 .. y /\ x + (i + 1 + j) = (x + i) + 1 + j
      BY <2>3
    <3>2. QED
      BY <1>1, <3>1
  <2>5. r[i + 1] = e[(x + i) + 1]
    <3>1. i + 1 \in 1 .. y /\ x + (i + 1) = (x + i) + 1
      BY <2>3
    <3>2. QED
      BY <1>1, <3>1
  <2>6. QED
    BY <1>1, <1>2, <2>1, <2>3, <2>4, <2>5 DEF Follows
<1>3. \A i \in 1 .. y : x + i \in 1 .. x + y
  OBVIOUS
<1>4. ASSUME NEW i \in 1 .. y, r[i][1] = "fields" PROVE Follows(r, s, i, r[i][2])
  <2>1. x + i \in DOMAIN e /\ e[x + i] = r[i]
    BY <1>1, <1>3
  <2>2. Follows(e, s, x + i, r[i][2])
    BY <1>c, <1>4, <2>1 DEF Intact
  <2>3. QED
    BY <1>2, <2>2
<1>5. QED
  BY <1>1, <1>4 DEF Intact

LEMMA IntactConcat ==
  ASSUME NEW q \in Seq(Unit), NEW r \in Seq(Unit), NEW s \in Seq(Response),
         Intact(q, s), Intact(r, s)
  PROVE  Intact(q \o r, s)
<1> DEFINE e == q \o r
<1>a. Joins(e, q, r, Len(q), Len(r)) /\ Len(q) \in Nat /\ Len(r) \in Nat
  BY Concat
<1>b. PICK x \in Nat, y \in Nat : Joins(e, q, r, x, y)
  BY <1>a
<1>1. /\ DOMAIN q = 1 .. x /\ DOMAIN r = 1 .. y /\ DOMAIN e = 1 .. x + y
      /\ \A i \in 1 .. x : e[i] = q[i]
      /\ \A i \in 1 .. y : e[x + i] = r[i]
  BY <1>b DEF Joins
<1> HIDE DEF e
<1>2. ASSUME NEW i \in 1 .. x, NEW n, Follows(q, s, i, n)
      PROVE  Follows(e, s, i, n)
  <2>1. PICK l \in Nat : l = Len(s[n].payload)
    BY <1>2, PayloadType DEF Follows
  <2>2. i + 1 + l \in 1 .. x
    BY <1>1, <1>2, <2>1 DEF Follows
  <2>3. i + 1 + l \in DOMAIN e
    BY <1>1, <2>2
  <2>4. ASSUME NEW j \in 1 .. l PROVE e[i + 1 + j] = q[i + 1 + j]
    <3>1. i + 1 + j \in 1 .. x
      BY <2>2
    <3>2. QED
      BY <1>1, <3>1
  <2>5. e[i + 1] = q[i + 1]
    <3>1. i + 1 \in 1 .. x
      BY <2>2
    <3>2. QED
      BY <1>1, <3>1
  <2>6. QED
    BY <1>2, <2>1, <2>3, <2>4, <2>5 DEF Follows
<1>3. ASSUME NEW a \in 1 .. y, NEW n, Follows(r, s, a, n)
      PROVE  Follows(e, s, x + a, n)
  <2>1. PICK l \in Nat : l = Len(s[n].payload)
    BY <1>3, PayloadType DEF Follows
  <2>2. a + 1 + l \in 1 .. y
    BY <1>1, <1>3, <2>1 DEF Follows
  <2>3. (x + a) + 1 + l \in 1 .. x + y
    BY <2>2
  <2>4. ASSUME NEW j \in 1 .. l PROVE e[(x + a) + 1 + j] = r[a + 1 + j]
    <3>1. a + 1 + j \in 1 .. y /\ x + (a + 1 + j) = (x + a) + 1 + j
      BY <2>2
    <3>2. e[x + (a + 1 + j)] = r[a + 1 + j]
      BY <1>1, <3>1
    <3>3. QED
      BY <3>1, <3>2
  <2>5. e[(x + a) + 1] = r[a + 1]
    <3>1. a + 1 \in 1 .. y /\ x + (a + 1) = (x + a) + 1
      BY <2>2
    <3>2. e[x + (a + 1)] = r[a + 1]
      BY <1>1, <3>1
    <3>3. QED
      BY <3>1, <3>2
  <2>6. QED
    BY <1>1, <1>3, <2>1, <2>3, <2>4, <2>5 DEF Follows
<1>4. ASSUME NEW i \in DOMAIN e, e[i][1] = "fields" PROVE Follows(e, s, i, e[i][2])
  <2>1. CASE i \in 1 .. x
    BY <1>1, <1>2, <1>4, <2>1 DEF Intact
  <2>2. CASE i \notin 1 .. x
    <3>1. PICK a \in 1 .. y : i = x + a
      <4>1. i \in 1 .. x + y
        BY <1>1
      <4>2. i - x \in 1 .. y /\ i = x + (i - x)
        BY <2>2, <4>1
      <4>3. QED
        BY <4>2
    <3>2. e[i] = r[a]
      BY <1>1, <3>1
    <3>3. Follows(r, s, a, r[a][2])
      BY <1>1, <1>4, <3>2 DEF Intact
    <3>4. QED
      BY <1>3, <3>1, <3>2, <3>3
  <2>3. QED
    BY <2>1, <2>2
<1>5. Intact(e, s)
  BY <1>4 DEF Intact
<1>6. QED
  BY <1>5 DEF e

\* Another response is written.
LEMMA IntactSent ==
  ASSUME NEW q \in Seq(Unit), NEW s \in Seq(Response), NEW a \in Response, Intact(q, s)
  PROVE  Intact(q, Append(s, a))
<1>1. /\ DOMAIN s = 1 .. Len(s) /\ Len(s) \in Nat
      /\ DOMAIN Append(s, a) = 1 .. Len(s) + 1
      /\ \A n \in DOMAIN s : Append(s, a)[n] = s[n]
  BY LenProperties, AppendProperties
<1>2. \A n \in DOMAIN s : n \in DOMAIN Append(s, a)
  BY <1>1
<1>3. QED
  BY <1>1, <1>2 DEF Intact, Follows

\* The units of a response.
Response5(r, n, payload, l) ==
    /\ DOMAIN r = 1 .. l + 5
    /\ r[1] = <<"RE", n>> /\ r[2] = <<"SP", n>> /\ r[3] = <<"fields", n>> /\ r[4] = <<eol, n>>
    /\ \A j \in 1 .. l : r[4 + j] = <<payload[j], n>>
    /\ r[l + 5] = <<eol, n>>

LEMMA ResponseUnits ==
  ASSUME eol \in {"lf", "cr", "crlf"}, NEW n \in Nat, NEW payload \in Seq({"RE", "SP", "b64"})
  PROVE  /\ EncodeResponse(n, payload) \in Seq(Unit) /\ Len(payload) \in Nat
         /\ Response5(EncodeResponse(n, payload), n, payload, Len(payload))
<1> DEFINE h == <<<<"RE", n>>, <<"SP", n>>, <<"fields", n>>, <<eol, n>>>>
           b == [i \in 1 .. Len(payload) |-> <<payload[i], n>>]
           t == <<<<eol, n>>>>
<1>1. PICK l \in Nat : l = Len(payload)
  BY LenProperties
<1>2. h \in Seq(Unit) /\ t \in Seq(Unit) /\ Len(h) = 4 /\ Len(t) = 1 /\ t[1] = <<eol, n>>
      /\ h[1] = <<"RE", n>> /\ h[2] = <<"SP", n>> /\ h[3] = <<"fields", n>> /\ h[4] = <<eol, n>>
  BY DEF Unit
<1>3. b \in Seq(Unit) /\ Len(b) = l /\ \A j \in 1 .. l : b[j] = <<payload[j], n>>
  <2>1. \A j \in 1 .. l : payload[j] \in {"RE", "SP", "b64"}
    BY <1>1, ElementOfSeq
  <2>2. \A j \in 1 .. l : <<payload[j], n>> \in Unit
    BY <2>1 DEF Unit
  <2>3. b = [j \in 1 .. l |-> <<payload[j], n>>]
    BY <1>1
  <2>4. QED
    BY <2>2, <2>3
<1>4. EncodeResponse(n, payload) = (h \o b) \o t
  BY DEF EncodeResponse
<1> HIDE DEF h, b, t
<1>5. h \o b \in Seq(Unit) /\ Joins(h \o b, h, b, 4, l)
  BY <1>2, <1>3, Concat
<1>6. Len(h \o b) = 4 + l
  BY <1>5 DEF Joins
<1>7. (h \o b) \o t \in Seq(Unit) /\ Joins((h \o b) \o t, h \o b, t, Len(h \o b), 1)
  BY <1>2, <1>5, Concat
<1>8. PICK r \in Seq(Unit), e \in Seq(Unit) : r = (h \o b) \o t /\ e = h \o b
  BY <1>5, <1>7
<1>9. /\ Joins(e, h, b, 4, l) /\ Joins(r, e, t, 4 + l, 1)
  BY <1>5, <1>6, <1>7, <1>8
<1>10. /\ \A i \in 1 .. 4 : e[i] = h[i]
       /\ \A j \in 1 .. l : e[4 + j] = b[j]
  BY <1>9 DEF Joins
<1>11. /\ DOMAIN r = 1 .. (4 + l) + 1 /\ r[(4 + l) + 1] = t[1]
       /\ \A i \in 1 .. 4 + l : r[i] = e[i]
  BY <1>9 DEF Joins
<1>12. \A j \in 1 .. l : r[4 + j] = <<payload[j], n>>
  <2> TAKE j \in 1 .. l
  <2>1. 4 + j \in 1 .. 4 + l
    OBVIOUS
  <2>2. QED
    BY <1>3, <1>10, <1>11, <2>1
<1>13. r[1] = h[1] /\ r[2] = h[2] /\ r[3] = h[3] /\ r[4] = h[4]
  <2>1. {1, 2, 3, 4} \subseteq 1 .. 4 + l /\ {1, 2, 3, 4} \subseteq 1 .. 4
    OBVIOUS
  <2>2. QED
    BY <1>10, <1>11, <2>1
<1>14. (4 + l) + 1 = l + 5
  OBVIOUS
<1>15. Response5(r, n, payload, l)
  BY <1>2, <1>11, <1>12, <1>13, <1>14 DEF Response5
<1>16. QED
  BY <1>1, <1>4, <1>8, <1>15

\* A response has one header, at its front, and its payload follows.
LEMMA ResponseHeader ==
  ASSUME NEW r, NEW n, NEW payload \in Seq({"RE", "SP", "b64"}), NEW l \in Nat, l = Len(payload),
         Response5(r, n, payload, l), eol \in {"lf", "cr", "crlf"}
  PROVE  /\ Fields(r) = {3} /\ r[3] = <<"fields", n>>
         /\ Whole(r, 1)
<1>1. \A j \in 1 .. l : payload[j] \in {"RE", "SP", "b64"}
  BY ElementOfSeq
<1>2. \A i \in 1 .. l + 5 : i \in {1, 2, 3, 4, l + 5} \/ (i - 4 \in 1 .. l /\ 4 + (i - 4) = i)
  OBVIOUS
<1>3. ASSUME NEW i \in DOMAIN r, i # 3 PROVE r[i][1] # "fields"
  <2>1. CASE i \in {1, 2, 4, l + 5}
    BY <1>3, <2>1 DEF Response5
  <2>2. CASE i - 4 \in 1 .. l /\ 4 + (i - 4) = i
    <3>1. PICK j \in 1 .. l : 4 + j = i
      BY <2>2
    <3>2. r[i] = <<payload[j], n>>
      BY <3>1 DEF Response5
    <3>3. QED
      BY <1>1, <3>2
  <2>3. QED
    BY <1>2, <1>3, <2>1, <2>2 DEF Response5
<1>4. 3 \in DOMAIN r /\ 1 \in DOMAIN r /\ 1 + 1 \in DOMAIN r /\ 1 + 2 \in DOMAIN r
  BY DEF Response5
<1>5. r[3][1] = "fields" /\ r[1][1] = "RE" /\ r[1 + 1][1] = "SP" /\ r[1 + 2][1] = "fields"
  BY DEF Response5
<1>6. QED
  BY <1>3, <1>4, <1>5 DEF Fields, Whole, Response5

LEMMA ResponseIntact ==
  ASSUME NEW s \in Seq(Response), NEW a \in Response, NEW l \in Nat, l = Len(a.payload),
         a.payload \in Seq({"RE", "SP", "b64"}),
         NEW r, Response5(r, Len(s) + 1, a.payload, l), eol \in {"lf", "cr", "crlf"}
  PROVE  Intact(r, Append(s, a))
<1>1. /\ Len(s) \in Nat /\ DOMAIN Append(s, a) = 1 .. Len(s) + 1 /\ Append(s, a)[Len(s) + 1] = a
  BY LenProperties, AppendProperties
<1>2. PICK n \in Nat : n = Len(s) + 1 /\ n \in DOMAIN Append(s, a) /\ Append(s, a)[n] = a
  BY <1>1
<1>a. PICK p \in Seq({"RE", "SP", "b64"}) : p = a.payload
  OBVIOUS
<1>b. Response5(r, n, p, l) /\ l = Len(p)
  BY <1>2, <1>a
<1>c. Fields(r) = {3} /\ r[3] = <<"fields", n>>
  BY <1>b, ResponseHeader
<1>3. Fields(r) = {3} /\ r[3][2] = n
  BY <1>c
<1>4. Follows(r, Append(s, a), 3, n)
  <2>1. DOMAIN r = 1 .. l + 5 /\ \A j \in 1 .. l : r[4 + j] = <<a.payload[j], n>>
    BY <1>2 DEF Response5
  <2>2. 3 + 1 + l \in 1 .. l + 5 /\ \A j \in 1 .. l : 3 + 1 + j = 4 + j
    OBVIOUS
  <2>3. r[3 + 1][1] \notin {"RE", "SP", "b64"}
    <3>1. r[4] = <<eol, n>> /\ 3 + 1 = 4
      BY <1>2 DEF Response5
    <3>2. QED
      BY <3>1
  <2>4. QED
    BY <1>2, <2>1, <2>2, <2>3 DEF Follows
<1>5. QED
  BY <1>3, <1>4 DEF Intact, Fields

LEMMA FieldsConcat ==
  ASSUME NEW q \in Seq(Unit), NEW r \in Seq(Unit)
  PROVE  /\ \A i \in Fields(q) : i \in Fields(q \o r) /\ (q \o r)[i] = q[i]
         /\ \A i \in Fields(q \o r) :
              \/ i \in Fields(q)
              \/ \E a \in Fields(r) : i = Len(q) + a /\ (q \o r)[i] = r[a]
         /\ \A i \in DOMAIN q : Whole(q, i) => i \in DOMAIN (q \o r) /\ Whole(q \o r, i)
         /\ \A i \in DOMAIN r : Whole(r, i) => \E j \in DOMAIN (q \o r) : Whole(q \o r, j)
<1> DEFINE e == q \o r
<1>a. Joins(e, q, r, Len(q), Len(r)) /\ Len(q) \in Nat /\ Len(r) \in Nat
  BY Concat
<1>b. PICK x \in Nat, y \in Nat : Joins(e, q, r, x, y) /\ x = Len(q)
  BY <1>a
<1>1. /\ DOMAIN q = 1 .. x /\ DOMAIN r = 1 .. y /\ DOMAIN e = 1 .. x + y
      /\ \A i \in 1 .. x : e[i] = q[i]
      /\ \A i \in 1 .. y : e[x + i] = r[i]
  BY <1>b DEF Joins
<1> HIDE DEF e
<1>2. \A i \in 1 .. x : i \in DOMAIN e
  BY <1>1
<1>3. \A i \in 1 .. x + y : i \in 1 .. x \/ \E a \in 1 .. y : i = x + a
  <2> TAKE i \in 1 .. x + y
  <2>1. i \in 1 .. x \/ (i - x \in 1 .. y /\ i = x + (i - x))
    OBVIOUS
  <2>2. QED
    BY <2>1
<1>4. \A i \in Fields(q) : i \in Fields(e) /\ e[i] = q[i]
  BY <1>1, <1>2 DEF Fields
<1>5. ASSUME NEW i \in Fields(e)
      PROVE  i \in Fields(q) \/ \E a \in Fields(r) : i = x + a /\ e[i] = r[a]
  <2>1. i \in 1 .. x + y /\ e[i][1] = "fields"
    BY <1>1 DEF Fields
  <2>2. CASE i \in 1 .. x
    BY <1>1, <2>1, <2>2 DEF Fields
  <2>3. ASSUME NEW a \in 1 .. y, i = x + a
        PROVE  \E c \in Fields(r) : i = x + c /\ e[i] = r[c]
    BY <1>1, <2>1, <2>3 DEF Fields
  <2>4. QED
    BY <1>3, <2>1, <2>2, <2>3
<1>6. \A i \in DOMAIN q : Whole(q, i) => i \in DOMAIN e /\ Whole(e, i)
  BY <1>1, <1>2 DEF Whole
<1>7. ASSUME NEW i \in DOMAIN r, Whole(r, i)
      PROVE  \E j \in DOMAIN e : Whole(e, j)
  <2>1. i \in 1 .. y /\ i + 1 \in 1 .. y /\ i + 2 \in 1 .. y
    BY <1>1, <1>7 DEF Whole
  <2>2. PICK c \in 1 .. y : c = i /\ c + 1 \in 1 .. y /\ c + 2 \in 1 .. y
    BY <2>1
  <2>3. ASSUME NEW b \in 1 .. y, b + 1 \in 1 .. y, b + 2 \in 1 .. y
        PROVE  /\ {x + b, (x + b) + 1, (x + b) + 2} \subseteq 1 .. x + y
               /\ (x + b) + 1 = x + (b + 1) /\ (x + b) + 2 = x + (b + 2)
    BY <2>3
  <2>4. PICK j \in 1 .. x + y : /\ j = x + c /\ j + 1 = x + (c + 1) /\ j + 2 = x + (c + 2)
                                /\ {j, j + 1, j + 2} \subseteq 1 .. x + y
    BY <2>2, <2>3
  <2>5. e[j] = r[c] /\ e[j + 1] = r[c + 1] /\ e[j + 2] = r[c + 2]
    BY <1>1, <2>2, <2>4
  <2>6. r[c][1] = "RE" /\ r[c + 1][1] = "SP" /\ r[c + 2][1] = "fields"
    BY <1>7, <2>2 DEF Whole
  <2>7. j \in DOMAIN e /\ {j, j + 1, j + 2} \subseteq DOMAIN e
    BY <1>1, <2>4
  <2>8. Whole(e, j)
    BY <2>5, <2>6, <2>7 DEF Whole
  <2>9. QED
    BY <2>7, <2>8
<1>8. QED
  BY <1>b, <1>4, <1>5, <1>6, <1>7 DEF e

LEMMA FieldsRight ==
  ASSUME NEW q \in Seq(Unit), NEW r \in Seq(Unit), NEW i \in Fields(r)
  PROVE  \E j \in Fields(q \o r) : j \notin DOMAIN q
<1> DEFINE e == q \o r
<1>a. Joins(e, q, r, Len(q), Len(r)) /\ Len(q) \in Nat /\ Len(r) \in Nat
  BY Concat
<1>b. PICK x \in Nat, y \in Nat : Joins(e, q, r, x, y)
  BY <1>a
<1>1. /\ DOMAIN q = 1 .. x /\ DOMAIN r = 1 .. y /\ DOMAIN e = 1 .. x + y
      /\ \A a \in 1 .. y : e[x + a] = r[a]
  BY <1>b DEF Joins
<1> HIDE DEF e
<1>2. PICK a \in 1 .. y : r[a][1] = "fields"
  BY <1>1 DEF Fields
<1>3. x + a \in 1 .. x + y /\ x + a \notin 1 .. x
  OBVIOUS
<1>4. x + a \in Fields(e)
  BY <1>1, <1>2, <1>3 DEF Fields
<1>5. QED
  BY <1>1, <1>3, <1>4 DEF e

-----------------------------------------------------------------------------
(* Request::encode and read_request.                                       *)

LEMMA WiderSeq ==
  ASSUME NEW S, NEW T, S \subseteq T, NEW q \in Seq(S)
  PROVE  q \in Seq(T)
<1>1. Len(q) \in Nat /\ q \in [1 .. Len(q) -> S]
  BY LenProperties
<1>2. q \in [1 .. Len(q) -> T]
  BY <1>1
<1>3. QED
  BY <1>1, <1>2

\* The elements from a to b.
LEMMA Part ==
  ASSUME NEW S, NEW q \in Seq(S), NEW a \in Nat, NEW b \in Nat, a # 0, b <= Len(q)
  PROVE  /\ SubSeq(q, a, b) \in Seq(S)
         /\ a <= b => Len(SubSeq(q, a, b)) = b - a + 1
         /\ b < a => SubSeq(q, a, b) = <<>>
         /\ \A i \in 1 .. b - a + 1 : SubSeq(q, a, b)[i] = q[a + i - 1]
<1>1. PICK m \in Nat : m = Len(q)
  BY LenProperties
<1>2. \A i \in a .. b : i \in 1 .. m
  BY <1>1
<1>3. \A i \in a .. b : q[i] \in S
  BY <1>1, <1>2, ElementOfSeq
<1>4. /\ SubSeq(q, a, b) \in Seq(S) /\ Len(SubSeq(q, a, b)) = IF a <= b THEN b - a + 1 ELSE 0
      /\ \A i \in 1 .. b - a + 1 : SubSeq(q, a, b)[i] = q[a + i - 1]
  BY <1>3, SubSeqProperties
<1>5. b < a => SubSeq(q, a, b) = <<>>
  BY <1>4, EmptySeq
<1>6. QED
  BY <1>4, <1>5

\* The tag, as it is written.
Condition(tag) == IF tag = <<>> THEN <<>> ELSE <<"IF-NONE-MATCH">> \o tag

\* A request as the stream has it: the line is w words long after its method.
Written(e, verb, words, w, t) ==
    /\ e \in Seq(Token) /\ words \in Seq(Token) /\ Len(words) = w /\ Len(e) = w + 2 + t
    /\ e[1] = verb /\ (\A i \in 1 .. w : e[1 + i] = words[i]) /\ e[w + 2] = "\n"
    /\ t = (IF verb = "POST" THEN 1 ELSE 0) /\ (verb = "POST" => e[w + 3] = "body")

LEMMA RequestParts ==
  ASSUME NEW req \in Requests
  PROVE  /\ req.verb \in {"GET", "POST"} /\ req.url \in Seq(Token) /\ req.tag \in Seq(Token)
         /\ req.tag = <<>> \/ \E x \in Etags : req.tag = <<x>>
         /\ req.verb = "POST" \/ req.url = <<>> => req.tag = <<>>
         /\ req = [verb |-> req.verb, url |-> req.url, tag |-> req.tag]
<1>1. req \in [verb : {"GET", "POST"}, url : Urls, tag : Tags]
  BY DEF Requests
<1>2. req.verb = "POST" \/ req.url = <<>> => req.tag = <<>>
  BY DEF Requests
<1>3. req.url \in Seq(Words)
  BY <1>1, WireAssumption
<1>4. req.url \in Seq(Token)
  BY <1>3, WiderSeq DEF Token
<1>5. req.tag = <<>> \/ \E x \in Etags : req.tag = <<x>>
  BY <1>1 DEF Tags
<1>6. req.tag \in Seq(Token)
  <2>1. <<>> \in Seq(Token) /\ \A x \in Token : <<x>> \in Seq(Token)
    OBVIOUS
  <2>2. \A x \in Etags : x \in Token
    BY DEF Token
  <2>3. QED
    BY <1>5, <2>1, <2>2
<1>7. QED
  BY <1>1, <1>2, <1>4, <1>5, <1>6

LEMMA ConditionWords ==
  ASSUME NEW tag
  PROVE  /\ tag = <<>> => Condition(tag) = <<>>
         /\ \A x \in Token : tag = <<x>> =>
              /\ Condition(tag) \in Seq(Token) /\ Len(Condition(tag)) = 2
              /\ Condition(tag)[1] = "IF-NONE-MATCH" /\ Condition(tag)[2] = x
<1>1. tag = <<>> => Condition(tag) = <<>>
  BY DEF Condition
<1>2. ASSUME NEW x \in Token, tag = <<x>>
      PROVE  /\ Condition(tag) \in Seq(Token) /\ Len(Condition(tag)) = 2
             /\ Condition(tag)[1] = "IF-NONE-MATCH" /\ Condition(tag)[2] = x
  <2>1. PICK s \in Token : s = "IF-NONE-MATCH"
    BY DEF Token
  <2>2. Condition(tag) = <<s>> \o <<x>>
    <3>1. <<x>> # <<>>
      OBVIOUS
    <3>2. QED
      BY <1>2, <2>1, <3>1 DEF Condition
  <2>3. <<s>> \in Seq(Token) /\ <<x>> \in Seq(Token) /\ Len(<<s>>) = 1 /\ Len(<<x>>) = 1
    OBVIOUS
  <2>4. <<s>>[1] = s /\ <<x>>[1] = x
    OBVIOUS
  <2>5. <<s>> \o <<x>> \in Seq(Token) /\ Joins(<<s>> \o <<x>>, <<s>>, <<x>>, 1, 1)
    BY <2>3, Concat
  <2>6. PICK c \in Seq(Token), f \in Seq(Token), g \in Seq(Token) :
           c = <<s>> \o <<x>> /\ f = <<s>> /\ g = <<x>>
    BY <2>3, <2>5
  <2>7. Joins(c, f, g, 1, 1) /\ f[1] = s /\ g[1] = x
    BY <2>4, <2>5, <2>6
  <2>8. Len(c) = 2 /\ c[1] = s /\ c[2] = x
    <3>1. 1 + 1 = Len(c) /\ (\A i \in 1 .. 1 : c[i] = f[i]) /\ (\A i \in 1 .. 1 : c[1 + i] = g[i])
      BY <2>7 DEF Joins
    <3>2. 1 \in 1 .. 1 /\ 1 + 1 = 2
      OBVIOUS
    <3>3. c[1] = f[1] /\ c[1 + 1] = g[1]
      BY <3>1, <3>2
    <3>4. QED
      BY <2>7, <3>1, <3>2, <3>3
  <2>9. QED
    BY <2>1, <2>2, <2>6, <2>8
<1>3. QED
  BY <1>1, <1>2

\* The words of a line: the address, l long, and the condition.
WordsOf(words, url, c, l, w) ==
    /\ words = url \o c /\ l = Len(url) /\ w = l + Len(c)
    /\ \A i \in 1 .. l : words[i] = url[i]
    /\ \A i \in 1 .. Len(c) : words[l + i] = c[i]

One(f, x) == f = <<x>> /\ Len(f) = 1 /\ f[1] = x

LEMMA OneWord ==
  ASSUME NEW x \in Token
  PROVE  \E f \in Seq(Token) : One(f, x)
<1>1. <<x>> \in Seq(Token)
  OBVIOUS
<1>2. Len(<<x>>) = 1 /\ <<x>>[1] = x
  OBVIOUS
<1>3. One(<<x>>, x)
  BY <1>2 DEF One
<1>4. QED
  BY <1>1, <1>3

\* The body of a POST, and of a GET nothing.
Behind(d, t, verb, b) ==
    /\ d = (IF verb = "POST" THEN <<b>> ELSE <<>>) /\ t = Len(d)
    /\ t = (IF verb = "POST" THEN 1 ELSE 0) /\ (verb = "POST" => d[1] = b)

LEMMA BodyWords ==
  ASSUME NEW verb, NEW b \in Token
  PROVE  \E d \in Seq(Token), t \in Nat : Behind(d, t, verb, b)
<1>1. CASE verb = "POST"
  <2>1. PICK d \in Seq(Token) : One(d, b)
    BY OneWord
  <2>2. Behind(d, 1, verb, b)
    BY <1>1, <2>1 DEF One, Behind
  <2>3. QED
    BY <2>2
<1>2. CASE verb # "POST"
  <2>a. <<>> \in Seq(Token) /\ Len(<<>>) = 0
    OBVIOUS
  <2>1. PICK d \in Seq(Token) : d = <<>>
    BY <2>a
  <2>2. Len(d) = 0
    BY <2>a, <2>1
  <2>3. Behind(d, 0, verb, b)
    BY <1>2, <2>1, <2>2 DEF Behind
  <2>4. QED
    BY <2>3
<1>3. QED
  BY <1>1, <1>2

\* What Request::encode writes.
LEMMA EncodeWords ==
  ASSUME NEW req \in Requests
  PROVE  \E w \in Nat, t \in Nat, words \in Seq(Token), l \in Nat, c \in Seq(Token) :
           /\ Written(Encode(req), req.verb, words, w, t)
           /\ c = Condition(req.tag) /\ WordsOf(words, req.url, c, l, w)
<1>1. /\ req.verb \in {"GET", "POST"} /\ req.url \in Seq(Token)
      /\ req.tag = <<>> \/ \E x \in Etags : req.tag = <<x>>
  BY RequestParts
<1>2. PICK c \in Seq(Token) : c = Condition(req.tag)
  <2>1. CASE req.tag = <<>>
    <3>1. <<>> \in Seq(Token)
      OBVIOUS
    <3>2. QED
      BY <2>1, <3>1, ConditionWords
  <2>2. CASE \E x \in Etags : req.tag = <<x>>
    <3>1. PICK x \in Token : req.tag = <<x>>
      BY <2>2 DEF Token
    <3>2. QED
      BY <3>1, ConditionWords
  <2>3. QED
    BY <1>1, <2>1, <2>2
<1>3. PICK u \in Seq(Token), verb \in {"GET", "POST"} : u = req.url /\ verb = req.verb
  BY <1>1
<1>4. PICK l \in Nat, m \in Nat : l = Len(u) /\ m = Len(c)
  BY LenProperties
<1>5. PICK words \in Seq(Token) : words = u \o c /\ Joins(words, u, c, l, m)
  BY <1>4, Concat
<1>6. PICK w \in Nat : w = l + m /\ Len(words) = w
  BY <1>5 DEF Joins
<1>7. WordsOf(words, u, c, l, w)
  BY <1>4, <1>5, <1>6 DEF Joins, WordsOf
<1>8. PICK v \in Token, n \in Token, b \in Token : v = verb /\ n = "\n" /\ b = "body"
  BY DEF Token
<1>a. PICK f \in Seq(Token) : One(f, v)
  BY OneWord
<1>9. f = <<v>> /\ Len(f) = 1 /\ f[1] = v
  BY <1>a DEF One
<1>b. PICK g \in Seq(Token) : One(g, n)
  BY OneWord
<1>10. g = <<n>> /\ Len(g) = 1 /\ g[1] = n
  BY <1>b DEF One
<1>c. PICK d \in Seq(Token), t \in Nat : Behind(d, t, verb, b)
  BY BodyWords
<1>11. /\ d = (IF verb = "POST" THEN <<b>> ELSE <<>>) /\ t = Len(d)
       /\ t = (IF verb = "POST" THEN 1 ELSE 0) /\ (verb = "POST" => d[1] = b)
  BY <1>c DEF Behind
<1>12. Encode(req) = (((f \o u) \o c) \o g) \o d
  BY <1>2, <1>3, <1>8, <1>9, <1>10, <1>11 DEF Encode, Condition
<1>13. (f \o u) \o c = f \o words
  <2>1. Regrouped(f, u, c)
    BY RegroupWords
  <2>2. QED
    BY <1>5, <2>1, Zenon DEF Regrouped
<1>14. PICK fw \in Seq(Token) : fw = f \o words /\ Joins(fw, f, words, 1, w)
  BY <1>6, <1>9, Concat
<1>15. PICK x \in Nat : x = 1 + w /\ Len(fw) = x
  BY <1>14 DEF Joins
<1>16. PICK fg \in Seq(Token) : fg = fw \o g /\ Joins(fg, fw, g, x, 1)
  BY <1>10, <1>15, Concat
<1>17. PICK y \in Nat : y = w + 2 /\ y = x + 1 /\ Len(fg) = y
  BY <1>15, <1>16 DEF Joins
<1>18. PICK e \in Seq(Token) : e = fg \o d /\ Joins(e, fg, d, y, t)
  BY <1>11, <1>17, Concat
<1>19. Encode(req) = e
  BY <1>12, <1>13, <1>14, <1>16, <1>18
<1>20. Len(e) = w + 2 + t /\ (\A i \in 1 .. y : e[i] = fg[i]) /\ (\A i \in 1 .. t : e[y + i] = d[i])
  BY <1>17, <1>18 DEF Joins
<1>21. (\A i \in 1 .. x : fg[i] = fw[i]) /\ (\A i \in 1 .. 1 : fg[x + i] = g[i])
  BY <1>16 DEF Joins
<1>22. (\A i \in 1 .. 1 : fw[i] = f[i]) /\ (\A i \in 1 .. w : fw[1 + i] = words[i])
  BY <1>14 DEF Joins
<1>23. 1 \in 1 .. 1 /\ 1 \in 1 .. x /\ 1 \in 1 .. y /\ y \in 1 .. y /\ w + 3 = y + 1
  BY <1>15, <1>17
<1>24. e[1] = v
  BY <1>9, <1>20, <1>21, <1>22, <1>23
<1>25. ASSUME NEW i \in 1 .. w PROVE e[1 + i] = words[i]
  <2>1. 1 + i \in 1 .. x /\ 1 + i \in 1 .. y
    BY <1>15, <1>17
  <2>2. QED
    BY <1>20, <1>21, <1>22, <2>1
<1>26. e[w + 2] = n
  BY <1>10, <1>17, <1>20, <1>21, <1>23
<1>27. verb = "POST" => e[w + 3] = b
  BY <1>11, <1>20, <1>23
<1>28. Written(e, verb, words, w, t)
  BY <1>6, <1>8, <1>11, <1>20, <1>24, <1>25, <1>26, <1>27 DEF Written
<1>29. QED
  BY <1>2, <1>3, <1>7, <1>19, <1>28

\* The line ends at the first line feed.
LEMMA LineEnds ==
  ASSUME NEW q \in Seq(Token)
  PROVE  /\ LineEnd(q) \in 0 .. Len(q)
         /\ LineEnd(q) # 0 => q[LineEnd(q)] = "\n"
         /\ \A i \in 1 .. Len(q) : q[i] = "\n" => LineEnd(q) # 0 /\ LineEnd(q) <= i
<1> DEFINE found == {i \in 1 .. Len(q) : q[i] = "\n"}
<1>1. LineEnd(q) = IF found # {} THEN Min(found) ELSE 0
  BY DEF LineEnd, SelectInSeq
<1>2. Len(q) \in Nat /\ found \subseteq Nat
  BY LenProperties
<1>3. found # {} => Min(found) \in found /\ \A i \in found : Min(found) <= i
  BY <1>2, MinOf
<1>4. CASE found = {}
  <2>1. LineEnd(q) = 0 /\ \A i \in 1 .. Len(q) : q[i] # "\n"
    BY <1>1, <1>4
  <2>2. QED
    BY <1>2, <2>1
<1>5. CASE found # {}
  <2>1. PICK p \in found : p = Min(found) /\ \A i \in found : p <= i
    BY <1>3, <1>5
  <2>2. LineEnd(q) = p
    BY <1>1, <1>5, <2>1
  <2>3. p \in 1 .. Len(q) /\ q[p] = "\n"
    OBVIOUS
  <2>4. \A i \in 1 .. Len(q) : q[i] = "\n" => p <= i
    BY <2>1
  <2>5. p # 0
    BY <2>3
  <2>6. p \in 0 .. Len(q)
    BY <1>2, <2>3
  <2> HIDE DEF found
  <2>7. QED
    BY <2>2, <2>3, <2>4, <2>5, <2>6
<1>6. QED
  BY <1>4, <1>5

\* The first line of a stream and what follows it.
LEMMA Lines ==
  ASSUME NEW q \in Seq(Token), NEW k \in Nat, k = LineEnd(q), k # 0
  PROVE  /\ k <= Len(q) /\ q[k] = "\n"
         /\ FirstLine(q) \in Seq(Token) /\ AfterLine(q) \in Seq(Token)
         /\ Len(FirstLine(q)) = k - 1
         /\ \A i \in 1 .. k - 1 : FirstLine(q)[i] = q[i]
         /\ AfterLine(q) = SubSeq(q, k + 1, Len(q))
<1>1. PICK n \in Nat : n = Len(q) /\ k <= n /\ q[k] = "\n"
  BY LineEnds, LenProperties
<1>2. PICK j \in Nat : j = k - 1 /\ j <= n /\ j < k /\ (1 <= j => j - 1 + 1 = j) /\ (~(1 <= j) => j = 0)
  BY <1>1
<1>3. FirstLine(q) = SubSeq(q, 1, j)
  BY <1>2 DEF FirstLine
<1>4. /\ SubSeq(q, 1, j) \in Seq(Token)
      /\ 1 <= j => Len(SubSeq(q, 1, j)) = j - 1 + 1
      /\ j < 1 => SubSeq(q, 1, j) = <<>>
      /\ \A i \in 1 .. j - 1 + 1 : SubSeq(q, 1, j)[i] = q[1 + i - 1]
  BY <1>1, <1>2, Part
<1>5. Len(SubSeq(q, 1, j)) = j
  <2>1. CASE 1 <= j
    BY <1>2, <1>4, <2>1
  <2>2. CASE ~(1 <= j)
    <3>1. j = 0 /\ j < 1
      BY <1>2, <2>2
    <3>2. Len(<<>>) = 0
      OBVIOUS
    <3>3. QED
      BY <1>4, <3>1, <3>2
  <2>3. QED
    BY <2>1, <2>2
<1>6. ASSUME NEW i \in 1 .. j PROVE SubSeq(q, 1, j)[i] = q[i]
  <2>1. i \in 1 .. j - 1 + 1 /\ 1 + i - 1 = i
    OBVIOUS
  <2>2. SubSeq(q, 1, j)[i] = q[1 + i - 1]
    BY <1>4, <2>1
  <2>3. QED
    BY <2>1, <2>2
<1>7. AfterLine(q) = SubSeq(q, k + 1, Len(q))
  BY DEF AfterLine
<1>8. SubSeq(q, k + 1, n) \in Seq(Token)
  <2>1. PICK a \in Nat : a = k + 1 /\ a # 0
    OBVIOUS
  <2>2. QED
    BY <1>1, <2>1, Part
<1>9. QED
  BY <1>1, <1>2, <1>3, <1>4, <1>5, <1>6, <1>7, <1>8

\* The words after the method.
LEMMA TailWords ==
  ASSUME NEW q \in Seq(Token), NEW n \in Nat, n # 0, Len(q) = n + 1
  PROVE  /\ Tail(q) \in Seq(Token) /\ Len(Tail(q)) = n
         /\ \A i \in 1 .. n : Tail(q)[i] = q[1 + i]
<1>1. q # <<>> /\ n + 1 - 1 = n /\ \A i \in 1 .. n : i + 1 = 1 + i
  OBVIOUS
<1>2. /\ Tail(q) \in Seq(Token) /\ Len(Tail(q)) = Len(q) - 1
      /\ \A i \in 1 .. Len(Tail(q)) : Tail(q)[i] = q[i + 1]
  BY <1>1, HeadTailProperties
<1>3. QED
  BY <1>1, <1>2

\* What read_request makes of a line whose words after the method are rest: no
\* tag is announced ...
LEMMA ReadUntagged ==
  ASSUME NEW line, NEW rest \in Seq(Token), rest = Tail(line), NEW n \in Nat, n = Len(rest),
         line[1] = "POST" \/ \A i \in 2 .. n - 1 : rest[i] # "IF-NONE-MATCH"
  PROVE  ReadRequest(line) = [verb |-> line[1], url |-> rest, tag |-> <<>>]
  BY DEF ReadRequest

\* ... or one is, and the first announcement is at a.
SplitAt(line, rest, n, a) ==
    ReadRequest(line) = [verb |-> line[1], url |-> SubSeq(rest, 1, a - 1),
                         tag |-> SubSeq(rest, a + 1, n)]

LEMMA ReadTagged ==
  ASSUME NEW line, NEW rest \in Seq(Token), rest = Tail(line), NEW n \in Nat, n = Len(rest),
         line[1] # "POST", NEW k \in 2 .. n - 1, rest[k] = "IF-NONE-MATCH"
  PROVE  \E a \in 2 .. n - 1 : rest[a] = "IF-NONE-MATCH" /\ a <= k /\ SplitAt(line, rest, n, a)
<1> DEFINE at == {i \in 2 .. n - 1 : rest[i] = "IF-NONE-MATCH"}
<1>1. ReadRequest(line) =
        IF line[1] = "POST" \/ at = {} THEN [verb |-> line[1], url |-> rest, tag |-> <<>>]
        ELSE [verb |-> line[1], url |-> SubSeq(rest, 1, Min(at) - 1),
              tag |-> SubSeq(rest, Min(at) + 1, n)]
  BY DEF ReadRequest
<1>2. k \in at
  OBVIOUS
<1>3. at \subseteq Nat
  OBVIOUS
<1>a. at # {}
  BY <1>2
<1>b. Min(at) \in at /\ \A y \in at : Min(at) <= y
  <2> HIDE DEF at
  <2> QED
    BY <1>3, <1>a, MinOf
<1>4. PICK a \in at : a = Min(at) /\ \A y \in at : a <= y
  <2> HIDE DEF at
  <2> QED
    BY <1>b
<1>5. a \in 2 .. n - 1 /\ rest[a] = "IF-NONE-MATCH" /\ a <= k
  BY <1>2, <1>4
<1>6. SplitAt(line, rest, n, a)
  BY <1>1, <1>2, <1>4 DEF SplitAt
<1>7. QED
  BY <1>5, <1>6

\* A line the server takes for a request is read as one.
LEMMA ReadIsTyped ==
  ASSUME NEW line \in Seq(Token), Valid(line)
  PROVE  ReadRequest(line) \in ReadType
<1>1. PICK n \in Nat : Len(line) = n + 1 /\ n # 0
  <2>1. PICK k \in Nat : k = Len(line) /\ k > 1
    BY LenProperties DEF Valid
  <2>2. k - 1 \in Nat /\ k - 1 # 0 /\ k = (k - 1) + 1
    BY <2>1
  <2>3. QED
    BY <2>1, <2>2
<1>2. PICK rest \in Seq(Token) : rest = Tail(line) /\ n = Len(rest)
  BY <1>1, TailWords
<1>3. line[1] \in {"GET", "POST"} /\ <<>> \in Seq(Token)
  BY DEF Valid
<1>4. CASE line[1] = "POST" \/ \A i \in 2 .. n - 1 : rest[i] # "IF-NONE-MATCH"
  <2>1. ReadRequest(line) = [verb |-> line[1], url |-> rest, tag |-> <<>>]
    BY <1>2, <1>4, ReadUntagged
  <2>2. QED
    BY <1>3, <2>1 DEF ReadType
<1>5. CASE line[1] # "POST" /\ \E i \in 2 .. n - 1 : rest[i] = "IF-NONE-MATCH"
  <2>1. PICK k \in 2 .. n - 1 : rest[k] = "IF-NONE-MATCH"
    BY <1>5
  <2>2. PICK a \in 2 .. n - 1 : SplitAt(line, rest, n, a)
    BY <1>2, <1>5, <2>1, ReadTagged
  <2>3. PICK b \in Nat, c \in Nat : b = a - 1 /\ c = a + 1 /\ c # 0 /\ b <= n
    OBVIOUS
  <2>4. SubSeq(rest, 1, b) \in Seq(Token) /\ SubSeq(rest, c, n) \in Seq(Token)
    BY <1>2, <2>3, Part
  <2>5. QED
    BY <1>3, <2>2, <2>3, <2>4 DEF ReadType, SplitAt
<1>6. QED
  BY <1>4, <1>5

\* The server is at the end of the words q when it has read a request.
AllRead(q) ==
    \A j \in Bodies(FirstLine(q), AfterLine(q)) :
        SubSeq(AfterLine(q), j + 1, Len(AfterLine(q))) = <<>>

\* No line feed in an address: its line is the whole of the request but a body.
LEMMA OneLine ==
  ASSUME NEW e, NEW verb \in {"GET", "POST"}, NEW words, NEW w \in Nat, NEW t \in Nat,
         Written(e, verb, words, w, t), w # 0, \A i \in 1 .. w : words[i] # "\n"
  PROVE  /\ LineEnd(e) = w + 2 /\ Valid(FirstLine(e))
         /\ FirstLine(e)[1] = verb /\ Tail(FirstLine(e)) = words
         /\ AllRead(e)
<1>1. /\ e \in Seq(Token) /\ words \in Seq(Token) /\ Len(words) = w /\ Len(e) = w + 2 + t
      /\ e[1] = verb /\ (\A i \in 1 .. w : e[1 + i] = words[i]) /\ e[w + 2] = "\n"
      /\ t = (IF verb = "POST" THEN 1 ELSE 0) /\ (verb = "POST" => e[w + 3] = "body")
  BY DEF Written
<1>2. PICK k \in Nat : k = LineEnd(e)
  BY <1>1, LineEnds
<1>3. w + 2 \in 1 .. Len(e)
  BY <1>1
<1>4. k # 0 /\ k <= w + 2 /\ e[k] = "\n"
  BY <1>1, <1>2, <1>3, LineEnds
<1>5. k = w + 2
  <2>1. SUFFICES ASSUME k < w + 2 PROVE FALSE
    BY <1>4
  <2>2. k = 1 \/ (k - 1 \in 1 .. w /\ 1 + (k - 1) = k)
    BY <1>4, <2>1
  <2>3. CASE k = 1
    BY <1>1, <1>4, <2>3
  <2>4. CASE k - 1 \in 1 .. w /\ 1 + (k - 1) = k
    <3>1. PICK i \in 1 .. w : 1 + i = k
      BY <2>4
    <3>2. QED
      BY <1>1, <1>4, <3>1
  <2>5. QED
    BY <2>2, <2>3, <2>4
<1>a. PICK line \in Seq(Token), after \in Seq(Token) :
        /\ line = FirstLine(e) /\ after = AfterLine(e)
        /\ Len(line) = k - 1 /\ (\A i \in 1 .. k - 1 : line[i] = e[i])
        /\ after = SubSeq(e, k + 1, Len(e))
  <2>1. e \in Seq(Token) /\ k = LineEnd(e) /\ k # 0
    BY <1>1, <1>2, <1>4
  <2>2. /\ FirstLine(e) \in Seq(Token) /\ AfterLine(e) \in Seq(Token)
        /\ Len(FirstLine(e)) = k - 1 /\ (\A i \in 1 .. k - 1 : FirstLine(e)[i] = e[i])
        /\ AfterLine(e) = SubSeq(e, k + 1, Len(e))
    BY <2>1, Lines
  <2>3. QED
    BY <2>2
<1>b. k - 1 = w + 1 /\ k + 1 = w + 3
  BY <1>5
<1>6. /\ Len(line) = w + 1 /\ (\A i \in 1 .. w + 1 : line[i] = e[i])
      /\ after = SubSeq(e, w + 3, w + 2 + t)
  BY <1>1, <1>a, <1>b
<1>7. 1 \in 1 .. w + 1 /\ w + 1 > 1
  OBVIOUS
<1>8. line[1] = verb /\ Valid(line)
  BY <1>1, <1>6, <1>7 DEF Valid
<1>9. Tail(line) = words
  <2>2. /\ Tail(line) \in Seq(Token) /\ Len(Tail(line)) = w
        /\ \A i \in 1 .. w : Tail(line)[i] = line[1 + i]
    BY <1>6, TailWords
  <2>3. \A i \in 1 .. w : 1 + i \in 1 .. w + 1
    OBVIOUS
  <2>4. \A i \in 1 .. w : Tail(line)[i] = words[i]
    BY <1>1, <1>6, <2>2, <2>3
  <2>5. QED
    BY <1>1, <2>2, <2>4, SeqEqual
<1>10. PICK a \in Nat, b \in Nat : a = w + 3 /\ b = w + 2 + t /\ a # 0 /\ b <= Len(e)
  BY <1>1
<1>11. after = SubSeq(e, a, b)
  BY <1>6, <1>10
<1>12. ASSUME NEW j \in Bodies(line, after) PROVE SubSeq(after, j + 1, Len(after)) = <<>>
  <2>1. CASE verb = "GET"
    <3>1. b < a /\ j = 0
      BY <1>1, <1>8, <1>10, <1>12, <2>1 DEF Bodies
    <3>2. after = <<>> /\ Len(after) = 0
      BY <1>1, <1>10, <1>11, <3>1, Part
    <3>3. 0 + 1 = 1 /\ 0 < 1 /\ 0 <= Len(after)
      BY <3>2
    <3>4. SubSeq(after, 1, 0) = <<>>
      BY <3>2, <3>3, Part
    <3>5. QED
      BY <3>1, <3>2, <3>3, <3>4
  <2>2. CASE verb = "POST"
    <3>1. t = 1 /\ a <= b /\ b - a + 1 = 1
      BY <1>1, <1>10, <2>2
    <3>2. Len(after) = 1 /\ \A i \in 1 .. 1 : after[i] = e[a + i - 1]
      BY <1>1, <1>10, <1>11, <3>1, Part
    <3>3. a + 1 - 1 = w + 3 /\ 1 \in 1 .. 1
      BY <1>10
    <3>4. after[1] = e[w + 3]
      BY <3>2, <3>3
    <3>5. after # <<>> /\ after[1] = "body"
      BY <1>1, <2>2, <3>2, <3>4
    <3>6. j = 1
      BY <1>8, <1>12, <2>2, <3>5 DEF Bodies
    <3>7. 1 + 1 = 2 /\ 1 < 2 /\ 2 # 0 /\ 1 <= Len(after)
      BY <3>2
    <3>8. SubSeq(after, 2, 1) = <<>>
      BY <3>7, Part
    <3>9. QED
      BY <3>2, <3>6, <3>7, <3>8
  <2>3. QED
    BY <2>1, <2>2
<1>13. AllRead(e)
  BY <1>a, <1>12 DEF AllRead
<1>14. QED
  BY <1>2, <1>5, <1>8, <1>9, <1>13, <1>a

\* The server reads the words q as the request req, and is at their end.
ReadBack(q, req) ==
    Valid(FirstLine(q)) /\ ReadRequest(FirstLine(q)) = req /\ AllRead(q)

\* The parts of a request and of what is written for it.
LEMMA RequestWords ==
  ASSUME NEW req \in Requests
  PROVE  \E verb \in {"GET", "POST"}, url \in Seq(Token), tag \in Seq(Token), e \in Seq(Token),
            w \in Nat, t \in Nat, words \in Seq(Token), l \in Nat, c \in Seq(Token) :
           /\ verb = req.verb /\ url = req.url /\ tag = req.tag /\ e = Encode(req)
           /\ req = [verb |-> verb, url |-> url, tag |-> tag]
           /\ tag = <<>> \/ \E x \in Etags : tag = <<x>>
           /\ verb = "POST" \/ url = <<>> => tag = <<>>
           /\ Written(e, verb, words, w, t) /\ c = Condition(tag) /\ WordsOf(words, url, c, l, w)
<1>1. PICK verb \in {"GET", "POST"}, url \in Seq(Token), tag \in Seq(Token) :
        /\ verb = req.verb /\ url = req.url /\ tag = req.tag
        /\ req = [verb |-> verb, url |-> url, tag |-> tag]
        /\ tag = <<>> \/ \E x \in Etags : tag = <<x>>
        /\ verb = "POST" \/ url = <<>> => tag = <<>>
  BY RequestParts
<1>2. PICK w \in Nat, t \in Nat, words \in Seq(Token), l \in Nat, c \in Seq(Token) :
        /\ Written(Encode(req), verb, words, w, t)
        /\ c = Condition(tag) /\ WordsOf(words, url, c, l, w)
  BY <1>1, EncodeWords
<1>3. PICK e \in Seq(Token) : e = Encode(req)
  BY <1>2 DEF Written
<1>4. QED
  BY <1>1, <1>2, <1>3

\* The last words of a line that announces a tag.
LEMMA TagWords ==
  ASSUME NEW url \in Seq(Token), NEW c \in Seq(Token), NEW words \in Seq(Token),
         NEW l \in Nat, NEW w \in Nat, WordsOf(words, url, c, l, w),
         NEW tag, NEW x \in Token, tag = <<x>>, c = Condition(tag)
  PROVE  w = l + 2 /\ words[l + 1] = "IF-NONE-MATCH" /\ words[l + 2] = x
<1>1. Len(c) = 2 /\ c[1] = "IF-NONE-MATCH" /\ c[2] = x
  BY ConditionWords
<1>2. w = l + 2 /\ \A i \in 1 .. 2 : words[l + i] = c[i]
  BY <1>1 DEF WordsOf
<1>3. 1 \in 1 .. 2 /\ 2 \in 1 .. 2
  OBVIOUS
<1>4. QED
  BY <1>1, <1>2, <1>3

\* The words of a request that is Plain.
LEMMA PlainReadBack ==
  ASSUME NEW req \in Requests, Plain(req)
  PROVE  LineEnd(Encode(req)) # 0 /\ ReadBack(Encode(req), req)
<1>1. PICK verb \in {"GET", "POST"}, url \in Seq(Token), tag \in Seq(Token), e \in Seq(Token),
           w \in Nat, t \in Nat, words \in Seq(Token), l \in Nat, c \in Seq(Token) :
        /\ verb = req.verb /\ url = req.url /\ tag = req.tag /\ e = Encode(req)
        /\ req = [verb |-> verb, url |-> url, tag |-> tag]
        /\ tag = <<>> \/ \E x \in Etags : tag = <<x>>
        /\ verb = "POST" \/ url = <<>> => tag = <<>>
        /\ Written(e, verb, words, w, t) /\ c = Condition(tag) /\ WordsOf(words, url, c, l, w)
  BY RequestWords
<1>2. /\ words = url \o c /\ l = Len(url) /\ w = l + Len(c) /\ Len(words) = w
      /\ \A i \in 1 .. l : words[i] = url[i]
  BY <1>1 DEF WordsOf, Written
<1>3. /\ l # 0 /\ (\A i \in 1 .. l : url[i] # "\n")
      /\ verb = "GET" => \A i \in 2 .. l : url[i] = "IF-NONE-MATCH" => i = l /\ tag = <<>>
  <2>1. DOMAIN url = 1 .. l
    BY <1>2, LenProperties
  <2>2. url # <<>>
    BY <1>1 DEF Plain
  <2>3. l # 0
    BY <1>2, <2>2, EmptySeq
  <2>4. (\A i \in DOMAIN url : url[i] # "\n") /\
        (verb = "GET" => \A i \in 2 .. l : url[i] = "IF-NONE-MATCH" => i = l /\ tag = <<>>)
    BY <1>1, <1>2 DEF Plain
  <2>5. QED
    BY <2>1, <2>3, <2>4
<1>4. CASE tag = <<>>
  <2>1. c = <<>> /\ Len(c) = 0
    BY <1>1, <1>4, ConditionWords
  <2>2. words = url /\ w = l
    BY <1>2, <2>1, ConcatEmptySeq
  <2>a. /\ Written(e, verb, url, w, t) /\ w # 0
        /\ \A i \in 1 .. w : url[i] # "\n"
    BY <1>1, <1>3, <2>2
  <2>3. PICK line : /\ line = FirstLine(e) /\ LineEnd(e) = w + 2 /\ Valid(line)
                    /\ line[1] = verb /\ Tail(line) = url /\ AllRead(e)
    BY <2>a, OneLine
  <2>4. verb = "POST" \/ \A i \in 2 .. l - 1 : url[i] # "IF-NONE-MATCH"
    <3>1. \A i \in 2 .. l - 1 : i \in 2 .. l /\ i # l
      OBVIOUS
    <3>2. QED
      BY <1>3, <3>1
  <2>5. ReadRequest(line) = [verb |-> verb, url |-> url, tag |-> <<>>]
    BY <1>2, <2>3, <2>4, ReadUntagged
  <2>6. w + 2 # 0
    OBVIOUS
  <2>7. QED
    BY <1>1, <1>4, <2>3, <2>5, <2>6 DEF ReadBack
<1>5. CASE \E x \in Etags : tag = <<x>>
  <2>1. PICK x \in Token : tag = <<x>> /\ x \notin {"IF-NONE-MATCH", "\n"}
    BY <1>5, WireAssumption DEF Token
  <2>2. w = l + 2 /\ words[l + 1] = "IF-NONE-MATCH" /\ words[l + 2] = x
    BY <1>1, <2>1, TagWords
  <2>3. tag # <<>> /\ verb = "GET" /\ w # 0
    BY <1>1, <2>1, <2>2
  <2>4. ASSUME NEW i \in 1 .. w PROVE words[i] # "\n"
    <3>1. i \in 1 .. l \/ i = l + 1 \/ i = l + 2
      BY <2>2
    <3>2. CASE i \in 1 .. l
      BY <1>2, <1>3, <3>2
    <3>3. CASE i = l + 1 \/ i = l + 2
      BY <2>1, <2>2, <3>3
    <3>4. QED
      BY <3>1, <3>2, <3>3
  <2>5. PICK line : /\ line = FirstLine(e) /\ LineEnd(e) = w + 2 /\ Valid(line)
                    /\ line[1] = verb /\ Tail(line) = words /\ AllRead(e)
    BY <1>1, <2>3, <2>4, OneLine
  <2>6. PICK k \in 2 .. w - 1 : k = l + 1 /\ words[k] = "IF-NONE-MATCH"
    <3>1. l + 1 \in 2 .. w - 1
      BY <1>3, <2>2
    <3>2. QED
      BY <2>2, <3>1
  <2>7. line[1] # "POST"
    BY <2>3, <2>5
  <2>8. PICK a \in 2 .. w - 1 :
          words[a] = "IF-NONE-MATCH" /\ a <= k /\ SplitAt(line, words, w, a)
    BY <1>2, <2>5, <2>6, <2>7, ReadTagged
  <2>9. a = l + 1
    <3>1. ASSUME NEW i \in 2 .. l PROVE words[i] # "IF-NONE-MATCH"
      <4>1. i \in 1 .. l
        OBVIOUS
      <4>2. QED
        BY <1>2, <1>3, <2>3, <4>1
    <3>2. a \in 2 .. l \/ a = l + 1
      BY <2>6, <2>8
    <3>3. QED
      BY <2>8, <3>1, <3>2
  <2>10. a - 1 = l /\ a + 1 = l + 2 /\ l <= w
    BY <2>2, <2>9
  <2>11. SubSeq(words, 1, l) = url
    <3>1. /\ SubSeq(words, 1, l) \in Seq(Token) /\ Len(SubSeq(words, 1, l)) = l - 1 + 1
          /\ \A i \in 1 .. l - 1 + 1 : SubSeq(words, 1, l)[i] = words[1 + i - 1]
      <4>1. 1 <= l
        BY <1>3
      <4>2. QED
        BY <1>2, <2>10, <4>1, Part
    <3>2. l - 1 + 1 = l /\ \A i \in 1 .. l : 1 + i - 1 = i
      OBVIOUS
    <3>3. Len(SubSeq(words, 1, l)) = l /\ \A i \in 1 .. l : SubSeq(words, 1, l)[i] = url[i]
      BY <1>2, <3>1, <3>2
    <3>4. QED
      BY <1>2, <3>1, <3>3, SeqEqual
  <2>12. SubSeq(words, l + 2, w) = <<x>>
    <3>1. PICK z \in Nat : z = l + 2 /\ z = w /\ z # 0 /\ z <= Len(words) /\ z - z + 1 = 1 /\ z + 1 - 1 = z
      BY <1>2, <2>2
    <3>2. /\ SubSeq(words, z, z) \in Seq(Token) /\ Len(SubSeq(words, z, z)) = 1
          /\ \A i \in 1 .. 1 : SubSeq(words, z, z)[i] = words[z + i - 1]
      BY <3>1, Part
    <3>3. SubSeq(words, z, z)[1] = x
      BY <2>2, <3>1, <3>2
    <3>4. <<x>> \in Seq(Token) /\ Len(<<x>>) = 1 /\ <<x>>[1] = x
      OBVIOUS
    <3>5. \A i \in 1 .. 1 : SubSeq(words, z, z)[i] = <<x>>[i]
      BY <3>3, <3>4
    <3>6. SubSeq(words, z, z) = <<x>>
      BY <3>2, <3>4, <3>5, SeqEqual
    <3>7. QED
      BY <3>1, <3>6
  <2>13. ReadRequest(line) = [verb |-> verb, url |-> url, tag |-> tag]
    BY <2>1, <2>5, <2>8, <2>10, <2>11, <2>12 DEF SplitAt
  <2>14. w + 2 # 0
    OBVIOUS
  <2>15. QED
    BY <1>1, <2>5, <2>13, <2>14 DEF ReadBack
<1>6. QED
  BY <1>1, <1>4, <1>5

\* read_request makes of the words of a request what Request::encode was given,
\* and is at their end, if the request is Plain, and only then: with a line feed,
\* an early announcement of a tag or nothing but blanks in its address the server
\* reads something else (protocol.rs:54-82, main.rs:474-525, proxy.rs:316-335).
THEOREM RequestRoundTrip ==
  ASSUME NEW req \in Requests
  PROVE  Plain(req) <=> ReadBack(Encode(req), req)
<1>1. Plain(req) => ReadBack(Encode(req), req)
  BY PlainReadBack
<1>2. ASSUME Valid(FirstLine(Encode(req))), ReadRequest(FirstLine(Encode(req))) = req
      PROVE  Plain(req)
  <2>1. PICK verb \in {"GET", "POST"}, url \in Seq(Token), tag \in Seq(Token), e \in Seq(Token),
             w \in Nat, t \in Nat, words \in Seq(Token), l \in Nat, c \in Seq(Token) :
          /\ verb = req.verb /\ url = req.url /\ tag = req.tag /\ e = Encode(req)
          /\ req = [verb |-> verb, url |-> url, tag |-> tag]
          /\ tag = <<>> \/ \E x \in Etags : tag = <<x>>
          /\ verb = "POST" \/ url = <<>> => tag = <<>>
          /\ Written(e, verb, words, w, t) /\ c = Condition(tag) /\ WordsOf(words, url, c, l, w)
    BY RequestWords
  <2>2. l = Len(url) /\ w = l + Len(c) /\ \A i \in 1 .. l : words[i] = url[i]
    BY <2>1 DEF WordsOf
  <2>3. /\ Len(e) = w + 2 + t /\ e[1] = verb /\ e[w + 2] = "\n" /\ t \in Nat
        /\ Len(words) = w /\ (\A i \in 1 .. w : e[1 + i] = words[i])
    BY <2>1 DEF Written
  <2>4. PICK k \in Nat : k = LineEnd(e)
    BY LineEnds
  <2>5. k # 0 /\ k <= w + 2
    <3>1. w + 2 \in 1 .. Len(e)
      BY <2>3
    <3>2. QED
      BY <2>3, <2>4, <3>1, LineEnds
  <2>6. PICK line \in Seq(Token) :
          /\ line = FirstLine(e) /\ Len(line) = k - 1 /\ \A i \in 1 .. k - 1 : line[i] = e[i]
    BY <2>4, <2>5, Lines
  <2>7. PICK n \in Nat : n = k - 2 /\ n # 0 /\ k - 1 = n + 1 /\ n <= w
    <3>1. k - 1 > 1
      BY <1>2, <2>1, <2>6 DEF Valid
    <3>2. QED
      BY <2>5, <3>1
  <2>a. Len(line) = n + 1
    BY <2>6, <2>7
  <2>8. PICK rest \in Seq(Token) :
          rest = Tail(line) /\ Len(rest) = n /\ \A i \in 1 .. n : rest[i] = line[1 + i]
    BY <2>7, <2>a, TailWords
  <2>9. \A i \in 1 .. n : rest[i] = words[i]
    <3> TAKE i \in 1 .. n
    <3>1. 1 + i \in 1 .. k - 1 /\ i \in 1 .. w
      BY <2>7
    <3>2. QED
      BY <2>3, <2>6, <2>8, <3>1
  \* The address is not longer than what is on the line.
  <2>10. ReadRequest(line) = req
    BY <1>2, <2>1, <2>6
  <2>11. line[1] = verb
    <3>1. 1 \in 1 .. k - 1
      BY <2>7
    <3>2. QED
      BY <2>3, <2>6, <3>1
  <2>12. url = rest \/ \E a \in 2 .. n - 1 : Len(url) = a - 1
    <3>1. CASE line[1] = "POST" \/ \A i \in 2 .. n - 1 : rest[i] # "IF-NONE-MATCH"
      <4>1. ReadRequest(line) = [verb |-> line[1], url |-> rest, tag |-> <<>>]
        BY <2>8, <3>1, ReadUntagged
      <4>2. QED
        BY <2>1, <2>10, <4>1
    <3>2. CASE line[1] # "POST" /\ \E i \in 2 .. n - 1 : rest[i] = "IF-NONE-MATCH"
      <4>0. PICK j \in 2 .. n - 1 : rest[j] = "IF-NONE-MATCH"
        BY <3>2
      <4>1. PICK a \in 2 .. n - 1 : SplitAt(line, rest, n, a)
        BY <2>8, <3>2, <4>0, ReadTagged
      <4>2. url = SubSeq(rest, 1, a - 1)
        BY <2>1, <2>10, <4>1 DEF SplitAt
      <4>3. PICK b \in Nat : b = a - 1 /\ 1 <= b /\ b <= n /\ b - 1 + 1 = b
        OBVIOUS
      <4>4. Len(SubSeq(rest, 1, b)) = b
        BY <2>8, <4>3, Part
      <4>5. QED
        BY <4>2, <4>3, <4>4
    <3>3. QED
      BY <3>1, <3>2
  <2>13. l <= n /\ l # 0
    <3>1. l <= n
      <4>1. CASE url = rest
        BY <2>2, <2>8, <4>1
      <4>2. CASE \E a \in 2 .. n - 1 : Len(url) = a - 1
        BY <2>2, <4>2
      <4>3. QED
        BY <2>12, <4>1, <4>2
    <3>2. ASSUME l = 0 PROVE FALSE
      <4>1. url = <<>> /\ tag = <<>>
        BY <2>1, <2>2, <3>2, EmptySeq
      <4>2. Len(c) = 0
        <5>1. c = <<>>
          BY <2>1, <4>1, ConditionWords
        <5>2. QED
          BY <5>1
      <4>3. QED
        BY <2>2, <2>7, <3>2, <4>2
    <3>3. QED
      BY <3>1, <3>2
  <2>14. \A i \in 1 .. l : url[i] # "\n"
    <3>1. SUFFICES ASSUME NEW i \in 1 .. l, url[i] = "\n" PROVE FALSE
      OBVIOUS
    <3>2. i \in 1 .. w /\ 1 + i \in 1 .. Len(e)
      BY <2>3, <2>7, <2>13
    <3>3. e[1 + i] = "\n"
      BY <2>2, <2>3, <3>1, <3>2
    <3>4. k <= 1 + i
      BY <2>4, <3>2, <3>3, LineEnds
    <3>5. QED
      BY <2>7, <2>13, <3>4
  <2>15. ASSUME verb = "GET", NEW i \in 2 .. l, url[i] = "IF-NONE-MATCH"
         PROVE  i = l /\ tag = <<>>
    <3>1. SUFFICES ASSUME i < l \/ tag # <<>> PROVE FALSE
      BY <2>15
    <3>2. i < n
      <4>1. CASE i < l
        BY <2>13, <4>1
      <4>2. CASE tag # <<>>
        <5>1. PICK x \in Token : tag = <<x>> /\ x # "\n"
          BY <2>1, <4>2, WireAssumption DEF Token
        <5>3. w = l + 2 /\ words[l + 1] = "IF-NONE-MATCH" /\ words[l + 2] = x
          <6>1. c = Condition(tag) /\ WordsOf(words, url, c, l, w)
            BY <2>1
          <6>2. QED
            BY <5>1, <6>1, TagWords
        <5>4. ASSUME NEW j \in 1 .. w PROVE words[j] # "\n"
          <6>1. j \in 1 .. l \/ j = l + 1 \/ j = l + 2
            BY <5>3
          <6>2. CASE j \in 1 .. l
            BY <2>2, <2>14, <6>2
          <6>3. CASE j = l + 1 \/ j = l + 2
            BY <5>1, <5>3, <6>3
          <6>4. QED
            BY <6>1, <6>2, <6>3
        <5>5. w # 0
          BY <5>3
        <5>6. LineEnd(e) = w + 2
          BY <2>1, <5>4, <5>5, OneLine
        <5>7. QED
          BY <2>4, <2>7, <5>3, <5>6
      <4>3. QED
        BY <3>1, <4>1, <4>2
    <3>3. i \in 2 .. n - 1 /\ i \in 1 .. n /\ i \in 1 .. l
      BY <3>2
    <3>4. rest[i] = "IF-NONE-MATCH" /\ line[1] # "POST"
      BY <2>2, <2>9, <2>11, <2>15, <3>3
    <3>5. PICK a \in 2 .. n - 1 : a <= i /\ SplitAt(line, rest, n, a)
      BY <2>8, <3>3, <3>4, ReadTagged
    <3>6. url = SubSeq(rest, 1, a - 1)
      BY <2>1, <2>10, <3>5 DEF SplitAt
    <3>7. PICK b \in Nat : b = a - 1 /\ 1 <= b /\ b <= n /\ b - 1 + 1 = b
      OBVIOUS
    <3>8. Len(SubSeq(rest, 1, b)) = b
      BY <2>8, <3>7, Part
    <3>9. QED
      BY <2>2, <3>3, <3>5, <3>6, <3>7, <3>8
  <2>16. DOMAIN url = 1 .. l /\ url # <<>>
    <3>1. DOMAIN url = 1 .. l
      BY <2>2, LenProperties
    <3>2. QED
      BY <2>2, <2>13, <3>1
  <2>17. QED
    BY <2>1, <2>2, <2>14, <2>15, <2>16 DEF Plain
<1>3. QED
  BY <1>1, <1>2 DEF ReadBack

-----------------------------------------------------------------------------
(* Steps.                                                                  *)

\* The stream, when something is added to the link.
LEMMA StreamGrows ==
  ASSUME WireType, NEW r \in Seq(Unit), link' = link \o r, UNCHANGED <<data, pc>>
  PROVE  Stream' = Stream \o r /\ Stream \in Seq(Unit)
<1>1. link \in Seq(Unit) /\ data \in Seq(Unit)
  BY DEF WireType
<1>2. (data \o link) \o r = data \o (link \o r) /\ data \o link \in Seq(Unit)
  <2>1. PICK d \in Seq(Unit), l \in Seq(Unit) : d = data /\ l = link
    BY <1>1
  <2>2. d \o l \in Seq(Unit)
    BY ConcatProperties
  <2>3. (d \o l) \o r = d \o (l \o r)
    BY Regroup
  <2>4. QED
    BY <2>1, <2>2, <2>3
<1>3. QED
  BY <1>1, <1>2 DEF Stream

\* The server answers a request it has read.
Answering ==
    \E a \in Response, r \in Seq(Unit), l \in Nat :
      /\ sent' = Append(sent, a) /\ link' = link \o r
      /\ a.payload \in Seq({"RE", "SP", "b64"}) /\ l = Len(a.payload)
      /\ Response5(r, Len(sent) + 1, a.payload, l)
      /\ a.req = ReadRequest(FirstLine(uplink)) /\ eol \in {"lf", "cr", "crlf"}
      /\ LineEnd(uplink) # 0 /\ uplink' \in Seq(Token)
      /\ \E j \in Bodies(FirstLine(uplink), AfterLine(uplink)) :
           uplink' = SubSeq(AfterLine(uplink), j + 1, Len(AfterLine(uplink)))
      /\ UNCHANGED <<eol, asked, up, data, frame, pc, page, late>>

\* Something else is written on the link, and the session may be over.
Speaking ==
    \E r \in Seq(Unit) : /\ link' = link \o r /\ Fields(r) = {}
                         /\ UNCHANGED <<eol, asked, sent, data, frame, pc, page, late>>
                         /\ UNCHANGED <<up, uplink>> \/ (up' = FALSE /\ uplink' = <<>>)

LEMMA SpokenText ==
  ASSUME WireType, NEW k \in {"text", "dead"}, link' = Append(link, <<k, 0>>)
  PROVE  \E r \in Seq(Unit) : link' = link \o r /\ Fields(r) = {}
<1>1. PICK u \in Unit : u = <<k, 0>>
  BY DEF Unit
<1>2. <<u>> \in Seq(Unit) /\ DOMAIN <<u>> = {1} /\ <<u>>[1] = u
  OBVIOUS
<1>3. Append(link, u) = link \o <<u>>
  BY AppendIsConcat DEF WireType
<1>4. u[1] # "fields"
  BY <1>1
<1>5. Fields(<<u>>) = {}
  BY <1>2, <1>4 DEF Fields
<1>6. QED
  BY <1>1, <1>2, <1>3, <1>5

LEMMA NodeTextStep == ASSUME WireType, NodeText PROVE Speaking
<1>1. PICK k \in {"text", "dead"} : link' = Append(link, <<k, 0>>)
  BY DEF NodeText, SessionEnds
<1>2. PICK r \in Seq(Unit) : link' = link \o r /\ Fields(r) = {}
  BY <1>1, SpokenText
<1>3. QED
  BY <1>2 DEF NodeText, SessionEnds, Speaking

LEMMA RespondStep ==
  ASSUME WireType, NEW req \in ReadType, Respond(req)
  PROVE  \E a \in Response, r \in Seq(Unit), l \in Nat :
           /\ sent' = Append(sent, a) /\ link' = link \o r /\ a.req = req
           /\ a.payload \in Seq({"RE", "SP", "b64"}) /\ l = Len(a.payload)
           /\ Response5(r, Len(sent) + 1, a.payload, l) /\ eol \in {"lf", "cr", "crlf"}
<1>1. PICK body \in Payloads \cup {<<>>} :
        /\ sent' = Append(sent, [req |-> req, payload |-> body])
        /\ link' = link \o EncodeResponse(Len(sent) + 1, body)
  BY DEF Respond
<1>2. PICK a \in Response : a = [req |-> req, payload |-> body]
  BY DEF Response
<1>3. body \in Seq({"RE", "SP", "b64"})
  <2>1. <<>> \in Seq({"RE", "SP", "b64"})
    OBVIOUS
  <2>2. QED
    BY <2>1, WireAssumption
<1>4. eol \in {"lf", "cr", "crlf"} /\ Len(sent) + 1 \in Nat
  BY WireAssumption, LenProperties DEF WireType
<1>5. PICK n \in Nat : n = Len(sent) + 1
  BY <1>4
<1>6. PICK r \in Seq(Unit), l \in Nat :
        r = EncodeResponse(n, body) /\ l = Len(body) /\ Response5(r, n, body, l)
  BY <1>3, <1>4, ResponseUnits
<1>7. a.payload = body /\ a.req = req
  BY <1>2
<1>8. sent' = Append(sent, a) /\ link' = link \o r
  BY <1>1, <1>2, <1>5, <1>6
<1>9. QED
  BY <1>3, <1>4, <1>5, <1>6, <1>7, <1>8

LEMMA ServeStep == ASSUME WireType, Serve PROVE Answering \/ Speaking
<1>1. PICK q \in Seq(Token) : q = uplink
  BY DEF WireType
<1>2. PICK k \in Nat : k = LineEnd(q) /\ k # 0
  BY <1>1, LineEnds DEF Serve
<1>3. PICK line \in Seq(Token), rest \in Seq(Token) : line = FirstLine(q) /\ rest = AfterLine(q)
  BY <1>2, Lines
<1>4. \/ /\ Valid(line) /\ Respond(ReadRequest(line)) /\ UNCHANGED up
         /\ \E j \in Bodies(line, rest) : uplink' = SubSeq(rest, j + 1, Len(rest))
      \/ SessionEnds /\ UNCHANGED sent
  BY <1>1, <1>3 DEF Serve
<1>5. UNCHANGED <<eol, asked, data, frame, pc, page, late>>
  BY DEF Serve
<1>6. CASE SessionEnds /\ UNCHANGED sent
  <2>1. PICK r \in Seq(Unit) : link' = link \o r /\ Fields(r) = {}
    BY <1>6, SpokenText DEF SessionEnds
  <2>2. QED
    BY <1>5, <1>6, <2>1 DEF SessionEnds, Speaking
<1>7. CASE /\ Valid(line) /\ Respond(ReadRequest(line)) /\ UNCHANGED up
           /\ \E j \in Bodies(line, rest) : uplink' = SubSeq(rest, j + 1, Len(rest))
  <2>1. PICK req \in ReadType : req = ReadRequest(line)
    BY <1>7, ReadIsTyped
  <2>2. PICK a \in Response, r \in Seq(Unit), l \in Nat :
           /\ sent' = Append(sent, a) /\ link' = link \o r /\ a.req = req
           /\ a.payload \in Seq({"RE", "SP", "b64"}) /\ l = Len(a.payload)
           /\ Response5(r, Len(sent) + 1, a.payload, l) /\ eol \in {"lf", "cr", "crlf"}
    BY <1>7, <2>1, RespondStep
  <2>3. PICK n \in Nat : n = Len(rest)
    BY LenProperties
  <2>a. \A j \in Bodies(line, rest) : j \in Nat
    <3>1. Bodies(line, rest) \in {{0}, {1}, 1 .. n}
      BY <2>3 DEF Bodies
    <3>2. \A j \in 1 .. n : j \in Nat
      OBVIOUS
    <3>3. QED
      BY <3>1, <3>2
  <2>4. PICK j \in Nat : uplink' = SubSeq(rest, j + 1, Len(rest)) /\ j \in Bodies(line, rest)
    BY <1>7, <2>a
  <2>5. PICK b \in Nat : b = j + 1 /\ b # 0
    OBVIOUS
  <2>6. uplink' \in Seq(Token)
    BY <2>3, <2>4, <2>5, Part
  <2>7. a.req = ReadRequest(FirstLine(uplink))
    BY <1>1, <1>3, <2>1, <2>2
  <2>8. LineEnd(uplink) # 0 /\ \E i \in Bodies(FirstLine(uplink), AfterLine(uplink)) :
           uplink' = SubSeq(AfterLine(uplink), i + 1, Len(AfterLine(uplink)))
    BY <1>1, <1>2, <1>3, <2>4
  <2>9. QED
    BY <1>5, <1>7, <2>2, <2>6, <2>7, <2>8 DEF Answering
<1>8. QED
  BY <1>4, <1>6, <1>7

\* What is left of the link after a reconnect is its end, or nothing.
LEMMA ReconnectStep ==
  ASSUME WireType, Reconnect
  PROVE  /\ link' \in Seq(Unit)
         /\ \E q \in Seq(Unit) : link = q \o link'
<1>1. PICK l \in Seq(Unit) : l = link
  BY DEF WireType
<1>2. <<>> \in Seq(Unit) /\ l \o <<>> = l /\ <<>> \o l = l
  BY ConcatEmptySeq
<1>3. link' = <<>> \/ \E k \in 0 .. Len(l) : link' = SubSeq(l, k + 1, Len(l))
  BY <1>1 DEF Reconnect
<1>4. CASE link' = <<>>
  BY <1>1, <1>2, <1>4
<1>5. ASSUME NEW k \in 1 .. Len(l), link' = SubSeq(l, k + 1, Len(l))
      PROVE  link' \in Seq(Unit) /\ \E q \in Seq(Unit) : link = q \o link'
  BY <1>1, <1>5, Split
<1>6. CASE link' = SubSeq(l, 0 + 1, Len(l))
  <2>1. PICK n \in Nat : n = Len(l) /\ n - 1 + 1 = n /\ (~(1 <= n) => n = 0)
    BY LenProperties
  <2>2. SubSeq(l, 1, n) = l
    <3>1. CASE n = 0
      <4>a. n < 1
        BY <3>1
      <4>b. l = <<>>
        BY <2>1, <3>1, EmptySeq
      <4>1. l = <<>> /\ n < 1
        BY <4>a, <4>b
      <4>2. QED
        BY <2>1, <4>1, Part
    <3>2. CASE 1 <= n
      <4>1. /\ SubSeq(l, 1, n) \in Seq(Unit) /\ Len(SubSeq(l, 1, n)) = n
            /\ \A i \in 1 .. n : SubSeq(l, 1, n)[i] = l[1 + i - 1]
        BY <2>1, <3>2, Part
      <4>2. \A i \in 1 .. n : 1 + i - 1 = i
        OBVIOUS
      <4>3. \A i \in 1 .. n : SubSeq(l, 1, n)[i] = l[i]
        BY <4>1, <4>2
      <4>4. QED
        BY <2>1, <4>1, <4>3, SeqEqual
    <3>3. QED
      BY <2>1, <3>1, <3>2
  <2>3. 0 + 1 = 1
    OBVIOUS
  <2>4. QED
    BY <1>1, <1>2, <1>6, <2>1, <2>2, <2>3
<1>7. QED
  <2>1. PICK n \in Nat : n = Len(l)
    BY LenProperties
  <2>2. \A k \in 0 .. n : k = 0 \/ k \in 1 .. n
    OBVIOUS
  <2>3. QED
    BY <1>3, <1>4, <1>5, <1>6, <2>1, <2>2

\* The kinds of steps.
LEMMA Steps ==
  ASSUME WireType, Next
  PROVE  /\ Ask \/ Answering \/ Speaking \/ Receive \/ TimesOut \/ Reconnect
         /\ UNCHANGED eol
<1>1. UNCHANGED eol
  BY DEF Next, Ask, Serve, NodeText, Receive, TimesOut, Reconnect
<1>2. QED
  BY <1>1, ServeStep, NodeTextStep DEF Next

\* A piece is received: the request is given up, reads on, or is answered.
Stops == late' = TRUE /\ pc' \in {"died", "failed"} /\ UNCHANGED <<data, frame, page>>
ReadsOn(all) ==
    /\ data' = all /\ pc' = "wait" /\ UNCHANGED <<page, late>>
    /\ \/ HeaderIn(all, sent).st = "none" /\ frame' = None
       \/ /\ HeaderIn(all, sent).st = "ok" /\ frame' = HeaderIn(all, sent)
          /\ Len(all) < HeaderIn(all, sent).end + HeaderIn(all, sent).len
Done(all) ==
    /\ data' = all /\ pc' = "done" /\ UNCHANGED late /\ page' = Dispatch(all)
    /\ HeaderIn(all, sent).st = "ok"
    /\ Len(all) >= HeaderIn(all, sent).end + HeaderIn(all, sent).len

LEMMA TakeStep ==
  ASSUME data \in Seq(Unit), NEW chunk \in Seq(Unit), Reading, pc = "wait", Take(chunk)
  PROVE  Stops \/ ReadsOn(data \o chunk) \/ Done(data \o chunk)
<1> DEFINE all == data \o chunk
           h   == IF frame = None THEN DecodeHeader(all) ELSE frame
<1>1. h = HeaderIn(all, sent)
  <2>1. CASE frame = None
    BY <2>1, DecodeIsHeader
  <2>2. CASE frame # None
    <3>1. frame = HeaderIn(data, sent) /\ HeaderIn(data, sent).st = "ok"
      BY <2>2, DecodeIsHeader DEF Reading
    <3>2. QED
      BY <2>2, <3>1, HeaderExtends
  <2>3. QED
    BY <2>1, <2>2
<1>2. \/ GiveUp("failed") \/ GiveUp("died")
      \/ /\ h.st = "none" \/ (h.st = "ok" /\ Len(all) < h.end + h.len)
         /\ data' = all /\ frame' = IF h.st = "ok" THEN h ELSE None
         /\ UNCHANGED <<pc, page, late>>
      \/ /\ h.st = "ok" /\ Len(all) >= h.end + h.len
         /\ data' = all /\ frame' = h /\ pc' = "done" /\ page' = Dispatch(all)
         /\ UNCHANGED late
  BY DEF Take
<1> HIDE DEF h, all
<1>3. CASE GiveUp("failed") \/ GiveUp("died")
  BY <1>3 DEF GiveUp, Stops
<1>4. CASE /\ h.st = "none" \/ (h.st = "ok" /\ Len(all) < h.end + h.len)
           /\ data' = all /\ frame' = IF h.st = "ok" THEN h ELSE None
           /\ UNCHANGED <<pc, page, late>>
  <2>1. ReadsOn(all)
    BY <1>1, <1>4 DEF ReadsOn
  <2>2. QED
    BY <2>1 DEF all
<1>5. CASE /\ h.st = "ok" /\ Len(all) >= h.end + h.len
           /\ data' = all /\ frame' = h /\ pc' = "done" /\ page' = Dispatch(all)
           /\ UNCHANGED late
  <2>1. Done(all)
    BY <1>1, <1>5 DEF Done
  <2>2. QED
    BY <2>1 DEF all
<1>6. QED
  BY <1>2, <1>3, <1>4, <1>5

LEMMA ReceiveStep ==
  ASSUME WireType, Reading, Receive
  PROVE  \E all \in Seq(Unit) : /\ link' \in Seq(Unit) /\ Stream = all \o link'
                                /\ Stops \/ ReadsOn(all) \/ Done(all)
<1>1. PICK k \in 1 .. Len(link) : /\ Take(SubSeq(link, 1, k))
                                  /\ link' = SubSeq(link, k + 1, Len(link))
  BY DEF Receive
<1>2. link \in Seq(Unit) /\ data \in Seq(Unit) /\ pc = "wait"
  BY DEF WireType, Receive
<1>3. PICK chunk \in Seq(Unit) : chunk = SubSeq(link, 1, k) /\ chunk \o link' = link
                                 /\ link' \in Seq(Unit)
  BY <1>1, <1>2, Split
<1>4. Stops \/ ReadsOn(data \o chunk) \/ Done(data \o chunk)
  BY <1>1, <1>2, <1>3, TakeStep
<1>5. data \o chunk \in Seq(Unit) /\ (data \o chunk) \o link' = data \o (chunk \o link')
  <2>1. PICK d \in Seq(Unit), l \in Seq(Unit) : d = data /\ l = link'
    BY <1>2, <1>3
  <2>2. d \o chunk \in Seq(Unit)
    BY ConcatProperties
  <2>3. (d \o chunk) \o l = d \o (chunk \o l)
    BY Regroup
  <2>4. QED
    BY <2>1, <2>2, <2>3
<1>6. Stream = (data \o chunk) \o link'
  BY <1>2, <1>3, <1>5 DEF Stream
<1>7. QED
  BY <1>3, <1>4, <1>5, <1>6
-----------------------------------------------------------------------------
(* The invariant is preserved, part by part.                               *)

LEMMA EmptyUnits == <<>> \in Seq(Unit) /\ Fields(<<>>) = {} /\ \A s : Intact(<<>>, s)
  BY DEF Fields, Intact

LEMMA TypePreserved ==
  ASSUME WireType, Reading, Next
  PROVE  WireType'
<1>0. /\ eol \in Eols /\ asked \in Seq(Requests) /\ uplink \in Seq(Token)
      /\ sent \in Seq(Response) /\ link \in Seq(Unit) /\ data \in Seq(Unit)
      /\ <<>> \in Seq(Token) /\ <<>> \in Seq(Unit)
  BY DEF WireType
<1>1. CASE Ask
  <2>1. PICK req \in Requests : /\ asked' = Append(asked, req)
                                /\ uplink' = IF up THEN uplink \o Encode(req) ELSE uplink
    BY <1>1 DEF Ask
  <2>2. PICK e \in Seq(Token) : e = Encode(req)
    BY EncodeWords DEF Written
  <2>3. asked' \in Seq(Requests)
    BY <1>0, <2>1, AppendProperties
  <2>4. uplink' \in Seq(Token)
    BY <1>0, <2>1, <2>2, ConcatProperties
  <2>5. QED
    BY <1>0, <1>1, <2>3, <2>4 DEF Ask, WireType
<1>2. CASE Answering
  <2>1. PICK a \in Response, r \in Seq(Unit) : sent' = Append(sent, a) /\ link' = link \o r
    BY <1>2 DEF Answering
  <2>2. sent' \in Seq(Response) /\ link' \in Seq(Unit)
    BY <1>0, <2>1, AppendProperties, ConcatProperties
  <2>3. uplink' \in Seq(Token) /\ UNCHANGED <<eol, asked, data>>
    BY <1>2 DEF Answering
  <2>4. QED
    BY <1>0, <2>2, <2>3 DEF WireType
<1>3. CASE Speaking
  <2>1. PICK r \in Seq(Unit) : /\ link' = link \o r /\ UNCHANGED <<eol, asked, sent, data>>
                               /\ uplink' \in {uplink, <<>>}
    BY <1>3 DEF Speaking
  <2>2. link' \in Seq(Unit)
    BY <1>0, <2>1, ConcatProperties
  <2>3. QED
    BY <1>0, <2>1, <2>2 DEF WireType
<1>4. CASE Receive
  <2>1. PICK all \in Seq(Unit) : link' \in Seq(Unit) /\ (Stops \/ ReadsOn(all) \/ Done(all))
    BY <1>4, ReceiveStep
  <2>2. data' \in Seq(Unit)
    BY <1>0, <2>1 DEF Stops, ReadsOn, Done
  <2>3. QED
    BY <1>0, <1>4, <2>1, <2>2 DEF Receive, WireType
<1>5. CASE TimesOut
  BY <1>0, <1>5 DEF TimesOut, GiveUp, WireType
<1>6. CASE Reconnect
  <2>1. link' \in Seq(Unit)
    BY <1>6, ReconnectStep
  <2>2. QED
    BY <1>0, <1>6, <2>1 DEF Reconnect, WireType
<1>7. QED
  BY <1>1, <1>2, <1>3, <1>4, <1>5, <1>6, Steps

\* The steps that take nothing from the stream and add nothing to it.
LEMMA StreamStays ==
  ASSUME WireType
  PROVE  /\ Ask => Stream' = Stream /\ Stream = link
         /\ TimesOut => Stream = data \o link /\ Stream' = link
         /\ Reconnect => Stream = link /\ Stream' = link'
<1>1. link \in Seq(Unit) /\ <<>> \o link = link
  BY ConcatEmptySeq DEF WireType
<1>2. Ask => Stream' = Stream /\ Stream = link
  BY <1>1 DEF Ask, Stream
<1>3. TimesOut => Stream = data \o link /\ Stream' = link
  BY DEF TimesOut, GiveUp, Stream
<1>4. Reconnect => Stream = link /\ Stream' = link'
  BY DEF Reconnect, Stream
<1>5. QED
  BY <1>2, <1>3, <1>4

LEMMA IntactPreserved ==
  ASSUME WireType, Intact(Stream, sent), Reading, Next
  PROVE  Intact(Stream', sent')
<1>0. sent \in Seq(Response) /\ link \in Seq(Unit) /\ data \in Seq(Unit)
  BY DEF WireType
<1>1. CASE Ask
  BY <1>1, StreamStays DEF Ask
<1>2. CASE Answering
  <2>1. PICK a \in Response, r \in Seq(Unit), l \in Nat :
           /\ sent' = Append(sent, a) /\ link' = link \o r
           /\ a.payload \in Seq({"RE", "SP", "b64"}) /\ l = Len(a.payload)
           /\ Response5(r, Len(sent) + 1, a.payload, l) /\ eol \in {"lf", "cr", "crlf"}
    BY <1>2 DEF Answering
  <2>2. Stream' = Stream \o r /\ Stream \in Seq(Unit)
    BY <1>2, <2>1, StreamGrows DEF Answering
  <2>3. Intact(r, Append(sent, a))
    BY <1>0, <2>1, ResponseIntact
  <2>4. Intact(Stream, Append(sent, a)) /\ Append(sent, a) \in Seq(Response)
    BY <1>0, <2>2, IntactSent, AppendProperties
  <2>5. Intact(Stream \o r, Append(sent, a))
    BY <2>2, <2>3, <2>4, IntactConcat
  <2>6. QED
    BY <2>1, <2>2, <2>5
<1>3. CASE Speaking
  <2>1. PICK r \in Seq(Unit) : /\ link' = link \o r /\ Fields(r) = {} /\ UNCHANGED <<sent, data, pc>>
    BY <1>3 DEF Speaking
  <2>2. Stream' = Stream \o r /\ Stream \in Seq(Unit)
    BY <2>1, StreamGrows
  <2>3. Intact(r, sent)
    BY <2>1 DEF Intact, Fields
  <2>4. QED
    BY <1>0, <2>1, <2>2, <2>3, IntactConcat
<1>4. CASE Receive
  <2>1. PICK all \in Seq(Unit) : /\ link' \in Seq(Unit) /\ Stream = all \o link'
                                 /\ Stops \/ ReadsOn(all) \/ Done(all)
    BY <1>4, ReceiveStep
  <2>2. UNCHANGED sent
    BY <1>4 DEF Receive
  <2>3. CASE ReadsOn(all)
    BY <2>1, <2>2, <2>3 DEF ReadsOn, Stream
  <2>4. CASE Stops \/ Done(all)
    <3>1. Stream' = link'
      BY <2>4 DEF Stops, Done, Stream
    <3>2. QED
      BY <1>0, <2>1, <2>2, <3>1, IntactRight
  <2>5. QED
    BY <2>1, <2>3, <2>4
<1>5. CASE TimesOut
  <2>1. Stream = data \o link /\ Stream' = link /\ UNCHANGED sent
    BY <1>5, StreamStays DEF TimesOut
  <2>2. QED
    BY <1>0, <2>1, IntactRight
<1>6. CASE Reconnect
  <2>1. PICK q \in Seq(Unit) : Stream = q \o link' /\ Stream' = link' /\ link' \in Seq(Unit)
    BY <1>6, StreamStays, ReconnectStep
  <2>2. UNCHANGED sent
    BY <1>6 DEF Reconnect
  <2>3. QED
    BY <1>0, <2>1, <2>2, IntactRight
<1>7. QED
  BY <1>1, <1>2, <1>3, <1>4, <1>5, <1>6, Steps

\* The next response does not change what a header says.
LEMMA HeaderSent ==
  ASSUME NEW d \in Seq(Unit), NEW s \in Seq(Response), NEW a \in Response,
         \A i \in Fields(d) : d[i][2] \in DOMAIN s
  PROVE  HeaderIn(d, Append(s, a)) = HeaderIn(d, s)
<1>1. /\ DOMAIN s = 1 .. Len(s) /\ Len(s) \in Nat
      /\ \A n \in DOMAIN s : Append(s, a)[n] = s[n]
  BY LenProperties, AppendProperties
<1>2. PICK p \in Nat : p = MagicAt(d)
  BY MagicFirst
<1>3. DOMAIN d = 1 .. Len(d) /\ Len(d) \in Nat
  BY LenProperties
<1>4. CASE p # 0 /\ ~(Len(d) < p + 2) /\ d[p + 2][1] = "fields"
  <2>1. p + 2 \in Fields(d)
    BY <1>3, <1>4 DEF Fields
  <2>2. Append(s, a)[d[p + 2][2]] = s[d[p + 2][2]]
    BY <1>1, <2>1
  <2>3. QED
    BY <1>2, <2>2 DEF HeaderIn
<1>5. CASE p = 0 \/ Len(d) < p + 2 \/ d[p + 2][1] # "fields"
  BY <1>2, <1>5 DEF HeaderIn
<1>6. QED
  BY <1>4, <1>5

LEMMA ReadingPreserved ==
  ASSUME WireType, Intact(Stream, sent), Reading, Next
  PROVE  Reading'
<1>0. sent \in Seq(Response) /\ link \in Seq(Unit) /\ data \in Seq(Unit)
  BY DEF WireType
<1> DEFINE Reads(d, s, f) == \/ HeaderIn(d, s).st = "none" /\ f = None
                             \/ /\ HeaderIn(d, s).st = "ok" /\ f = HeaderIn(d, s)
                                /\ Len(d) < f.end + f.len
<1>e. UNCHANGED eol
  BY Steps
<1>a. Reading <=> (pc = "wait" => Reads(data, sent, frame))
  BY <1>e, DecodeIsHeaderIn DEF Reading
<1>b. Reading' <=> (pc' = "wait" => Reads(data', sent', frame'))
  BY <1>e, DecodeIsHeaderIn DEF Reading
<1>1. CASE Ask
  <2>1. MagicAt(<<>>) = 0
    <3>1. Len(<<>>) = 0 /\ 1 .. Len(<<>>) - 1 = {}
      OBVIOUS
    <3>2. QED
      BY <3>1, EmptyUnits, MagicFirst
  <2>2. HeaderIn(<<>>, sent').st = "none"
    BY <2>1 DEF HeaderIn, Header
  <2>3. QED
    BY <1>1, <1>b, <2>2 DEF Ask
<1>2. CASE Answering
  <2>1. PICK a \in Response : sent' = Append(sent, a)
    BY <1>2 DEF Answering
  <2>2. UNCHANGED <<pc, data, frame>>
    BY <1>2 DEF Answering
  <2>3. CASE pc = "wait"
    <3>1. Intact(data \o link, sent)
      BY <2>3 DEF Stream
    <3>2. \A i \in Fields(data) : i \in Fields(data \o link) /\ (data \o link)[i] = data[i]
      BY <1>0, FieldsConcat
    <3>3. \A i \in Fields(data) : data[i][2] \in DOMAIN sent
      BY <3>1, <3>2 DEF Intact, Follows, Fields
    <3>4. HeaderIn(data, sent') = HeaderIn(data, sent)
      BY <1>0, <2>1, <3>3, HeaderSent
    <3>5. QED
      BY <1>a, <1>b, <2>2, <3>4
  <2>4. QED
    BY <1>b, <2>2, <2>3
<1>3. CASE Speaking
  BY <1>a, <1>b, <1>3 DEF Speaking
<1>4. CASE Receive
  <2>1. PICK all \in Seq(Unit) : Stops \/ ReadsOn(all) \/ Done(all)
    BY <1>4, ReceiveStep
  <2>2. UNCHANGED sent
    BY <1>4 DEF Receive
  <2>3. QED
    BY <1>b, <2>1, <2>2 DEF Stops, ReadsOn, Done
<1>5. CASE TimesOut \/ Reconnect
  BY <1>b, <1>5 DEF TimesOut, GiveUp, Reconnect
<1>6. QED
  BY <1>1, <1>2, <1>3, <1>4, <1>5, Steps

LEMMA AnsweredPreserved ==
  ASSUME WireType, Reading, Answered, Next
  PROVE  Answered'
<1>0. link \in Seq(Unit) /\ data \in Seq(Unit)
  BY DEF WireType
<1>1. CASE Ask
  <2>1. up' => uplink' # <<>>
    <3>1. PICK req \in Requests : up' = up /\ uplink' = IF up THEN uplink \o Encode(req) ELSE uplink
      BY <1>1 DEF Ask
    <3>2. PICK w \in Nat, t \in Nat, e \in Seq(Token) : e = Encode(req) /\ Len(e) = w + 2 + t
      BY EncodeWords DEF Written
    <3>a. PICK q \in Seq(Token) : q = uplink
      BY DEF WireType
    <3>b. PICK x \in Nat : x = Len(q)
      BY LenProperties
    <3>c. PICK y \in Nat : y = Len(e) /\ y # 0
      BY <3>2
    <3>3. PICK d \in Seq(Token) : d = q \o e /\ Len(d) = x + y
      BY <3>b, <3>c, ConcatProperties
    <3>4. Len(d) # 0
      BY <3>3, <3>c
    <3>5. d # <<>>
      BY <3>4
    <3>6. QED
      BY <3>1, <3>2, <3>3, <3>5, <3>a
  <2>2. QED
    BY <2>1 DEF Answered
<1>2. CASE Answering
  <2>1. PICK a \in Response, r \in Seq(Unit), l \in Nat :
           /\ link' = link \o r
           /\ a.payload \in Seq({"RE", "SP", "b64"}) /\ l = Len(a.payload)
           /\ Response5(r, Len(sent) + 1, a.payload, l) /\ eol \in {"lf", "cr", "crlf"}
    BY <1>2 DEF Answering
  <2>2. Stream' = Stream \o r /\ Stream \in Seq(Unit)
    BY <1>2, <2>1, StreamGrows DEF Answering
  <2>3. Whole(r, 1)
    <3>1. PICK p \in Seq({"RE", "SP", "b64"}) : p = a.payload
      BY <2>1
    <3>2. Response5(r, Len(sent) + 1, p, l) /\ l = Len(p)
      BY <2>1, <3>1
    <3>3. QED
      BY <2>1, <3>2, ResponseHeader
  <2>4. 1 \in DOMAIN r
    BY <2>3 DEF Whole
  <2>5. \E j \in DOMAIN (Stream \o r) : Whole(Stream \o r, j)
    BY <2>1, <2>2, <2>3, <2>4, FieldsConcat
  <2>6. QED
    BY <2>2, <2>5 DEF Answered
<1>3. CASE Speaking
  <2>1. PICK r \in Seq(Unit) : /\ link' = link \o r /\ UNCHANGED <<data, pc>>
                               /\ UNCHANGED <<up, uplink>> \/ (up' = FALSE /\ uplink' = <<>>)
    BY <1>3 DEF Speaking
  <2>2. Stream' = Stream \o r /\ Stream \in Seq(Unit)
    BY <2>1, StreamGrows
  <2>3. \A i \in DOMAIN Stream : Whole(Stream, i) => i \in DOMAIN (Stream \o r) /\ Whole(Stream \o r, i)
    BY <2>1, <2>2, FieldsConcat
  <2>4. CASE up' = FALSE
    BY <2>4 DEF Answered
  <2>5. CASE UNCHANGED <<up, uplink>>
    BY <2>1, <2>2, <2>3, <2>5 DEF Answered
  <2>6. QED
    BY <2>1, <2>4, <2>5
<1>4. CASE Receive
  <2>1. PICK all \in Seq(Unit) : /\ Stream = all \o link' /\ (Stops \/ ReadsOn(all) \/ Done(all))
    BY <1>4, ReceiveStep
  <2>2. CASE ReadsOn(all)
    <3>1. Stream' = Stream /\ UNCHANGED <<up, uplink>> /\ pc = "wait"
      BY <1>4, <2>1, <2>2 DEF ReadsOn, Stream, Receive
    <3>2. QED
      BY <3>1 DEF Answered
  <2>3. CASE Stops \/ Done(all)
    BY <2>3 DEF Stops, Done, Answered
  <2>4. QED
    BY <2>1, <2>2, <2>3
<1>5. CASE TimesOut \/ Reconnect
  BY <1>5 DEF TimesOut, GiveUp, Reconnect, Answered
<1>6. QED
  BY <1>1, <1>2, <1>3, <1>4, <1>5, Steps

\* A header that has been found is one of the stream.
LEMMA HeaderInStream ==
  ASSUME NEW d \in Seq(Unit), NEW r \in Seq(Unit), NEW s, HeaderIn(d, s).st = "ok"
  PROVE  \E i \in Fields(d) : /\ i \in Fields(d \o r) /\ (d \o r)[i] = d[i]
                              /\ HeaderIn(d, s).n = d[i][2] /\ i \in DOMAIN d
<1>1. PICK m \in Nat : m = Len(d) /\ DOMAIN d = 1 .. m
  BY LenProperties
<1>2. PICK p \in 1 .. m - 1 : /\ p + 3 <= m /\ d[p + 2][1] = "fields"
                              /\ HeaderIn(d, s).n = d[p + 2][2]
  BY <1>1, HeaderFields
<1>3. p + 2 \in 1 .. m
  BY <1>2
<1>4. p + 2 \in Fields(d) /\ p + 2 \in DOMAIN d
  BY <1>1, <1>2, <1>3 DEF Fields
<1>5. QED
  BY <1>2, <1>4, FieldsConcat

LEMMA CleanPreserved ==
  ASSUME WireType, Reading, Clean, Next
  PROVE  Clean'
<1>0. /\ asked \in Seq(Requests) /\ uplink \in Seq(Token)
      /\ sent \in Seq(Response) /\ link \in Seq(Unit) /\ data \in Seq(Unit)
  BY DEF WireType
<1>1. CASE Ask
  <2>1. PICK req \in Requests : /\ asked' = Append(asked, req)
                                /\ uplink' = IF up THEN uplink \o Encode(req) ELSE uplink
                                /\ late' = (late \/ ~Plain(req))
    BY <1>1 DEF Ask
  <2>2. Stream' = Stream /\ pc # "wait" /\ pc' = "wait"
    BY <1>1, StreamStays DEF Ask
  <2>3. SUFFICES ASSUME ~late, Plain(req) PROVE Clean'
    BY <2>1 DEF Clean
  <2>4. uplink = <<>> /\ Fields(Stream) = {}
    BY <2>2, <2>3 DEF Clean
  <2>5. asked' # <<>> /\ Last(asked') = req
    <3>1. /\ Append(asked, req) \in Seq(Requests) /\ Len(Append(asked, req)) = Len(asked) + 1
          /\ Append(asked, req)[Len(asked) + 1] = req /\ Append(asked, req) # <<>>
      BY <1>0, AppendProperties
    <3>2. QED
      BY <2>1, <3>1 DEF Last
  <2>6. uplink' = Encode(req) \/ uplink' = <<>>
    <3>1. PICK e \in Seq(Token) : e = Encode(req)
      BY EncodeWords DEF Written
    <3>2. <<>> \o e = e
      BY ConcatEmptySeq
    <3>3. QED
      BY <2>1, <2>4, <3>1, <3>2
  <2>7. QED
    BY <2>2, <2>3, <2>4, <2>5, <2>6 DEF Clean
<1>2. CASE Answering
  <2>1. PICK a \in Response, r \in Seq(Unit), l \in Nat :
           /\ sent' = Append(sent, a) /\ link' = link \o r
           /\ a.payload \in Seq({"RE", "SP", "b64"}) /\ l = Len(a.payload)
           /\ Response5(r, Len(sent) + 1, a.payload, l)
           /\ a.req = ReadRequest(FirstLine(uplink)) /\ eol \in {"lf", "cr", "crlf"}
    BY <1>2 DEF Answering
  <2>2. Stream' = Stream \o r /\ Stream \in Seq(Unit)
    BY <1>2, <2>1, StreamGrows DEF Answering
  <2>a. LineEnd(uplink) # 0 /\ UNCHANGED <<pc, asked, late>> /\
        \E j \in Bodies(FirstLine(uplink), AfterLine(uplink)) :
           uplink' = SubSeq(AfterLine(uplink), j + 1, Len(AfterLine(uplink)))
    BY <1>2 DEF Answering
  <2>3. SUFFICES ASSUME ~late PROVE Clean'
    BY <2>a DEF Clean
  <2>b. uplink # <<>>
    <3>1. LineEnd(uplink) \in 0 .. Len(uplink)
      BY <1>0, LineEnds
    <3>2. Len(<<>>) = 0 /\ \A k \in 0 .. 0 : k = 0
      OBVIOUS
    <3>3. QED
      BY <2>a, <3>1, <3>2
  <2>4. /\ pc = "wait" /\ asked # <<>> /\ uplink = Encode(Last(asked)) /\ Plain(Last(asked))
        /\ Fields(Stream) = {}
    BY <2>3, <2>b DEF Clean
  <2>c. PICK req \in Requests : req = Last(asked)
    BY <1>0, <2>4, ElementOfSeq, LenProperties DEF Last
  <2>d. ReadBack(uplink, req)
    BY <2>4, <2>c, PlainReadBack
  <2>5. uplink' = <<>>
    BY <2>a, <2>d DEF ReadBack, AllRead
  <2>6. a.req = Last(asked)
    BY <2>1, <2>c, <2>d DEF ReadBack
  <2>7. PICK n \in Nat : n = Len(sent) + 1 /\ Append(sent, a)[n] = a
    BY <1>0, AppendProperties, LenProperties
  <2>8. Fields(r) = {3} /\ r[3] = <<"fields", n>>
    <3>1. PICK p \in Seq({"RE", "SP", "b64"}) : p = a.payload
      BY <2>1
    <3>2. Response5(r, n, p, l) /\ l = Len(p)
      BY <2>1, <2>7, <3>1
    <3>3. QED
      BY <2>1, <3>2, ResponseHeader
  <2>9. \A i \in Fields(Stream') : i = Len(Stream) + 3 /\ Stream'[i] = r[3]
    <3>1. PICK q \in Seq(Unit) : q = Stream /\ Fields(q) = {} /\ Stream' = q \o r
      BY <2>2, <2>4
    <3>a. \A i \in Fields(q \o r) :
            \/ i \in Fields(q)
            \/ \E b \in Fields(r) : i = Len(q) + b /\ (q \o r)[i] = r[b]
      BY FieldsConcat
    <3>2. \A i \in Fields(q \o r) : \E b \in Fields(r) : i = Len(q) + b /\ (q \o r)[i] = r[b]
      BY <3>1, <3>a
    <3>3. \A i \in Fields(q \o r) : i = Len(q) + 3 /\ (q \o r)[i] = r[3]
      BY <2>8, <3>2
    <3>4. QED
      BY <3>1, <3>3
  <2>10. \A i \in Fields(Stream') : sent'[Stream'[i][2]].req = Last(asked')
    BY <2>1, <2>4, <2>6, <2>7, <2>8, <2>9, <2>a
  <2>11. QED
    BY <2>4, <2>5, <2>9, <2>10, <2>a DEF Clean
<1>3. CASE Speaking
  <2>1. PICK r \in Seq(Unit) : /\ link' = link \o r /\ Fields(r) = {}
                               /\ UNCHANGED <<asked, sent, data, pc, late>>
                               /\ UNCHANGED <<up, uplink>> \/ (up' = FALSE /\ uplink' = <<>>)
    BY <1>3 DEF Speaking
  <2>2. Stream' = Stream \o r /\ Stream \in Seq(Unit)
    BY <2>1, StreamGrows
  <2>3. \A i \in Fields(Stream') : i \in Fields(Stream) /\ Stream'[i] = Stream[i]
    <3>1. PICK q \in Seq(Unit) : q = Stream /\ Stream' = q \o r
      BY <2>2
    <3>2. /\ \A i \in Fields(q) : (q \o r)[i] = q[i]
          /\ \A i \in Fields(q \o r) : i \in Fields(q) \/ \E b \in Fields(r) : TRUE
      BY FieldsConcat
    <3>3. \A i \in Fields(q \o r) : i \in Fields(q) /\ (q \o r)[i] = q[i]
      BY <2>1, <3>2
    <3>4. QED
      BY <3>1, <3>3
  <2>4. QED
    BY <2>1, <2>3 DEF Clean
<1>4. CASE Receive
  <2>1. PICK all \in Seq(Unit) : /\ link' \in Seq(Unit) /\ Stream = all \o link'
                                 /\ Stops \/ ReadsOn(all) \/ Done(all)
    BY <1>4, ReceiveStep
  <2>2. pc = "wait" /\ UNCHANGED <<asked, uplink, sent>>
    BY <1>4 DEF Receive
  <2>3. CASE Stops
    BY <2>3 DEF Stops, Clean
  <2>4. CASE ReadsOn(all)
    <3>1. Stream' = Stream /\ UNCHANGED <<pc, late>>
      BY <2>1, <2>2, <2>4 DEF ReadsOn, Stream
    <3>2. QED
      BY <2>2, <3>1 DEF Clean
  <2>5. CASE Done(all)
    <3>1. SUFFICES ASSUME ~late PROVE Clean'
      BY <2>5 DEF Done, Clean
    <3>2. pc' = "done" /\ UNCHANGED late /\ Stream' = link' /\ HeaderIn(all, sent).st = "ok"
      BY <2>5 DEF Done, Stream
    <3>3. PICK i \in Fields(Stream) : i \in DOMAIN all
      BY <2>1, <3>2, HeaderInStream
    <3>4. Fields(link') = {}
      BY <2>1, <3>1, <3>3, FieldsRight DEF Clean
    <3>5. uplink = <<>>
      BY <3>1, <3>3 DEF Clean
    <3>6. QED
      BY <2>2, <3>2, <3>4, <3>5 DEF Clean
  <2>6. QED
    BY <2>1, <2>3, <2>4, <2>5
<1>5. CASE TimesOut
  BY <1>5 DEF TimesOut, GiveUp, Clean
<1>6. CASE Reconnect
  <2>1. pc # "wait" /\ pc' = "idle" /\ UNCHANGED sent
    BY <1>6 DEF Reconnect
  <2>2. Stream = link /\ Stream' = link'
    BY <1>6, StreamStays
  <2>3. CASE link' = <<>> /\ uplink' = <<>>
    BY <2>1, <2>2, <2>3, EmptyUnits DEF Clean
  <2>4. CASE UNCHANGED <<uplink, late>>
    <3>1. SUFFICES ASSUME ~late PROVE Clean'
      BY <2>4 DEF Clean
    <3>2. uplink = <<>> /\ Fields(link) = {}
      BY <2>1, <2>2, <3>1 DEF Clean
    <3>3. Fields(link') = {}
      <4>1. PICK q \in Seq(Unit) : link = q \o link' /\ link' \in Seq(Unit)
        BY <1>6, ReconnectStep
      <4>2. QED
        BY <3>2, <4>1, FieldsRight
    <3>4. QED
      BY <2>1, <2>2, <2>4, <3>2, <3>3 DEF Clean
  <2>5. QED
    BY <1>6, <2>3, <2>4 DEF Reconnect
<1>7. QED
  BY <1>1, <1>2, <1>3, <1>4, <1>5, <1>6, Steps

\* dispatch_ax25, when the loop has found a response to be complete: it decodes
\* the same header, and what it shows is that response's payload.
LEMMA DispatchWhole ==
  ASSUME NEW d \in Seq(Unit), NEW r \in Seq(Unit), sent \in Seq(Response), Intact(d \o r, sent),
         HeaderIn(d, sent).st = "ok",
         Len(d) >= HeaderIn(d, sent).end + HeaderIn(d, sent).len
  PROVE  /\ Dispatch(d).how = "page" \/ eol = "crlf"
         /\ Dispatch(d).n = HeaderIn(d, sent).n /\ Dispatch(d).n \in DOMAIN sent
         /\ Dispatch(d).how = "page" =>
              Dispatch(d).body = [i \in 1 .. Len(sent[Dispatch(d).n].payload) |->
                                  <<sent[Dispatch(d).n].payload[i], Dispatch(d).n>>]
<1>1. PICK x \in Nat : /\ x = Len(d) /\ DOMAIN d = 1 .. x
                       /\ \A i \in 1 .. x : (d \o r)[i] = d[i] /\ i \in DOMAIN (d \o r)
  <2>1. PICK x \in Nat, y \in Nat : Joins(d \o r, d, r, x, y)
    BY Concat
  <2>2. QED
    BY <2>1 DEF Joins
<1>2. PICK p \in 1 .. x - 1 : /\ p + 3 <= x /\ d[p + 2][1] = "fields"
                              /\ HeaderIn(d, sent).n = d[p + 2][2] /\ HeaderIn(d, sent).end = HeaderEnd(p)
                              /\ HeaderIn(d, sent).len = Len(sent[d[p + 2][2]].payload)
  <2>1. \E p \in 1 .. Len(d) - 1 :
          /\ p + 3 <= Len(d) /\ d[p + 2][1] = "fields"
          /\ HeaderIn(d, sent).n = d[p + 2][2] /\ HeaderIn(d, sent).end = HeaderEnd(p)
          /\ HeaderIn(d, sent).len = Len(sent[d[p + 2][2]].payload)
    BY HeaderFields
  <2>2. QED
    BY <1>1, <2>1
<1>3. p + 2 \in 1 .. x
  BY <1>2
<1>4. PICK n : n = d[p + 2][2] /\ Follows(d \o r, sent, p + 2, n)
  BY <1>1, <1>2, <1>3 DEF Intact
<1>5. n \in DOMAIN sent
  BY <1>4 DEF Follows
<1>6. PICK l \in Nat : /\ l = Len(sent[n].payload)
                       /\ \A j \in 1 .. l : sent[n].payload[j] \in {"RE", "SP", "b64"}
  BY <1>5, PayloadType
<1>7. PICK z \in Nat : z = HeaderEnd(p) /\ z \in {p + 2, p + 3} /\ (eol # "crlf" => z = p + 3)
  <2>1. p \in Nat /\ p + 2 \in Nat /\ p + 3 \in Nat
    OBVIOUS
  <2>2. HeaderEnd(p) \in {p + 2, p + 3} /\ (eol # "crlf" => HeaderEnd(p) = p + 3)
    BY <2>1, Ends
  <2>3. QED
    BY <2>1, <2>2
<1>8. z + l <= x
  BY <1>1, <1>2, <1>4, <1>6, <1>7
<1> DEFINE body == SubSeq(d, z + 1, z + l)
           want == [j \in 1 .. l |-> <<sent[n].payload[j], n>>]
<1>9. body = [i \in 1 .. l |-> d[z + i]]
  <2>1. PICK a \in Nat, b \in Nat : a = z + 1 /\ b = z + l /\ b - a + 1 = l
    OBVIOUS
  <2>2. SubSeq(d, a, b) = [i \in 1 .. b - a + 1 |-> d[a + i - 1]]
    BY <2>1 DEF SubSeq
  <2>3. \A j \in 1 .. l : a + j - 1 = z + j
    BY <2>1
  <2>4. SubSeq(d, a, b) = [i \in 1 .. l |-> d[z + i]]
    BY <2>1, <2>2, <2>3
  <2>5. QED
    BY <2>1, <2>4
<1>10. Dispatch(d) = [how |-> IF DecodePayload(body) THEN "page" ELSE "invalid",
                      n |-> n, body |-> body]
  <2>1. PICK h \in {DecodeHeader(d)} : /\ h.st = "ok" /\ h.end = z /\ h.len = l /\ h.n = n
                                       /\ ~(Len(d) < h.end + h.len)
    <3>1. DecodeHeader(d) = HeaderIn(d, sent)
      BY DecodeIsHeader
    <3>2. ~(Len(d) < z + l)
      BY <1>1, <1>8
    <3>3. QED
      BY <1>2, <1>4, <1>6, <1>7, <3>1, <3>2
  <2>2. SubSeq(d, h.end + 1, h.end + h.len) = body
    BY <2>1
  <2> HIDE DEF body
  <2>3. QED
    BY <2>1, <2>2 DEF Dispatch
<1> HIDE DEF body
<1>11. l = 0 \/ z = p + 3 => body = want /\ DecodePayload(body)
  <2>1. SUFFICES ASSUME l = 0 \/ z = p + 3 PROVE body = want /\ DecodePayload(body)
    OBVIOUS
  <2>2. ASSUME NEW j \in 1 .. l PROVE d[z + j] = <<sent[n].payload[j], n>>
    <3>1. z = p + 3
      BY <2>1
    <3>2. z + j \in 1 .. x /\ (p + 2) + 1 + j = z + j
      BY <1>8, <3>1
    <3>3. (d \o r)[(p + 2) + 1 + j] = <<sent[n].payload[j], n>>
      BY <1>4, <1>6 DEF Follows
    <3>4. QED
      BY <1>1, <3>2, <3>3
  <2>3. body = want
    BY <1>9, <2>2
  <2>4. DecodePayload(want)
    BY <1>6 DEF DecodePayload
  <2>5. QED
    BY <2>3, <2>4
<1>12. l # 0 /\ z # p + 3 => ~DecodePayload(body)
  <2>1. SUFFICES ASSUME l # 0, z # p + 3 PROVE ~DecodePayload(body)
    OBVIOUS
  <2>2. z + 1 = (p + 2) + 1 /\ (p + 2) + 1 \in 1 .. x /\ 1 \in 1 .. l
    BY <1>2, <1>7, <2>1
  <2>3. (d \o r)[(p + 2) + 1][1] \notin {"RE", "SP", "b64"}
    BY <1>4 DEF Follows
  <2>4. d[(p + 2) + 1][1] \notin {"RE", "SP", "b64"}
    BY <1>1, <2>2, <2>3
  <2>5. 1 \in DOMAIN body /\ body[1] = d[z + 1]
    BY <1>9, <2>2
  <2>6. QED
    BY <2>2, <2>4, <2>5 DEF DecodePayload
<1> HIDE DEF want
<1>13. /\ Dispatch(d).n = n /\ Dispatch(d).body = body
       /\ Dispatch(d).how = IF DecodePayload(body) THEN "page" ELSE "invalid"
  BY <1>10
<1>14. (Dispatch(d).how = "page" \/ eol = "crlf") /\ (Dispatch(d).how = "page" => Dispatch(d).body = want)
  BY <1>7, <1>11, <1>12, <1>13
<1>15. want = [i \in 1 .. Len(sent[n].payload) |-> <<sent[n].payload[i], n>>]
  BY <1>6 DEF want
<1>16. QED
  BY <1>2, <1>4, <1>5, <1>13, <1>14, <1>15

LEMMA ShownPreserved ==
  ASSUME WireType, Intact(Stream, sent), Reading, Clean, Shown, Next
  PROVE  Shown'
<1>0. sent \in Seq(Response) /\ link \in Seq(Unit) /\ data \in Seq(Unit)
  BY DEF WireType
<1>1. CASE Ask
  BY <1>1 DEF Ask, Shown
<1>2. CASE Answering
  <2>1. PICK a \in Response : sent' = Append(sent, a)
    BY <1>2 DEF Answering
  <2>2. UNCHANGED <<pc, page, late, asked, eol>>
    BY <1>2 DEF Answering
  <2>3. \A n \in DOMAIN sent : n \in DOMAIN sent' /\ sent'[n] = sent[n]
    <3>1. PICK m \in Nat : m = Len(sent) /\ DOMAIN sent = 1 .. m
      BY <1>0, LenProperties
    <3>2. DOMAIN Append(sent, a) = 1 .. m + 1 /\ \A n \in 1 .. m : Append(sent, a)[n] = sent[n]
      BY <1>0, <3>1, AppendProperties, LenProperties
    <3>3. QED
      BY <2>1, <3>1, <3>2
  <2>4. QED
    BY <2>2, <2>3 DEF Shown, WholeAnswer, AnswerIsMine
<1>3. CASE Speaking
  BY <1>3 DEF Speaking, Shown, WholeAnswer, AnswerIsMine
<1>4. CASE Receive
  <2>1. PICK all \in Seq(Unit) : /\ link' \in Seq(Unit) /\ Stream = all \o link'
                                 /\ Stops \/ ReadsOn(all) \/ Done(all)
    BY <1>4, ReceiveStep
  <2>2. pc = "wait" /\ UNCHANGED <<asked, uplink, sent, eol>>
    BY <1>4 DEF Receive
  <2>3. CASE Stops \/ ReadsOn(all)
    BY <2>2, <2>3 DEF Stops, ReadsOn, Shown, WholeAnswer, AnswerIsMine
  <2>4. CASE Done(all)
    <3>1. /\ page' = Dispatch(all) /\ pc' = "done" /\ UNCHANGED late
          /\ HeaderIn(all, sent).st = "ok"
          /\ Len(all) >= HeaderIn(all, sent).end + HeaderIn(all, sent).len
      BY <2>4 DEF Done
    <3>2. Intact(all \o link', sent)
      BY <2>1
    <3>3. PICK n : n = HeaderIn(all, sent).n
      OBVIOUS
    <3>4. /\ page'.how = "page" \/ eol = "crlf"
          /\ page'.n = n /\ n \in DOMAIN sent
          /\ page'.how = "page" => page'.body = [i \in 1 .. Len(sent[n].payload) |-> <<sent[n].payload[i], n>>]
      BY <1>0, <2>1, <3>1, <3>2, <3>3, DispatchWhole
    <3>5. ~late => sent[n].req = Last(asked)
      <4>1. PICK i \in Fields(Stream) : Stream[i][2] = n
        BY <2>1, <3>1, <3>3, HeaderInStream
      <4>2. QED
        BY <4>1 DEF Clean
    <3>6. QED
      BY <2>2, <3>1, <3>4, <3>5 DEF Shown, WholeAnswer, AnswerIsMine
  <2>5. QED
    BY <2>1, <2>3, <2>4
<1>5. CASE TimesOut \/ Reconnect
  BY <1>5 DEF TimesOut, GiveUp, Reconnect, Shown, WholeAnswer, AnswerIsMine
<1>6. QED
  BY <1>1, <1>2, <1>3, <1>4, <1>5, Steps

\* When nothing is on its way any more, a header that is there has been read and
\* its response is complete: the request does not wait.
LEMMA NothingLeft ==
  ASSUME WireInv
  PROVE  NothingSwallowed
<1>0. sent \in Seq(Response) /\ link \in Seq(Unit) /\ data \in Seq(Unit)
  BY DEF WireInv, WireType
<1>1. SUFFICES ASSUME pc = "wait", up, uplink = <<>>, link = <<>> PROVE FALSE
  BY DEF NothingSwallowed
<1>2. Stream = data
  BY <1>0, <1>1, ConcatEmptySeq DEF Stream
<1>3. PICK i \in DOMAIN data : Whole(data, i)
  BY <1>1, <1>2 DEF WireInv, Answered
<1>4. Intact(data, sent)
  BY <1>2 DEF WireInv
<1>5. PICK x \in Nat : x = Len(data) /\ DOMAIN data = 1 .. x
  BY <1>0, LenProperties
<1>6. i \in 1 .. x /\ i + 1 \in 1 .. x /\ i + 2 \in 1 .. x /\ Magic(data, i)
  BY <1>3, <1>5 DEF Whole, Magic
<1>7. i \in 1 .. x - 1
  BY <1>6
<1>8. PICK p \in 1 .. x - 1 : p = MagicAt(data) /\ p <= i
  BY <1>0, <1>5, <1>6, <1>7, MagicFirst
<1>9. p + 2 \in 1 .. x
  BY <1>6, <1>8
<1>10. ASSUME data[p + 2][1] = "fields"
       PROVE  \E l \in Nat : l = Len(sent[data[p + 2][2]].payload) /\ p + 3 + l <= x
  <2>1. PICK n : n = data[p + 2][2] /\ Follows(data, sent, p + 2, n)
    BY <1>4, <1>5, <1>9, <1>10 DEF Intact
  <2>2. PICK l \in Nat : l = Len(sent[n].payload)
    BY <1>0, <2>1, PayloadType DEF Follows
  <2>3. (p + 2) + 1 + l \in 1 .. x
    BY <1>5, <2>1, <2>2 DEF Follows
  <2>4. p + 3 + l <= x
    BY <2>3
  <2>5. l = Len(sent[data[p + 2][2]].payload)
    BY <2>1, <2>2
  <2>6. QED
    BY <2>4, <2>5
<1>11. CASE HeaderIn(data, sent).st = "none"
  <2>1. \/ p = 0 \/ x < p + 2 \/ (data[p + 2][1] = "fields" /\ x < p + 3)
    BY <1>0, <1>5, <1>8, <1>11, HeaderFields
  <2>2. data[p + 2][1] = "fields" /\ x < p + 3
    BY <1>8, <1>9, <2>1
  <2>3. PICK l \in Nat : p + 3 + l <= x
    BY <1>10, <2>2
  <2>4. QED
    BY <2>2, <2>3
<1>12. CASE HeaderIn(data, sent).st = "ok" /\ Len(data) < HeaderIn(data, sent).end + HeaderIn(data, sent).len
  <2>1. /\ data[p + 2][1] = "fields" /\ HeaderIn(data, sent).end = HeaderEnd(p)
        /\ HeaderIn(data, sent).len = Len(sent[data[p + 2][2]].payload)
    BY <1>0, <1>8, <1>12, HeaderFields
  <2>2. PICK l \in Nat : l = HeaderIn(data, sent).len /\ p + 3 + l <= x
    BY <1>10, <2>1
  <2>3. PICK z \in Nat : z = HeaderEnd(p) /\ z <= p + 3
    BY Ends
  <2>4. x < z + l
    BY <1>5, <1>12, <2>1, <2>2, <2>3
  <2>5. QED
    BY <2>2, <2>3, <2>4
<1>13. QED
  <2>1. \/ HeaderIn(data, sent).st = "none"
        \/ HeaderIn(data, sent).st = "ok" /\ Len(data) < HeaderIn(data, sent).end + HeaderIn(data, sent).len
    BY <1>1, DecodeIsHeader DEF WireInv, Reading
  <2>2. QED
    BY <1>11, <1>12, <2>1

LEMMA WireStarts ==
  ASSUME Init
  PROVE  WireInv
<1>1. /\ WireType /\ Stream = <<>> /\ late = FALSE /\ pc = "idle" /\ page = None /\ uplink = <<>>
  <2>1. <<>> \in Seq(Requests) /\ <<>> \in Seq(Token) /\ <<>> \in Seq(Response)
    OBVIOUS
  <2>2. QED
    BY <2>1, EmptyUnits DEF Init, WireType, Stream
<1>2. Intact(Stream, sent) /\ Reading /\ Answered
  BY <1>1, EmptyUnits DEF Reading, Answered
<1>3. Clean /\ Shown
  BY <1>1, EmptyUnits DEF Clean, Shown
<1>4. QED
  BY <1>1, <1>2, <1>3 DEF WireInv

\* The invariant holds in every state.
LEMMA WireSafe == Spec => []WireInv
<1>1. Init => WireInv
  BY WireStarts
<1>2. WireInv /\ [Next]_vars => WireInv'
  <2>1. CASE Next
    <3>1. ASSUME WireInv, Next PROVE Intact(Stream, sent)'
      BY <3>1, IntactPreserved DEF WireInv
    <3>2. QED
      BY <2>1, <3>1, TypePreserved, ReadingPreserved, AnsweredPreserved, CleanPreserved,
         ShownPreserved DEF WireInv
  <2>2. CASE UNCHANGED vars
    <3>1. UNCHANGED <<eol, asked, uplink, sent, link, up, data, frame, pc, page, late>>
      BY <2>2 DEF vars
    <3>2. Stream' = Stream /\ DecodeHeader(data)' = DecodeHeader(data)
      BY <3>1 DEF Stream, DecodeHeader, HeaderEnd
    <3>3. WireType => WireType'
      BY <3>1 DEF WireType
    <3>4. Intact(Stream, sent) => Intact(Stream, sent)'
      BY <3>1, <3>2
    <3>5. (Reading => Reading') /\ (Answered => Answered') /\ (Clean => Clean')
      BY <3>1, <3>2 DEF Reading, Answered, Clean
    <3>6. Shown => Shown'
      BY <3>1 DEF Shown, WholeAnswer, AnswerIsMine
    <3>7. QED
      BY <3>3, <3>4, <3>5, <3>6 DEF WireInv
  <2>3. QED
    BY <2>1, <2>2
<1>3. QED
  BY <1>1, <1>2, PTL DEF Spec

-----------------------------------------------------------------------------
(* The theorems.                                                           *)

\* However the transport cuts what it delivers, whatever the limits and the text
\* of the node, a page that is shown has the whole payload of one response of the
\* server and nothing else (session.rs:430-540, proxy.rs:440-450).
THEOREM WholeAnswerSafe == Spec => []WholeAnswer
<1>1. WireInv => WholeAnswer
  BY DEF WireInv, Shown, WholeAnswer
<1>2. QED
  BY <1>1, WireSafe, PTL

\* On a link on which no request was given up and every address was Plain, what a
\* request ends with is the server's answer to that request, whatever the words of
\* the addresses are (session.rs:397-399, 472-502).
THEOREM AnswerIsMineSafe == Spec => []AnswerIsMine
<1>1. WireInv => AnswerIsMine
  BY DEF WireInv, Shown, AnswerIsMine
<1>2. QED
  BY <1>1, WireSafe, PTL

\* A request on a live link does not wait with nothing on its way
\* (session.rs:472-540).
THEOREM NothingSwallowedSafe == Spec => []NothingSwallowed
<1>1. WireInv => NothingSwallowed
  BY NothingLeft
<1>2. QED
  BY <1>1, WireSafe, PTL
=============================================================================
