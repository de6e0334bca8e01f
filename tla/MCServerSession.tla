--------------------------- MODULE MCServerSession ---------------------------
(* ServerSession with eight IPv4 addresses, a range of two of them, one    *)
(* host of each kind and lookups whose first address may be blocked.       *)
EXTENDS ServerSession

CONSTANTS web, localhost, k1, v1, v2

V4(n)     == [form |-> "v4", bits |-> n]
Mapped(n) == [form |-> "mapped", bits |-> n]

MCLiterals == {Mapped(5)}
MCRanges   == {[net |-> 5, prefix |-> 2], [net |-> 0, prefix |-> 7]}
MCAnswers  == {<<>>, <<V4(3)>>, <<V4(3), V4(4)>>, <<V4(4), V4(3)>>}
MCLoads    == [host : {web}, port : {443, 8080}, tunnel : {TRUE}]
                  \cup [host : {web, localhost}, port : {8080}, tunnel : {FALSE}]
                  \cup [host : {Mapped(5)}, port : {443}, tunnel : {TRUE}]
MCListed   == <<{localhost}, {web}>>
MCUrls     == [scheme : {"http", "other"}, host : {web}]
                  \cup [scheme : {"invalid"}, host : {web}]
                  \cup [scheme : {"https"}, host : {Mapped(5)}]
=============================================================================
