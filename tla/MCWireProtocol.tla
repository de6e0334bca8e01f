--------------------------- MODULE MCWireProtocol ---------------------------
(* A plain address, and one that is not: with the words that announce a tag, *)
(* a line feed and a second request in it.  A payload with the letters of   *)
(* the magic in it.                                                         *)
EXTENDS WireProtocol

MCWords    == {"a", "b", "GET", "IF-NONE-MATCH", "\n"}
MCUrls     == {<<"a">>, <<"a", "IF-NONE-MATCH", "b", "\n", "GET", "b">>}
MCPayloads == {<<"RE", "SP", "b64">>}
=============================================================================
