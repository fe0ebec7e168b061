----------------------------- MODULE MCFlatJson -----------------------------
(***************************************************************************)
(* Documents of up to two members, ended after every character: keys that  *)
(* are empty, or hold a colon and a bracket or an escaped quote; strings   *)
(* that are empty, escaped or hold what separates members; numbers;        *)
(* containers with a member of the same name as one outside, nested, with  *)
(* colons in strings, and with a bracket in one.                           *)
(***************************************************************************)
EXTENDS FlatJson

MCChar == {Quote, Backslash, Colon, Comma, Newline, "{", "[", "}", "]", " ", "a", "b", "n", "7"}

Keys == {<<"a">>, <<"a", Colon, "[">>, <<Backslash, Quote>>, <<>>}

Strings == {<<>>, <<"b">>, <<"7", Backslash, Quote>>, <<Backslash, Backslash>>, <<Backslash, "n">>, <<Colon>>, <<Comma>>, <<"}">>}
Scalars == {<<"7">>, <<"7", "7">>}
Containers == {<<"[", "]">>, <<"{", Quote, "a", Quote, Colon, "[", "7", "]", "}">>,
               <<"[", Quote, "b", Quote, Comma, "7", "]">>,
               <<"[", Quote, Colon, Quote, Comma, Quote, Colon, Quote, Comma, Quote, Colon, Quote, "]">>}
Bracketed == {<<"[", Quote, "]", Quote, Comma, "7", "]">>}

MembersOf(kind, texts, bracketed) ==
  [key : Keys, kind : {kind}, value : texts, bracketed : {bracketed}]

Members == MembersOf("string", Strings, FALSE) \cup MembersOf("scalar", Scalars, FALSE)
             \cup MembersOf("container", Containers, FALSE) \cup MembersOf("container", Bracketed, TRUE)

MCDocuments == {<<>>} \cup {<<m>> : m \in Members} \cup {<<m, n>> : m, n \in Members}
=============================================================================
