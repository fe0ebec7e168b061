---------------------------- MODULE MCLoginBody ----------------------------
(***************************************************************************)
(* Requests and client data on both sides of the length where a varuint32  *)
(* takes two bytes, and of 123 and 125 bytes, whose length is a brace; a   *)
(* protocol with a brace in it; bodies that end around every boundary.     *)
(***************************************************************************)
EXTENDS LoginBody

MCSent ==
  [layout : Layouts, protocol : {<<0, 0, 8, 145>>, <<0, 0, 8, Open>>},
   request : {20, 123, 127, 128, 251}, client : {12, 125, 130}, claims : {9},
   rawToken : BOOLEAN, more : {<<>>, <<Quote, Open>>}]
=============================================================================
