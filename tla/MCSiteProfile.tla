---------------------------- MODULE MCSiteProfile ----------------------------
(***************************************************************************)
(* Every image of six bytes, segments of three and two with a byte of data *)
(* between them; byte 2 is the opcode.  The built-in profile is of a build *)
(* with the site at 1; the files pin, locate, do both or neither, leave    *)
(* keys out and have values that do not parse.                             *)
(***************************************************************************)
EXTENDS SiteProfile

MCByte   == 0 .. 2
MCMapped == 1 .. 6
MCSpans  == <<[start |-> 1, len |-> 3], [start |-> 5, len |-> 2]>>
MCImages == [MCMapped -> MCByte]

MCbuiltin == [executable_size |-> 10, site_rva |-> 1, helper_rva |-> 4,
              expected_site_bytes |-> <<2, 1, 0>>, site_signature |-> <<2, Wild, 0>>]

MCFiles ==
  [executable_size : {Absent, 20}, site_rva : {Absent, Garbled, 5, 6}, helper_rva : {Absent, 7},
   expected_site_bytes : {Absent, Garbled, <<2, 0>>},
   site_signature : {Absent, Garbled, <<2>>, <<2, Wild>>, <<Wild, 0>>}]
=============================================================================
