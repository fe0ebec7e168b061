---------------------------- MODULE MCCppFrontEnd ----------------------------
(***************************************************************************)
(* Logins that overlap, under either front end: the claims, results and    *)
(* options of MCLoginPath, and what the C++ front end makes of the latter. *)
(***************************************************************************)
EXTENDS CppFrontEnd, MCLoginPath

CppConfigs == MixConfigs \cup {Loaded(c, d) : c \in MixConfigs, d \in BOOLEAN}
=============================================================================
