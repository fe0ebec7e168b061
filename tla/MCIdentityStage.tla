--------------------------- MODULE MCIdentityStage --------------------------
(* Two spellings of one name and another name; two identities; two lifetimes. *)
EXTENDS IdentityStage

CONSTANTS Steve, steve, alex

MCName      == {Steve, steve, alex}
MCnormalize == [n \in MCName |-> IF n = Steve THEN steve ELSE n]
MCTtl       == {1, 2}
=============================================================================
