------------------------------- MODULE MCRelay -------------------------------
(***************************************************************************)
(* Two addresses that share bytes with instructions.  Either call changes  *)
(* no volatile register but rax, any one of them, or all.                  *)
(***************************************************************************)
EXTENDS Relay

MChelper == <<255, 208, 195, 72, 129, 236, 8, 0>>
MCinject == <<195, 72, 15, 17, 132, 36, 127, 0>>
MCLeavings == {{}, Volatile} \cup {{r} : r \in Volatile}
=============================================================================
