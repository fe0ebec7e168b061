---------------------------- MODULE Restoration ----------------------------
(***************************************************************************)
(* What the plugin is for, as the README's section "What it does and       *)
(* doesn't trust" puts it: logins come with claims, the server makes an    *)
(* auth result for each, and now and then the blank XUID field of a result *)
(* is filled with the XUID that a login claimed -- one that the front end  *)
(* goes by, of the same player name, and not used before.  There is no     *)
(* stage here, no clock, no hook and no thread.                            *)
(***************************************************************************)
CONSTANTS Login, Name, normalize, NoName, NoXuid, Blank, Claims, AuthResults,
          NoClaim, NoResult

VARIABLES
  claim,      \* what each login carries, NoClaim before it comes
  result,     \* what the server makes of it, NoResult before it does
  barred,     \* the logins whose claims the front end does not go by
  spent       \* the logins whose XUID has been written somewhere

vars == <<claim, result, barred, spent>>

Init ==
  /\ claim = [l \in Login |-> NoClaim]
  /\ result = [l \in Login |-> NoResult]
  /\ barred = {} /\ spent = {}

Arrive(l, c) ==
  /\ claim[l] = NoClaim
  /\ claim' = [claim EXCEPT ![l] = c]
  /\ barred' \in {barred, barred \cup {l}}
  /\ UNCHANGED <<result, spent>>

Judge(l, r) ==
  /\ result[l] = NoResult
  /\ result' = [result EXCEPT ![l] = r]
  /\ UNCHANGED <<claim, barred, spent>>

(* m's XUID goes into l's field; nearly always, l = m. *)
Restore(l, m) ==
  /\ m \notin spent /\ m \notin barred
  /\ claim[m].name # NoName /\ claim[m].xuid # NoXuid
  /\ result[l].engaged /\ result[l].name # NoName /\ result[l].xuid = Blank
  /\ normalize[result[l].name] = normalize[claim[m].name]
  /\ result' = [result EXCEPT ![l].xuid = claim[m].xuid]
  /\ spent' = spent \cup {m}
  /\ UNCHANGED <<claim, barred>>

Next ==
  \E l \in Login :
    \/ \E c \in Claims : Arrive(l, c)
    \/ \E r \in AuthResults : Judge(l, r)
    \/ \E m \in Login : Restore(l, m)

Spec == Init /\ [][Next]_vars

=============================================================================
