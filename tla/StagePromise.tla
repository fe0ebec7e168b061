---------------------------- MODULE StagePromise ----------------------------
(***************************************************************************)
(* What IdentityStage (plugin/src/stage.h) promises its callers, with no   *)
(* word on how: an identity offered under a name can be redeemed once,     *)
(* under any spelling of that name, until its time is up, and no trace of  *)
(* it is left after that.  Here an identity is gone at the very moment its *)
(* time is up; the code only notices when some method sweeps the table.    *)
(***************************************************************************)
EXTENDS StageMap

CONSTANTS Identity, Ttl

VARIABLES
  live,   \* what can be redeemed: a table without outdated entries
  clock,
  answer  \* the last call and what it returned: identities, names, or how many there are

vars == <<live, clock, answer>>

Offered(name, identity, ttl) ==
  [k \in DOMAIN live \cup {normalize[name]} |->
     IF k = normalize[name] THEN [identity |-> identity, expires |-> clock + ttl]
                            ELSE live[k]]

Init == live = NoEntry /\ clock = 0 /\ answer = <<"none", {}>>

Offer(name, identity, ttl) ==
  /\ live' = Offered(name, identity, ttl)
  /\ answer' = <<"put", {}>>
  /\ UNCHANGED clock

Redeem(name) ==
  /\ \/ /\ normalize[name] \in DOMAIN live
        /\ answer' = <<"take", {live[normalize[name]].identity}>>
     \/ /\ normalize[name] \notin DOMAIN live
        /\ answer' = <<"take", {}>>
  /\ live' = [k \in DOMAIN live \ {normalize[name]} |-> live[k]]
  /\ UNCHANGED clock

Revoke == live' = NoEntry /\ answer' = <<"clear", {}>> /\ UNCHANGED clock

Count == answer' = <<"size", {Cardinality(DOMAIN live)}>> /\ UNCHANGED <<live, clock>>

List == answer' = <<"staged_names", DOMAIN live>> /\ UNCHANGED <<live, clock>>

(* A look promises less: what can be redeemed is shown, and in its absence perhaps *)
(* an identity whose time was up.                                                  *)
Look(name) ==
  /\ \/ /\ normalize[name] \in DOMAIN live
        /\ answer' = <<"peek", {live[normalize[name]].identity}>>
     \/ /\ normalize[name] \notin DOMAIN live
        /\ answer' \in {"peek"} \X ({{}} \cup {{i} : i \in Identity})
  /\ UNCHANGED <<live, clock>>

Pass ==
  /\ clock' = clock + 1
  /\ live' = [k \in {j \in DOMAIN live : live[j].expires > clock'} |-> live[k]]
  /\ UNCHANGED answer

Next ==
  \/ \E n \in Name, i \in Identity, t \in Ttl : Offer(n, i, t)
  \/ \E n \in Name : Redeem(n) \/ Look(n)
  \/ Revoke \/ Count \/ List
  \/ Pass

Spec == Init /\ [][Next]_vars

=============================================================================
