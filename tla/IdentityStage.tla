--------------------------- MODULE IdentityStage ---------------------------
(***************************************************************************)
(* The object identity_stage() of the process (plugin/src/stage.h): its    *)
(* table, the steady clock its methods read, and what the last method      *)
(* returned.  Every method holds mutex_ from its first to its last line,   *)
(* so a method is one action, and the order of calls of several threads is *)
(* any order at all.  A method's clock readings are one reading: a clock   *)
(* that moves inside a method is a clock that moved before it.             *)
(***************************************************************************)
EXTENDS StageMap

CONSTANTS
  Identity,  \* what is staged: an XUID and the SelfSignedId it came with
  Ttl,       \* lifetimes that callers pass, in ticks of the clock
  MaxTime    \* bound: the clock stops here

ASSUME TtlAssumption == Ttl \subseteq Nat \ {0}
ASSUME MaxTimeAssumption == MaxTime \in Nat

VARIABLES
  entries,   \* entries_
  now,       \* std::chrono::steady_clock::now()
  returned   \* the method last called and what it returned; {} when that is nothing

vars == <<entries, now, returned>>

Init == entries = NoEntry /\ now = 0 /\ returned = <<"none", {}>>

put(name, identity, ttl) ==
  /\ entries' = Put(entries, now, name, identity, ttl)
  /\ returned' = <<"put", {}>>
  /\ UNCHANGED now

take(name) ==
  /\ entries' = Take(entries, now, name)
  /\ \/ /\ Found(entries, now, name)
        /\ returned' = <<"take", {TakenEntry(entries, name).identity}>>
     \/ /\ ~Found(entries, now, name)
        /\ returned' = <<"take", {}>>
  /\ UNCHANGED now

clear == entries' = NoEntry /\ returned' = <<"clear", {}>> /\ UNCHANGED now

peek(name) == returned' = <<"peek", Peek(entries, name)>> /\ UNCHANGED <<entries, now>>

size ==
  /\ entries' = Sweep(entries, now)
  /\ returned' = <<"size", {Size(entries, now)}>>
  /\ UNCHANGED now

staged_names ==
  /\ entries' = Sweep(entries, now)
  /\ returned' = <<"staged_names", StagedNames(entries, now)>>
  /\ UNCHANGED now

Tick == now < MaxTime /\ now' = now + 1 /\ UNCHANGED <<entries, returned>>

Next ==
  \/ \E n \in Name, i \in Identity, t \in Ttl : put(n, i, t)
  \/ \E n \in Name : take(n) \/ peek(n)
  \/ clear \/ size \/ staged_names
  \/ Tick

Spec == Init /\ [][Next]_vars

-----------------------------------------------------------------------------
(* The table, the clock and the answers have the shapes the methods rely on. *)
TypeOK ==
  /\ IsTable(entries, Identity)
  /\ now \in Nat
  /\ returned \in {"none", "put", "take", "clear", "peek", "size", "staged_names"}
                 \X SUBSET (Identity \cup Key \cup Nat)

(* The lazily swept table of the code is the promise's table of live identities:  *)
(* an entry that has expired and not been erased yet makes no difference to what  *)
(* any later call returns.                                                        *)
Promise == INSTANCE StagePromise WITH
  live   <- [k \in {j \in DOMAIN entries : entries[j].expires > now} |-> entries[k]],
  clock  <- now,
  answer <- returned

KeepsPromise == Promise!Spec

=============================================================================
