------------------------------ MODULE StageMap ------------------------------
(***************************************************************************)
(* The table inside IdentityStage (plugin/src/stage.h) as operators on     *)
(* values: what each method makes of the table, with the mutex held.  A    *)
(* table is a function from folded player names to entries; an entry is an *)
(* identity and the time at which it stops counting.  IdentityStage adds   *)
(* the object's state to these operators; LoginPath uses them in the       *)
(* threads that share the one table of the process.                        *)
(***************************************************************************)
EXTENDS Naturals, FiniteSets, Functions

CONSTANTS
  Name,       \* player names, as their bytes are
  normalize   \* the ASCII case folding of names, a function

ASSUME NormalizeAssumption == normalize \in [Name -> Name]

Key     == {normalize[n] : n \in Name}
NoEntry == [k \in {} |-> {}]        \* the empty table

(* A table of entries whose identities are in the set Identity. *)
IsTable(entries, Identity) ==
  /\ DOMAIN entries \subseteq Key
  /\ entries = [k \in DOMAIN entries |-> entries[k]]
  /\ \A k \in DOMAIN entries : entries[k] \in [identity : Identity, expires : Nat]

-----------------------------------------------------------------------------
(* sweep_locked: an entry whose deadline has come is erased, whatever its name. *)

SweepEarly(entries, now) ==     \* a mutant: a lifetime that ends one tick early
  Restrict(entries, {k \in DOMAIN entries : entries[k].expires > now + 1})

Sweep(entries, now) ==
  Restrict(entries, {k \in DOMAIN entries : entries[k].expires > now})

(* put: sweeps, then overwrites whatever is filed under the folded name. *)

PutUnfolded(entries, now, name, identity, ttl) ==   \* a mutant: files under name
  [k \in DOMAIN Sweep(entries, now) \cup {name} |->
     IF k = name THEN [identity |-> identity, expires |-> now + ttl] ELSE entries[k]]

PutFirst(entries, now, name, identity, ttl) ==   \* a mutant: emplace, not assignment
  LET swept == Sweep(entries, now)
  IN  [k \in DOMAIN swept \cup {normalize[name]} |->
         IF k \in DOMAIN swept THEN swept[k]
                               ELSE [identity |-> identity, expires |-> now + ttl]]

Put(entries, now, name, identity, ttl) ==
  LET swept == Sweep(entries, now)
      key   == normalize[name]
  IN  [k \in DOMAIN swept \cup {key} |->
         IF k = key THEN [identity |-> identity, expires |-> now + ttl]
                    ELSE swept[k]]

(* take: sweeps, then hands out and erases what is filed under the folded name.   *)
(* Found says whether there is something, Found's entry is TakenEntry, and Take   *)
(* is the table that is left.                                                     *)

Found(entries, now, name) == normalize[name] \in DOMAIN Sweep(entries, now)

TakenEntry(entries, name) == entries[normalize[name]]

TakeNothing(entries, now, name) == Sweep(entries, now)  \* a mutant: find, no erase

Take(entries, now, name) ==
  LET swept == Sweep(entries, now)
  IN  Restrict(swept, DOMAIN swept \ {normalize[name]})

(* size and staged_names sweep, then report on what is left; peek does not sweep. *)

StagedNames(entries, now) == DOMAIN Sweep(entries, now)
Size(entries, now)        == Cardinality(StagedNames(entries, now))
Peek(entries, name)       ==
  IF normalize[name] \in DOMAIN entries
    THEN {entries[normalize[name]].identity} ELSE {}

=============================================================================
