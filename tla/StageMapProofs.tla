---------------------------- MODULE StageMapProofs ----------------------------
(***************************************************************************)
(* The operators of StageMap make tables of tables, whatever is staged in  *)
(* them: every key stays a folded name, every entry an identity and a time. *)
(***************************************************************************)
EXTENDS StageMap, FiniteSetTheorems, TLAPS

LEMMA KeyOfName == \A n \in Name : normalize[n] \in Key
BY DEF Key

LEMMA SweepTable ==
  ASSUME NEW Identity, NEW entries, IsTable(entries, Identity), NEW now
  PROVE  IsTable(Sweep(entries, now), Identity)
BY DEF IsTable, Sweep, Restrict

LEMMA PutTable ==
  ASSUME NEW Identity, NEW entries, IsTable(entries, Identity), NEW now \in Nat,
         NEW name \in Name, NEW id \in Identity, NEW ttl \in Nat
  PROVE  IsTable(Put(entries, now, name, id, ttl), Identity)
<1> DEFINE put == Put(entries, now, name, id, ttl)
<1>1. normalize[name] \in Key
  BY KeyOfName
<1>2. put = [k \in DOMAIN put |-> put[k]]
  BY DEF Put
<1>3. DOMAIN put \subseteq Key
  BY <1>1 DEF Put, Sweep, Restrict, IsTable
<1>4. \A k \in DOMAIN put : put[k] \in [identity : Identity, expires : Nat]
  BY DEF Put, Sweep, Restrict, IsTable
<1> QED
  BY <1>2, <1>3, <1>4 DEF IsTable

LEMMA TakeTable ==
  ASSUME NEW Identity, NEW entries, IsTable(entries, Identity), NEW now, NEW name
  PROVE  /\ IsTable(Take(entries, now, name), Identity)
         /\ Found(entries, now, name) => TakenEntry(entries, name).identity \in Identity
<1>1. IsTable(Take(entries, now, name), Identity)
  BY DEF IsTable, Take, Sweep, Restrict
<1>2. Found(entries, now, name) => TakenEntry(entries, name).identity \in Identity
  BY DEF Found, TakenEntry, Sweep, Restrict, IsTable
<1> QED
  BY <1>1, <1>2

(* What the methods make of a finite table is finite, however many names there are: *)
(* without this, size is no number.                                                 *)
LEMMA FiniteTable ==
  ASSUME NEW entries, IsFiniteSet(DOMAIN entries), NEW now, NEW name
  PROVE  /\ IsFiniteSet(DOMAIN Sweep(entries, now))
         /\ IsFiniteSet(DOMAIN Take(entries, now, name))
         /\ \A id, ttl : IsFiniteSet(DOMAIN Put(entries, now, name, id, ttl))
<1>1. /\ DOMAIN Sweep(entries, now) \subseteq DOMAIN entries
      /\ DOMAIN Take(entries, now, name) \subseteq DOMAIN entries
  BY DEF Sweep, Take, Restrict
<1>2. \A id, ttl : DOMAIN Put(entries, now, name, id, ttl)
                     = DOMAIN Sweep(entries, now) \cup {normalize[name]}
  BY DEF Put
<1>3. IsFiniteSet(DOMAIN Sweep(entries, now)) /\ IsFiniteSet(DOMAIN Take(entries, now, name))
  BY <1>1, FS_Subset
<1>4. IsFiniteSet(DOMAIN Sweep(entries, now) \cup {normalize[name]})
  BY <1>3, FS_AddElement
<1> QED
  BY <1>2, <1>3, <1>4

(* A sweep keeps exactly the entries whose time has not come, and keeps them as they are. *)
LEMMA SweptEntries ==
  ASSUME NEW entries, NEW now
  PROVE  \A k : /\ k \in DOMAIN Sweep(entries, now) <=>
                     k \in DOMAIN entries /\ entries[k].expires > now
                /\ k \in DOMAIN Sweep(entries, now) => Sweep(entries, now)[k] = entries[k]
BY DEF Sweep, Restrict

LEMMA EmptyTable == \A Identity : IsTable(NoEntry, Identity)
BY DEF IsTable, NoEntry

(* put files one entry, and every other was there before. *)
LEMMA PutEntries ==
  ASSUME NEW entries, NEW now, NEW name, NEW identity, NEW ttl,
         NEW after, after = Put(entries, now, name, identity, ttl)
  PROVE  /\ normalize[name] \in DOMAIN after /\ after[normalize[name]].identity = identity
         /\ \A k \in DOMAIN after \ {normalize[name]} :
              k \in DOMAIN entries /\ after[k] = entries[k]
BY DEF Put, Sweep, Restrict

=============================================================================
