------------------------ MODULE IdentityStageProofs ------------------------
(***************************************************************************)
(* Theorems about IdentityStage, for any names, identities, lifetimes and  *)
(* any end of time: the type invariant, and that the lazily swept table    *)
(* keeps the promise of StagePromise.                                      *)
(***************************************************************************)
EXTENDS IdentityStage, StageMapProofs

(* The table is finite: without this, size is no number. *)
StageInv == TypeOK /\ IsFiniteSet(DOMAIN entries)

LEMMA InitStageInv == Init => StageInv
<1>1. DOMAIN NoEntry = {}
  BY DEF NoEntry
<1> QED
  BY <1>1, EmptyTable, FS_EmptySet DEF Init, StageInv, TypeOK

LEMMA NextStageInv == StageInv /\ [Next]_vars => StageInv'
<1> SUFFICES ASSUME StageInv, [Next]_vars PROVE StageInv'
  OBVIOUS
<1> USE NormalizeAssumption, TtlAssumption DEF StageInv, TypeOK
<1>1. ASSUME NEW n \in Name, NEW i \in Identity, NEW t \in Ttl, put(n, i, t)
      PROVE  StageInv'
  <2>1. IsTable(Put(entries, now, n, i, t), Identity)
    BY PutTable
  <2>2. IsFiniteSet(DOMAIN Put(entries, now, n, i, t))
    BY FiniteTable
  <2> QED
    BY <1>1, <2>1, <2>2 DEF put
<1>2. ASSUME NEW n \in Name, take(n) PROVE StageInv'
  <2>1. IsTable(Take(entries, now, n), Identity)
    BY TakeTable
  <2>2. Found(entries, now, n) => TakenEntry(entries, n).identity \in Identity
    BY DEF Found, TakenEntry, Sweep, Restrict, IsTable
  <2>3. IsFiniteSet(DOMAIN Take(entries, now, n))
    BY FiniteTable
  <2> QED
    BY <1>2, <2>1, <2>2, <2>3 DEF take
<1>3. CASE clear
  BY <1>3, InitStageInv, EmptyTable, FS_EmptySet DEF clear, NoEntry
<1>4. ASSUME NEW n \in Name, peek(n) PROVE StageInv'
  <2>1. Peek(entries, n) \subseteq Identity
    BY DEF Peek, IsTable
  <2> QED
    BY <1>4, <2>1 DEF peek
<1>5. CASE size \/ staged_names
  <2>1. IsTable(Sweep(entries, now), Identity)
    BY SweepTable
  <2>2. IsFiniteSet(DOMAIN Sweep(entries, now))
    BY FiniteTable
  <2>3. Size(entries, now) \in Nat /\ StagedNames(entries, now) \subseteq Key
    BY <2>1, <2>2, FS_CardinalityType DEF Size, StagedNames, IsTable
  <2> QED
    BY <1>5, <2>1, <2>2, <2>3 DEF size, staged_names
<1>6. CASE Tick
  BY <1>6 DEF Tick
<1>7. CASE UNCHANGED vars
  BY <1>7 DEF vars
<1> QED
  BY <1>1, <1>2, <1>3, <1>4, <1>5, <1>6, <1>7 DEF Next

LEMMA AlwaysStageInv == Spec => []StageInv
BY InitStageInv, NextStageInv, PTL DEF Spec

(* The table, the clock and the answers keep their shapes under any calls. *)
THEOREM IdentityStageTypeOK == Spec => []TypeOK
<1>1. StageInv => TypeOK
  BY DEF StageInv
<1> QED
  BY <1>1, AlwaysStageInv, PTL

-----------------------------------------------------------------------------
(* The refinement mapping is the table as a sweep would leave it now. *)
Live == [k \in {j \in DOMAIN entries : entries[j].expires > now} |-> entries[k]]

LEMMA LiveIsSwept == Live = Sweep(entries, now)
BY DEF Live, Sweep, Restrict

LEMMA InitPromised == Init => Promise!Init
BY DEF Init, Promise!Init, NoEntry, Promise!NoEntry

(* Every method of the stage is the corresponding step of the promise. *)
LEMMA NextPromised == StageInv /\ [Next]_vars => [Promise!Next]_(Promise!vars)
<1> SUFFICES ASSUME StageInv, [Next]_vars PROVE [Promise!Next]_(Promise!vars)
  OBVIOUS
<1> USE NormalizeAssumption, TtlAssumption DEF StageInv, TypeOK
<1>1. ASSUME NEW n \in Name, NEW i \in Identity, NEW t \in Ttl, put(n, i, t)
      PROVE  Promise!Offer(n, i, t)
  <2>1. Live' = [k \in DOMAIN Live \cup {normalize[n]} |->
                   IF k = normalize[n] THEN [identity |-> i, expires |-> now + t] ELSE Live[k]]
    BY <1>1 DEF put, Put, Sweep, Restrict, Live
  <2> QED
    BY <1>1, <2>1 DEF put, Promise!Offer, Promise!Offered, Live
<1>2. ASSUME NEW n \in Name, take(n) PROVE Promise!Redeem(n)
  <2>1. Live' = [k \in DOMAIN Live \ {normalize[n]} |-> Live[k]]
    BY <1>2 DEF take, Take, Sweep, Restrict, Live
  <2>2. Found(entries, now, n) <=> normalize[n] \in DOMAIN Live
    BY DEF Found, Sweep, Restrict, Live
  <2>3. Found(entries, now, n) => TakenEntry(entries, n) = Live[normalize[n]]
    BY DEF Found, TakenEntry, Sweep, Restrict, Live
  <2> QED
    BY <1>2, <2>1, <2>2, <2>3 DEF take, Promise!Redeem, Live
<1>3. ASSUME clear PROVE Promise!Revoke
  BY <1>3 DEF clear, Promise!Revoke, NoEntry, Promise!NoEntry
<1>4. ASSUME NEW n \in Name, peek(n) PROVE Promise!Look(n)
  <2>1. Peek(entries, n) \in {{}} \cup {{i} : i \in Identity}
    BY DEF Peek, IsTable
  <2>2. normalize[n] \in DOMAIN Live => Peek(entries, n) = {Live[normalize[n]].identity}
    BY DEF Peek, Live
  <2> QED
    BY <1>4, <2>1, <2>2 DEF peek, Promise!Look, Live
<1>5. ASSUME size \/ staged_names PROVE Promise!Count \/ Promise!List
  <2>1. Live' = Live
    BY <1>5 DEF size, staged_names, Sweep, Restrict, Live
  <2>2. StagedNames(entries, now) = DOMAIN Live
    BY LiveIsSwept DEF StagedNames
  <2>3. CASE size
    <3>1. returned' = <<"size", {Cardinality(DOMAIN Live)}>> /\ now' = now
      BY <2>2, <2>3 DEF size, Size
    <3> QED
      BY <3>1, <2>1 DEF Promise!Count, Live, Cardinality, Promise!Cardinality
  <2>4. CASE staged_names
    <3>1. returned' = <<"staged_names", DOMAIN Live>> /\ now' = now
      BY <2>2, <2>4 DEF staged_names
    <3> QED
      BY <3>1, <2>1 DEF Promise!List, Live
  <2> QED
    BY <1>5, <2>3, <2>4
<1>6. ASSUME Tick PROVE Promise!Pass
  <2>1. Live' = [k \in {j \in DOMAIN Live : Live[j].expires > now'} |-> Live[k]]
    BY <1>6 DEF Tick, Live, IsTable
  <2> QED
    BY <1>6, <2>1 DEF Tick, Promise!Pass, Live
<1>7. CASE UNCHANGED vars
  BY <1>7 DEF vars, Promise!vars
<1> QED
  BY <1>1, <1>2, <1>3, <1>4, <1>5, <1>6, <1>7 DEF Next, Promise!Next

(* Whatever is called and whenever the table is swept, what IdentityStage returns is   *)
(* what a table would from which an identity is gone the moment its time is up.        *)
THEOREM IdentityStageKeepsPromise == Spec => KeepsPromise
BY InitPromised, NextPromised, AlwaysStageInv, PTL DEF Spec, KeepsPromise, Promise!Spec

=============================================================================
