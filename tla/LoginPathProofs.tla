--------------------------- MODULE LoginPathProofs ---------------------------
(***************************************************************************)
(* Theorems about LoginPath and CppFrontEnd, for any number of logins,     *)
(* names and XUIDs, any configuration files and any interleaving of the    *)
(* threads: the type invariant; that a plugin which calls its hook         *)
(* installed is live; that LoginPath implements Restoration, and so does   *)
(* the same path under either front end; and under either, that no         *)
(* identity is lost, that the latest one of a name is the one handed out,  *)
(* and that a login that comes later goes by the configuration.            *)
(***************************************************************************)
EXTENDS CppFrontEnd, StageMapProofs

(* What a login's position says about it: nothing is known before its packet comes; *)
(* one about to be staged carries what the handler checked; it has an auth result   *)
(* from the hook on, and an identity from take on.  TypeOK is not inductive without *)
(* this: put files claim[l].name, and inject_entry writes taken[l].xuid.            *)
WayOK(l) ==
  /\ pc[l] = "away" => claim[l] = NoClaim /\ l \notin rejected
  /\ pc[l] = "staging" => /\ claim[l].name \in Name /\ claim[l].xuid \in Xuid
                          /\ claim[l].auth # "xbox" /\ l \notin rejected
  /\ pc[l] \in {"away", "clearing", "staging", "validating"} => result[l] = NoResult
  /\ pc[l] \in {"away", "clearing", "staging", "validating", "hooked", "sizing", "taking"}
       => taken[l] = NoIdentity
  /\ pc[l] \in {"applying", "writing", "injected"} => taken[l] \in Identity
  /\ pc[l] = "writing" => result[l].xuid = Blank

TypeInv == TypeOK /\ \A l \in Login : WayOK(l)

USE DEF Ways, Ends

LEMMA WantedType == LoginPathAssumption /\ TypeOK => Wanted \in InjectConfig
BY DEF LoginPathAssumption, TypeOK, Wanted, InjectConfig, PluginConfig

LEMMA InitTypeInv == Init => TypeInv
<1> SUFFICES ASSUME Init PROVE TypeInv
  OBVIOUS
<1> USE LoginPathAssumption DEF LoginPathAssumption, Init
<1>1. IsTable(entries, Identity)
  BY EmptyTable
<1>2. g_config \in InjectConfig
  BY DEF InjectConfig
<1>3. NoClaim \in Claim
  BY DEF NoClaim, Claim
<1>4. NoResult \in AuthResult
  BY DEF NoResult, AuthResult
<1>5. TypeOK
  BY <1>1, <1>2, <1>3, <1>4 DEF TypeOK
<1>6. \A l \in Login : WayOK(l)
  BY DEF WayOK
<1> QED
  BY <1>5, <1>6 DEF TypeInv

(* The plugin's callbacks touch neither the stage nor a login. *)
LEMMA LifecycleTypeInv == TypeInv /\ Lifecycle => TypeInv'
<1> SUFFICES ASSUME TypeInv, Lifecycle PROVE TypeInv'
  OBVIOUS
<1> USE DEF TypeInv
<1>0. Wanted \in InjectConfig
  BY LoginPathAssumption, WantedType
<1>1. /\ UNCHANGED <<entries, now, logins, rejected, due, standing>>
      /\ newcomers' \in {newcomers, {}}
      /\ life' \in {"unloaded", "loaded", "checking", "configuring", "hooking", "hooked",
                    "running", "idle", "disabling", "disabled"}
      /\ config' \in Configs /\ hookInstalled' \in BOOLEAN
      /\ g_injection_enabled' \in BOOLEAN /\ patched' \in BOOLEAN
  BY DEF TypeOK, Lifecycle, OnLoad, OnEnable, InstallRefused, InstallBegins, AssignSome,
         Arm, HookFails, Hook, OnEnableReturns, OnDisable, Uninstall, stage, shim, plugin,
         history
<1>2. g_config' \in InjectConfig
  <2>1. CASE AssignSome
    BY <2>1, <1>0 DEF AssignSome, Torn, TypeOK, InjectConfig
  <2>2. CASE Arm
    BY <2>2, <1>0 DEF Arm
  <2>3. CASE ~AssignSome /\ ~Arm
    BY <2>3 DEF TypeOK, Lifecycle, OnLoad, OnEnable, InstallRefused, InstallBegins,
         HookFails, Hook, OnEnableReturns, OnDisable, Uninstall, shim
  <2> QED
    BY <2>1, <2>2, <2>3
<1>3. TypeOK'
  BY <1>1, <1>2 DEF TypeOK, logins
<1>4. \A l \in Login : WayOK(l)'
  BY <1>1 DEF WayOK, logins
<1> QED
  BY <1>3, <1>4

(* What a step of login l leaves alone: the other logins, and all that is not named. *)
Others(l) ==
  \A m \in Login \ {l} :
    /\ pc'[m] = pc[m] /\ claim'[m] = claim[m] /\ result'[m] = result[m]
    /\ taken'[m] = taken[m] /\ (m \in rejected' <=> m \in rejected)

(* Preservation of TypeInv by a step of one login follows from the step's effect on *)
(* that login and on the stage.                                                     *)
LEMMA OneLoginTypeInv ==
  ASSUME TypeInv, NEW l \in Login, UNCHANGED <<shim, plugin>>, Others(l),
         IsTable(entries', Identity), now' = now,
         pc' \in [Login -> {"away"} \cup Ways \cup Ends],
         claim' \in [Login -> Claim], result' \in [Login -> AuthResult],
         taken' \in [Login -> Identity \cup {NoIdentity}],
         rejected' \subseteq Login, due' \in [Login -> Nat],
         standing' \subseteq Login, newcomers' \subseteq Login, WayOK(l)'
  PROVE  TypeInv'
<1>1. TypeOK'
  BY DEF TypeInv, TypeOK, shim, plugin
<1>2. ASSUME NEW m \in Login PROVE WayOK(m)'
  <2>1. CASE m = l
    BY <2>1
  <2>2. CASE m # l
    BY <2>2 DEF Others, WayOK, TypeInv
  <2> QED
    BY <2>1, <2>2
<1> QED
  BY <1>1, <1>2 DEF TypeInv

LEMMA ReceiveTypeInv ==
  ASSUME TypeInv, NEW l \in Login, NEW c \in Claims, Receive(l, c)
  PROVE  TypeInv' /\ Others(l)
<1> USE DEF TypeInv
<1>1. c \in Claim
  BY LoginPathAssumption DEF LoginPathAssumption
<1>2. Others(l)
  BY DEF Receive, TypeOK, Others
<1>3. /\ pc' \in [Login -> {"away"} \cup Ways \cup Ends]
      /\ claim' \in [Login -> Claim]
      /\ rejected' \subseteq Login
  BY <1>1 DEF Receive, TypeOK
<1>4. WayOK(l)'
  <2>1. /\ claim'[l] = c /\ pc[l] = "away" /\ UNCHANGED <<result, taken>>
        /\ pc'[l] \in {"validating", "clearing", "staging"}
        /\ pc'[l] = "staging" => Stageable(c) /\ rejected' = rejected
    BY DEF Receive, TypeOK
  <2>2. Stageable(c) => c.name \in Name /\ c.xuid \in Xuid /\ c.auth # "xbox"
    BY <1>1 DEF Stageable, Claim
  <2> QED
    BY <2>1, <2>2 DEF WayOK
<1>5. TypeInv'
  BY <1>2, <1>3, <1>4, OneLoginTypeInv DEF Receive, TypeOK, stage
<1> QED
  BY <1>2, <1>5

LEMMA ClearStageTypeInv ==
  ASSUME TypeInv, NEW l \in Login, ClearStage(l) PROVE TypeInv' /\ Others(l)
<1> USE DEF TypeInv
<1>1. Others(l) /\ pc' \in [Login -> {"away"} \cup Ways \cup Ends]
  BY DEF ClearStage, TypeOK, Others, history
<1>2. WayOK(l)'
  BY DEF ClearStage, TypeOK, WayOK, history
<1>3. TypeInv'
  BY <1>1, <1>2, EmptyTable, OneLoginTypeInv DEF ClearStage, TypeOK, history
<1> QED
  BY <1>1, <1>3

LEMMA StageIdentityTypeInv ==
  ASSUME TypeInv, NEW l \in Login, StageIdentity(l) PROVE TypeInv' /\ Others(l)
<1> USE DEF TypeInv
<1>1. Others(l) /\ pc' \in [Login -> {"away"} \cup Ways \cup Ends]
  BY DEF StageIdentity, TypeOK, Others
<1>2. WayOK(l)'
  BY DEF StageIdentity, TypeOK, WayOK
<1>3. g_config.ttl \in Nat /\ now \in Nat
  BY DEF TypeOK, InjectConfig
<1>4. due' \in [Login -> Nat]
  BY <1>3 DEF StageIdentity, TypeOK
<1>5. IsTable(entries', Identity)
  <2> DEFINE id == [login |-> l, xuid |-> claim[l].xuid]
  <2>1. claim[l].name \in Name /\ id \in Identity
    BY DEF StageIdentity, WayOK, Identity
  <2>2. IsTable(Put(entries, now, claim[l].name, id, g_config.ttl), Identity)
    BY <1>3, <2>1, PutTable DEF TypeOK
  <2> QED
    BY <2>2 DEF StageIdentity, TypeOK
<1>6. TypeInv'
  BY <1>1, <1>2, <1>4, <1>5, OneLoginTypeInv DEF StageIdentity, TypeOK
<1> QED
  BY <1>1, <1>6

LEMMA PassingTypeInv ==
  ASSUME TypeInv, NEW l \in Login,
         Drop(l) \/ (\E r \in AuthResults : Validate(l, r)) \/ EnterInject(l) \/ CheckStage(l)
  PROVE  TypeInv' /\ Others(l)
<1> USE DEF TypeInv
<1>1. Others(l)
  BY DEF Drop, Validate, EnterInject, CheckStage, TypeOK, Others, history
<1>2. pc' \in [Login -> {"away"} \cup Ways \cup Ends]
  BY DEF Drop, Validate, EnterInject, CheckStage, TypeOK
<1>3. result' \in [Login -> AuthResult]
  BY LoginPathAssumption
  DEF LoginPathAssumption, Drop, Validate, EnterInject, CheckStage, TypeOK
<1>4. WayOK(l)'
  BY DEF Drop, Validate, EnterInject, CheckStage, TypeOK, WayOK, history
<1>5. IsTable(entries', Identity)
  <2>1. IsTable(entries, Identity) /\ now \in Nat
    BY DEF TypeOK
  <2>2. IsTable(Sweep(entries, now), Identity)
    BY <2>1, SweepTable
  <2> QED
    BY <2>1, <2>2 DEF Drop, Validate, EnterInject, CheckStage, stage
<1>6. TypeInv'
  BY <1>1, <1>2, <1>3, <1>4, <1>5, OneLoginTypeInv
  DEF Drop, Validate, EnterInject, CheckStage, TypeOK, stage, history
<1> QED
  BY <1>1, <1>6

LEMMA TakeIdentityTypeInv ==
  ASSUME TypeInv, NEW l \in Login, TakeIdentity(l) PROVE TypeInv' /\ Others(l)
<1> USE DEF TypeInv
<1> DEFINE name == result[l].name
<1>1. Others(l) /\ pc' \in [Login -> {"away"} \cup Ways \cup Ends]
  BY DEF TakeIdentity, TypeOK, Others, history
<1>2. CASE result[l].engaged /\ name # NoName
  <2>1. name \in Name
    BY <1>2 DEF TypeOK, AuthResult
  <2>2. /\ IsTable(Take(entries, now, name), Identity)
        /\ Found(entries, now, name) => TakenEntry(entries, name).identity \in Identity
    BY <2>1, TakeTable DEF TypeOK
  <2>3. /\ entries' = Take(entries, now, name)
        /\ \/ pc'[l] = "not_staged" /\ taken' = taken
           \/ /\ pc'[l] = "applying"
              /\ taken' = [taken EXCEPT ![l] = TakenEntry(entries, name).identity]
              /\ Found(entries, now, name)
    BY <1>2 DEF TakeIdentity, TypeOK
  <2>4. taken' \in [Login -> Identity \cup {NoIdentity}]
    BY <2>2, <2>3 DEF TypeOK
  <2>5. WayOK(l)'
    BY <2>2, <2>3 DEF TakeIdentity, TypeOK, WayOK, history
  <2> QED
    BY <1>1, <2>2, <2>3, <2>4, <2>5, OneLoginTypeInv DEF TakeIdentity, TypeOK, history
<1>3. CASE ~result[l].engaged \/ name = NoName
  <2>1. WayOK(l)'
    BY <1>3 DEF TakeIdentity, TypeOK, WayOK, history
  <2> QED
    BY <1>1, <1>3, <2>1, OneLoginTypeInv DEF TakeIdentity, TypeOK, history
<1> QED
  BY <1>1, <1>2, <1>3

LEMMA CheckIdentityTypeInv ==
  ASSUME TypeInv, NEW l \in Login, CheckIdentity(l) PROVE TypeInv' /\ Others(l)
<1> USE DEF TypeInv
<1>1. /\ pc'[l] = Checked(taken[l], result[l].xuid) /\ taken[l] \in Identity
      /\ UNCHANGED <<stage, shim, plugin, claim, result, taken, history>>
  BY DEF CheckIdentity, TypeOK, WayOK
<1>2. /\ pc'[l] \in Ends \cup {"writing"} /\ pc'[l] # "injected"
      /\ pc'[l] = "writing" => result[l].xuid = Blank
  BY <1>1 DEF Checked
<1>3. pc' \in [Login -> {"away"} \cup Ways \cup Ends]
  BY <1>2 DEF CheckIdentity, TypeOK
<1>4. Others(l)
  BY DEF CheckIdentity, TypeOK, Others, history
<1>5. WayOK(l)'
  BY <1>1, <1>2 DEF WayOK, history
<1>6. TypeInv'
  BY <1>1, <1>3, <1>4, <1>5, OneLoginTypeInv DEF TypeOK, history, stage
<1> QED
  BY <1>4, <1>6

LEMMA WriteXuidTypeInv ==
  ASSUME TypeInv, NEW l \in Login, WriteXuid(l) PROVE TypeInv' /\ Others(l)
<1> USE DEF TypeInv
<1>1. taken[l].xuid \in Xuid
  BY DEF WriteXuid, WayOK, Identity
<1>2. pc'[l] \in {"injected", "write_refused"}
      /\ pc' \in [Login -> {"away"} \cup Ways \cup Ends]
  BY DEF WriteXuid, TypeOK
<1>3. result' \in [Login -> AuthResult]
  BY <1>1 DEF WriteXuid, TypeOK, AuthResult
<1>4. Others(l)
  BY DEF WriteXuid, TypeOK, Others, history
<1>5. WayOK(l)'
  BY <1>2 DEF WriteXuid, TypeOK, WayOK, history
<1>6. TypeInv'
  BY <1>2, <1>3, <1>4, <1>5, OneLoginTypeInv DEF WriteXuid, TypeOK, history, stage
<1> QED
  BY <1>4, <1>6

LEMMA StepOthers ==
  ASSUME TypeInv, NEW l \in Login, Step(l) PROVE TypeInv' /\ Others(l)
BY ClearStageTypeInv, StageIdentityTypeInv, PassingTypeInv, TakeIdentityTypeInv,
   CheckIdentityTypeInv, WriteXuidTypeInv DEF Step

LEMMA NextTypeInv == TypeInv /\ [Next]_vars => TypeInv'
<1> SUFFICES ASSUME TypeInv, [Next]_vars PROVE TypeInv'
  OBVIOUS
<1>1. ASSUME NEW l \in Login, Step(l) PROVE TypeInv'
  BY <1>1, StepOthers
<1>2. ASSUME NEW l \in Login, NEW c \in Claims, Receive(l, c) PROVE TypeInv'
  BY <1>2, ReceiveTypeInv
<1>3. CASE Lifecycle
  BY <1>3, LifecycleTypeInv
<1>4. CASE Tick
  BY <1>4 DEF TypeInv, TypeOK, WayOK, Tick, shim, plugin, logins, history
<1>5. CASE UNCHANGED vars
  BY <1>5 DEF TypeInv, TypeOK, WayOK, vars, stage, shim, plugin, logins, history
<1> QED
  BY <1>1, <1>2, <1>3, <1>4, <1>5 DEF Next

LEMMA AlwaysTypeInv == Spec => []TypeInv
BY InitTypeInv, NextTypeInv, PTL DEF Spec

(* The type invariant of LoginPath: every table, record and position stays within  *)
(* what plugin/src/stage.h, inject.cpp and __init__.py declare.                    *)
THEOREM LoginPathTypeOK == Spec => []TypeOK
<1>1. TypeInv => TypeOK
  BY DEF TypeInv
<1> QED
  BY <1>1, AlwaysTypeInv, PTL

-----------------------------------------------------------------------------
(* From the moment the hook is in place until on_disable, nothing but on_disable can *)
(* run; from Arm on, g_config is what the loaded configuration asks for.             *)
LifeInv ==
  /\ life \in {"hooking", "hooked", "running"} => g_injection_enabled /\ g_config = Wanted
  /\ life \in {"hooked", "running"} => patched
  /\ hookInstalled => life = "running"

(* Nobody but the callbacks writes to the shim and the plugin. *)
LEMMA OnlyLifecycle == [Next]_vars => Lifecycle \/ UNCHANGED <<shim, plugin>>
BY DEF Next, Step, Receive, ClearStage, StageIdentity, Drop, Validate, EnterInject,
   CheckStage, TakeIdentity, CheckIdentity, WriteXuid, Tick, vars

LEMMA NextLifeInv == TypeInv /\ LifeInv /\ [Next]_vars => LifeInv'
<1> SUFFICES ASSUME TypeInv, LifeInv, [Next]_vars PROVE LifeInv'
  OBVIOUS
<1> USE DEF LifeInv
<1>1. CASE UNCHANGED <<shim, plugin>>
  BY <1>1 DEF shim, plugin, Wanted
<1>2. CASE Lifecycle
  <2>1. CASE OnLoad \/ OnEnable \/ InstallRefused \/ InstallBegins \/ AssignSome
    BY <2>1 DEF OnLoad, OnEnable, InstallRefused, InstallBegins, AssignSome, plugin, shim, Wanted
  <2>2. CASE Arm \/ HookFails \/ Hook \/ OnEnableReturns \/ OnDisable \/ Uninstall
    BY <2>2 DEF Arm, HookFails, Hook, OnEnableReturns, OnDisable, Uninstall, shim, Wanted
  <2> QED
    BY <1>2, <2>1, <2>2 DEF Lifecycle
<1> QED
  BY <1>1, <1>2, OnlyLifecycle

LEMMA AlwaysLifeInv == Spec => [](TypeInv /\ LifeInv)
<1>1. Init => LifeInv
  BY DEF Init, LifeInv
<1>2. TypeInv /\ LifeInv /\ [Next]_vars => LifeInv'
  BY NextLifeInv
<1> QED
  BY <1>1, <1>2, AlwaysTypeInv, PTL DEF Spec

(* Whatever fails in on_enable and however often the plugin is reloaded, a plugin that *)
(* reports its hook installed has the relay patched in, injection enabled, and all of  *)
(* g_config as its configuration asks (xf_install, xf_uninstall, on_enable).           *)
THEOREM LoginPathInstalledMeansLive == Spec => []InstalledMeansLive
<1>1. LifeInv => InstalledMeansLive
  BY DEF LifeInv, InstalledMeansLive
<1> QED
  BY <1>1, AlwaysLifeInv, PTL
-----------------------------------------------------------------------------
(* LoginPath implements Restoration.  The invariant below says where an identity      *)
(* comes from, wherever it is -- in the stage or in the hands of inject_entry -- and  *)
(* that it is in one place only.                                                      *)

(* The identity id, filed under key, is what a login carried that was not turned away. *)
Origin(id, key) ==
  LET m == id.login
  IN  /\ pc[m] \notin {"away", "clearing", "staging"}
      /\ m \notin rejected
      /\ claim[m].name \in Name /\ claim[m].xuid = id.xuid
      /\ normalize[claim[m].name] = key

StagedOrigin == \A k \in DOMAIN entries : Origin(entries[k].identity, k)

HeldOrigin ==
  \A l \in Login : taken[l] \in Identity =>
    /\ result[l].engaged /\ result[l].name \in Name
    /\ Origin(taken[l], normalize[result[l].name])

(* What inject_entry took is in the stage no more, and was given to one login only. *)
TakenOnce ==
  \A l \in Login : taken[l] \in Identity =>
    /\ \A k \in DOMAIN entries : entries[k].identity.login # taken[l].login
    /\ \A m \in Login : taken[m] \in Identity /\ taken[m].login = taken[l].login => m = l

OriginInv == StagedOrigin /\ HeldOrigin /\ TakenOnce

LEMMA NoIdentityIsNone == NoIdentity \notin Identity
BY LoginPathAssumption DEF LoginPathAssumption, NoIdentity, Identity

LEMMA TableIdentities ==
  ASSUME TypeOK PROVE \A k \in DOMAIN entries : entries[k].identity \in Identity
BY DEF TypeOK, IsTable

LEMMA InitOriginInv == Init => OriginInv
<1> SUFFICES ASSUME Init PROVE OriginInv
  OBVIOUS
<1>1. DOMAIN entries = {} /\ \A l \in Login : taken[l] \notin Identity
  BY NoIdentityIsNone DEF Init, NoEntry
<1> QED
  BY <1>1 DEF OriginInv, StagedOrigin, HeldOrigin, TakenOnce

(* A step that only drops entries, and gives nobody an identity, keeps the origins, *)
(* as long as it leaves alone the packets and results of logins that are past them. *)
LEMMA DroppingKeepsOrigin ==
  ASSUME TypeInv, OriginInv,
         \A k \in DOMAIN entries' : k \in DOMAIN entries /\ entries'[k] = entries[k],
         UNCHANGED taken,
         \A m \in Login : pc[m] \notin {"away", "clearing", "staging"} =>
           /\ pc'[m] \notin {"away", "clearing", "staging"}
           /\ claim'[m] = claim[m] /\ (m \in rejected' <=> m \in rejected),
         \A m \in Login : taken[m] \in Identity =>
           result'[m].name = result[m].name /\ result'[m].engaged = result[m].engaged
  PROVE  OriginInv'
<1>1. \A k \in DOMAIN entries : entries[k].identity \in Identity
  BY TableIdentities DEF TypeInv
<1>2. \A key : \A id \in Identity : Origin(id, key) => Origin(id, key)'
  BY DEF Origin, Identity
<1>3. StagedOrigin'
  BY <1>1, <1>2 DEF OriginInv, StagedOrigin
<1>4. HeldOrigin'
  BY <1>2 DEF OriginInv, HeldOrigin
<1>5. TakenOnce'
  BY DEF OriginInv, TakenOnce
<1> QED
  BY <1>3, <1>4, <1>5 DEF OriginInv

LEMMA LifecycleOrigin == TypeInv /\ OriginInv /\ Lifecycle => OriginInv'
<1> SUFFICES ASSUME TypeInv, OriginInv, Lifecycle PROVE OriginInv'
  OBVIOUS
<1>1. UNCHANGED <<entries, pc, claim, result, taken, rejected>>
  BY DEF Lifecycle, OnLoad, OnEnable, InstallRefused, InstallBegins, AssignSome, Arm,
     HookFails, Hook, OnEnableReturns, OnDisable, Uninstall, stage, logins, history
<1> QED
  BY <1>1, DroppingKeepsOrigin

LEMMA ReceiveOrigin ==
  ASSUME TypeInv, OriginInv, NEW l \in Login, NEW c \in Claims, Receive(l, c)
  PROVE  OriginInv'
<1>1. Others(l) /\ pc[l] = "away" /\ UNCHANGED <<entries, result, taken>>
  BY ReceiveTypeInv DEF Receive, stage
<1> QED
  BY <1>1, DroppingKeepsOrigin DEF Others

LEMMA ClearStageOrigin ==
  ASSUME TypeInv, OriginInv, NEW l \in Login, ClearStage(l) PROVE OriginInv'
<1>1. /\ Others(l) /\ pc[l] = "clearing" /\ DOMAIN entries' = {}
      /\ UNCHANGED <<claim, result, taken, rejected>>
  BY ClearStageTypeInv DEF ClearStage, NoEntry, history
<1> QED
  BY <1>1, DroppingKeepsOrigin DEF Others

LEMMA PassingOrigin ==
  ASSUME TypeInv, OriginInv, NEW l \in Login,
         Drop(l) \/ (\E r \in AuthResults : Validate(l, r)) \/ EnterInject(l) \/ CheckStage(l)
  PROVE  OriginInv'
<1>1. /\ Others(l) /\ pc'[l] \notin {"away", "clearing", "staging"}
      /\ UNCHANGED <<claim, taken, rejected>>
  BY PassingTypeInv DEF TypeInv, TypeOK, Drop, Validate, EnterInject, CheckStage, history
<1>2. taken[l] \in Identity => result'[l] = result[l]
  <2>1. pc[l] \in {"validating", "hooked", "sizing"}
    BY DEF Drop, Validate, EnterInject, CheckStage
  <2> QED
    BY <2>1, NoIdentityIsNone DEF TypeInv, WayOK
<1>3. \A k \in DOMAIN entries' : k \in DOMAIN entries /\ entries'[k] = entries[k]
  <2>1. entries' = entries \/ entries' = Sweep(entries, now)
    BY DEF Drop, Validate, EnterInject, CheckStage, stage
  <2> QED
    BY <2>1 DEF Sweep, Restrict
<1> QED
  BY <1>1, <1>2, <1>3, DroppingKeepsOrigin DEF Others

(* What a login carries is filed under its own name, once only: no login had anything *)
(* in the stage, or in hand, from it before.                                          *)
LEMMA FilingKeepsOrigin ==
  ASSUME TypeInv, OriginInv, NEW l \in Login, NEW name \in Name, NEW xuid \in Xuid, NEW ttl,
         Others(l), pc[l] \in {"away", "staging"}, pc'[l] = "validating", l \notin rejected,
         claim'[l].name = name, claim'[l].xuid = xuid,
         UNCHANGED <<result, taken, rejected>>,
         entries' = Put(entries, now, name, [login |-> l, xuid |-> xuid], ttl)
  PROVE  OriginInv'
<1> DEFINE id  == [login |-> l, xuid |-> xuid]
           key == normalize[name]
<1>1. id \in Identity
  BY DEF Identity
<1>2. /\ key \in DOMAIN entries' /\ entries'[key].identity = id
      /\ \A k \in DOMAIN entries' \ {key} : k \in DOMAIN entries /\ entries'[k] = entries[k]
  BY PutEntries
<1>3. \A k \in DOMAIN entries : entries[k].identity \in Identity
  BY TableIdentities DEF TypeInv
<1>4. \A k : \A i \in Identity : Origin(i, k) => i.login # l /\ Origin(i, k)'
  BY DEF Origin, Identity, Others
<1>5. Origin(id, key)'
  BY DEF Origin
<1>6. StagedOrigin'
  <2> SUFFICES ASSUME NEW k \in DOMAIN entries' PROVE Origin(entries[k].identity, k)'
    BY DEF StagedOrigin
  <2>1. CASE k = key
    BY <1>2, <1>5, <2>1
  <2>2. CASE k # key
    BY <1>2, <1>3, <1>4, <2>2 DEF OriginInv, StagedOrigin
  <2> QED
    BY <2>1, <2>2
<1>7. HeldOrigin'
  BY <1>4 DEF OriginInv, HeldOrigin
<1>8. TakenOnce'
  BY <1>2, <1>3, <1>4 DEF OriginInv, HeldOrigin, TakenOnce
<1> QED
  BY <1>6, <1>7, <1>8 DEF OriginInv

(* xf_stage *)
LEMMA StageIdentityOrigin ==
  ASSUME TypeInv, OriginInv, NEW l \in Login, StageIdentity(l) PROVE OriginInv'
<1>1. /\ Others(l) /\ pc[l] = "staging" /\ pc'[l] = "validating"
      /\ UNCHANGED <<claim, result, taken, rejected>>
  BY StageIdentityTypeInv DEF StageIdentity, TypeInv, TypeOK
<1>2. CASE entries' = entries
  BY <1>1, <1>2, DroppingKeepsOrigin DEF Others
<1>3. CASE entries' = Put(entries, now, claim[l].name,
                          [login |-> l, xuid |-> claim[l].xuid], g_config.ttl)
  BY <1>1, <1>3, FilingKeepsOrigin DEF TypeInv, WayOK
<1> QED
  BY <1>2, <1>3 DEF StageIdentity

(* take moves an identity from the stage to one login. *)
LEMMA TakeIdentityOrigin ==
  ASSUME TypeInv, OriginInv, NEW l \in Login, TakeIdentity(l) PROVE OriginInv'
<1> DEFINE name == result[l].name
<1>1. /\ Others(l) /\ pc[l] = "taking" /\ taken[l] \notin Identity
      /\ pc'[l] \notin {"away", "clearing", "staging"}
      /\ UNCHANGED <<claim, result, rejected>>
  BY TakeIdentityTypeInv, NoIdentityIsNone
  DEF TakeIdentity, TypeInv, TypeOK, WayOK, history
<1>2. CASE UNCHANGED entries /\ UNCHANGED taken
  BY <1>1, <1>2, DroppingKeepsOrigin DEF Others
<1>3. CASE entries' = Take(entries, now, name) /\ result[l].engaged /\ name # NoName
  <2>1. name \in Name
    BY <1>3 DEF TypeInv, TypeOK, AuthResult
  <2>2. IsTable(entries, Identity) /\ now \in Nat
    BY DEF TypeInv, TypeOK
  <2>3. /\ \A k \in DOMAIN entries' : k \in DOMAIN entries /\ entries'[k] = entries[k]
        /\ normalize[name] \notin DOMAIN entries'
        /\ Found(entries, now, name) =>
             /\ normalize[name] \in DOMAIN entries
             /\ TakenEntry(entries, name) = entries[normalize[name]]
             /\ TakenEntry(entries, name).identity \in Identity
    <3>1. Found(entries, now, name) => TakenEntry(entries, name).identity \in Identity
      BY <2>2, TakeTable
    <3> QED
      BY <1>3, <3>1 DEF Take, Found, TakenEntry, Sweep, Restrict
  <2>4. CASE UNCHANGED taken
    BY <1>1, <2>3, <2>4, DroppingKeepsOrigin DEF Others
  <2>5. CASE /\ Found(entries, now, name)
             /\ taken' = [taken EXCEPT ![l] = TakenEntry(entries, name).identity]
    <3> DEFINE id == entries[normalize[name]].identity
    <3>1. id \in Identity /\ Origin(id, normalize[name]) /\ normalize[name] \in DOMAIN entries
      BY <2>3, <2>5 DEF OriginInv, StagedOrigin
    <3>2. taken' = [taken EXCEPT ![l] = id] /\ taken'[l] = id
      BY <2>3, <2>5 DEF TypeInv, TypeOK
    <3>3. \A k \in DOMAIN entries : entries[k].identity \in Identity
      BY TableIdentities DEF TypeInv
    <3>4. \A k : \A i \in Identity : Origin(i, k) => Origin(i, k)'
      BY <1>1 DEF Origin, Identity, Others
    <3>5. StagedOrigin'
      BY <2>3, <3>3, <3>4 DEF OriginInv, StagedOrigin
    <3>6. HeldOrigin'
      BY <1>1, <1>3, <2>1, <3>1, <3>2, <3>4 DEF OriginInv, HeldOrigin, Others
    <3>7. \A k \in DOMAIN entries' : entries'[k].identity.login # id.login
      <4> SUFFICES ASSUME NEW k \in DOMAIN entries',
                          entries'[k].identity.login = id.login
                   PROVE  FALSE
        OBVIOUS
      <4>1. k \in DOMAIN entries /\ entries'[k] = entries[k] /\ k # normalize[name]
        BY <2>3
      <4>2. Origin(entries[k].identity, k)
        BY <4>1 DEF OriginInv, StagedOrigin
      <4> QED
        BY <3>1, <4>1, <4>2 DEF Origin
    <3>8. ASSUME NEW m \in Login, m # l, taken[m] \in Identity
          PROVE  /\ taken[m].login # id.login
                 /\ \A k \in DOMAIN entries' : entries'[k].identity.login # taken[m].login
      BY <2>3, <3>1, <3>8 DEF OriginInv, TakenOnce
    <3>9. \A m \in Login \ {l} : taken'[m] = taken[m]
      BY <1>1 DEF Others
    <3>10. TakenOnce'
      <4>1. ASSUME NEW m \in Login, taken'[m] \in Identity, NEW k \in DOMAIN entries'
            PROVE  entries'[k].identity.login # taken'[m].login
        <5>1. CASE m = l
          BY <3>2, <3>7, <5>1
        <5>2. CASE m # l
          BY <3>8, <3>9, <4>1, <5>2
        <5> QED
          BY <5>1, <5>2
      <4>2. ASSUME NEW m \in Login, NEW n \in Login, taken'[m] \in Identity,
                   taken'[n] \in Identity, taken'[n].login = taken'[m].login
            PROVE  n = m
        <5>1. CASE m # l /\ n # l
          BY <3>9, <4>2, <5>1 DEF OriginInv, TakenOnce
        <5>2. CASE m = l /\ n # l
          BY <3>2, <3>8, <3>9, <4>2, <5>2
        <5>3. CASE m # l /\ n = l
          BY <3>2, <3>8, <3>9, <4>2, <5>3
        <5> QED
          BY <5>1, <5>2, <5>3
      <4> QED
        BY <4>1, <4>2 DEF TakenOnce
    <3> QED
      BY <3>5, <3>6, <3>10 DEF OriginInv
  <2> QED
    BY <1>3, <2>4, <2>5 DEF TakeIdentity
<1> QED
  BY <1>2, <1>3 DEF TakeIdentity

LEMMA FinishingOrigin ==
  ASSUME TypeInv, OriginInv, NEW l \in Login, CheckIdentity(l) \/ WriteXuid(l)
  PROVE  OriginInv'
<1>1. /\ Others(l) /\ pc'[l] \notin {"away", "clearing", "staging"}
      /\ UNCHANGED <<entries, claim, taken, rejected>>
  BY CheckIdentityTypeInv, WriteXuidTypeInv
  DEF CheckIdentity, WriteXuid, TypeInv, TypeOK, Checked, stage, history
<1>2. \A m \in Login : /\ result'[m].name = result[m].name
                       /\ result'[m].engaged = result[m].engaged
  BY DEF CheckIdentity, WriteXuid, TypeInv, TypeOK, AuthResult
<1> QED
  BY <1>1, <1>2, DroppingKeepsOrigin DEF Others

LEMMA NextOriginInv == TypeInv /\ OriginInv /\ [Next]_vars => OriginInv'
<1> SUFFICES ASSUME TypeInv, OriginInv, [Next]_vars PROVE OriginInv'
  OBVIOUS
<1>1. ASSUME NEW l \in Login, Step(l) PROVE OriginInv'
  BY <1>1, ClearStageOrigin, StageIdentityOrigin, PassingOrigin, TakeIdentityOrigin,
     FinishingOrigin DEF Step
<1>2. ASSUME NEW l \in Login, NEW c \in Claims, Receive(l, c) PROVE OriginInv'
  BY <1>2, ReceiveOrigin
<1>3. CASE Lifecycle
  BY <1>3, LifecycleOrigin
<1>4. CASE Tick \/ UNCHANGED vars
  <2>1. UNCHANGED <<entries, pc, claim, result, taken, rejected>>
    BY <1>4 DEF Tick, vars, stage, logins, history
  <2> QED
    BY <2>1, DroppingKeepsOrigin
<1> QED
  BY <1>1, <1>2, <1>3, <1>4 DEF Next

(* The Python plugin stages no native Xbox login, so none is handed out. *)
NotNative ==
  /\ \A k \in DOMAIN entries : claim[entries[k].identity.login].auth # "xbox"
  /\ \A l \in Login : taken[l] \in Identity => claim[taken[l].login].auth # "xbox"

(* Claims of logins past their packet stay as they are, so only what goes into the *)
(* stage, and from there into a login's hands, has to be looked at.                 *)
LEMMA ClaimsStay ==
  ASSUME TypeInv, OriginInv, NEW l \in Login, Others(l),
         UNCHANGED claim \/ pc[l] = "away"
  PROVE  /\ \A k \in DOMAIN entries : claim'[entries[k].identity.login]
                                        = claim[entries[k].identity.login]
         /\ \A m \in Login : taken[m] \in Identity =>
              claim'[taken[m].login] = claim[taken[m].login]
<1>1. \A m \in Login : pc[m] # "away" => claim'[m] = claim[m]
  BY DEF Others
<1>2. \A k \in DOMAIN entries : /\ entries[k].identity.login \in Login
                                /\ pc[entries[k].identity.login] # "away"
  BY TableIdentities DEF TypeInv, OriginInv, StagedOrigin, Origin, Identity
<1>3. \A m \in Login : taken[m] \in Identity =>
        taken[m].login \in Login /\ pc[taken[m].login] # "away"
  BY DEF OriginInv, HeldOrigin, Origin, Identity
<1> QED
  BY <1>1, <1>2, <1>3

LEMMA DroppingNotNative ==
  ASSUME TypeInv, OriginInv, NotNative, NEW l \in Login, Others(l),
         UNCHANGED claim \/ pc[l] = "away",
         \A k \in DOMAIN entries' : k \in DOMAIN entries /\ entries'[k] = entries[k],
         UNCHANGED taken
  PROVE  NotNative'
BY ClaimsStay DEF NotNative

LEMMA StageIdentityNotNative ==
  ASSUME TypeInv, OriginInv, NotNative, NEW l \in Login, StageIdentity(l)
  PROVE  NotNative'
<1>1. /\ Others(l) /\ claim[l].auth # "xbox" /\ UNCHANGED <<claim, taken>>
  BY StageIdentityTypeInv DEF StageIdentity, TypeInv, WayOK
<1>2. CASE entries' = entries
  BY <1>1, <1>2, DroppingNotNative
<1>3. CASE entries' = Put(entries, now, claim[l].name,
                          [login |-> l, xuid |-> claim[l].xuid], g_config.ttl)
  <2> DEFINE id  == [login |-> l, xuid |-> claim[l].xuid]
             key == normalize[claim[l].name]
  <2>1. /\ entries'[key].identity = id
        /\ \A k \in DOMAIN entries' \ {key} : k \in DOMAIN entries /\ entries'[k] = entries[k]
    BY <1>3, PutEntries
  <2>2. id.login = l
    OBVIOUS
  <2>3. ASSUME NEW k \in DOMAIN entries'
        PROVE  claim'[entries'[k].identity.login].auth # "xbox"
    <3>1. CASE k = key
      BY <1>1, <2>1, <2>2, <3>1
    <3>2. CASE k # key
      BY <1>1, <2>1, <3>2 DEF NotNative
    <3> QED
      BY <3>1, <3>2
  <2> QED
    BY <1>1, <2>3 DEF NotNative
<1> QED
  BY <1>2, <1>3 DEF StageIdentity

(* take hands out what is there. *)
LEMMA TakeEntries ==
  ASSUME TypeInv, NEW l \in Login, TakeIdentity(l)
  PROVE  /\ \A k \in DOMAIN entries' : k \in DOMAIN entries /\ entries'[k] = entries[k]
         /\ \/ UNCHANGED taken
            \/ \E k \in DOMAIN entries : taken' = [taken EXCEPT ![l] = entries[k].identity]
<1> DEFINE name == result[l].name
<1>1. entries' = entries \/ entries' = Take(entries, now, name)
  BY DEF TakeIdentity
<1>2. \A k \in DOMAIN entries' : k \in DOMAIN entries /\ entries'[k] = entries[k]
  BY <1>1 DEF Take, Sweep, Restrict
<1>3. Found(entries, now, name) =>
        /\ normalize[name] \in DOMAIN entries
        /\ TakenEntry(entries, name).identity = entries[normalize[name]].identity
  BY DEF Found, TakenEntry, Sweep, Restrict
<1>4. \/ UNCHANGED taken
      \/ /\ Found(entries, now, name)
         /\ taken' = [taken EXCEPT ![l] = TakenEntry(entries, name).identity]
  BY DEF TakeIdentity
<1> QED
  BY <1>2, <1>3, <1>4

LEMMA TakeIdentityNotNative ==
  ASSUME TypeInv, OriginInv, NotNative, NEW l \in Login, TakeIdentity(l)
  PROVE  NotNative'
<1>1. Others(l) /\ UNCHANGED claim
  BY TakeIdentityTypeInv DEF TakeIdentity
<1>2. CASE UNCHANGED taken
  BY <1>1, <1>2, TakeEntries, DroppingNotNative
<1>3. ASSUME NEW k \in DOMAIN entries, taken' = [taken EXCEPT ![l] = entries[k].identity]
      PROVE  NotNative'
  <2>1. taken'[l] = entries[k].identity /\ \A m \in Login \ {l} : taken'[m] = taken[m]
    BY <1>3 DEF TypeInv, TypeOK
  <2> QED
    BY <1>1, <2>1, TakeEntries DEF NotNative
<1> QED
  BY <1>2, <1>3, TakeEntries

LEMMA NextNotNative == TypeInv /\ OriginInv /\ NotNative /\ [Next]_vars => NotNative'
<1> SUFFICES ASSUME TypeInv, OriginInv, NotNative, [Next]_vars PROVE NotNative'
  OBVIOUS
<1>1. ASSUME NEW l \in Login,
             \/ ClearStage(l) \/ Drop(l) \/ (\E r \in AuthResults : Validate(l, r))
             \/ EnterInject(l) \/ CheckStage(l) \/ CheckIdentity(l) \/ WriteXuid(l)
      PROVE  NotNative'
  <2>1. Others(l) /\ UNCHANGED <<claim, taken>>
    BY <1>1, StepOthers DEF Step, ClearStage, Drop, Validate, EnterInject, CheckStage,
       CheckIdentity, WriteXuid
  <2>2. entries' = entries \/ entries' = Sweep(entries, now) \/ entries' = NoEntry
    BY <1>1 DEF ClearStage, Drop, Validate, EnterInject, CheckStage, CheckIdentity,
       WriteXuid, stage
  <2>3. \A k \in DOMAIN entries' : k \in DOMAIN entries /\ entries'[k] = entries[k]
    BY <2>2 DEF Sweep, Restrict, NoEntry
  <2> QED
    BY <2>1, <2>3, DroppingNotNative
<1>2. ASSUME NEW l \in Login, NEW c \in Claims, Receive(l, c) PROVE NotNative'
  <2>1. Others(l) /\ pc[l] = "away" /\ UNCHANGED <<entries, taken>>
    BY <1>2, ReceiveTypeInv DEF Receive, stage
  <2> QED
    BY <2>1, DroppingNotNative
<1>3. CASE Lifecycle \/ Tick \/ UNCHANGED vars
  <2>1. UNCHANGED <<entries, claim, taken>>
    BY <1>3 DEF Lifecycle, OnLoad, OnEnable, InstallRefused, InstallBegins, AssignSome, Arm,
       HookFails, Hook, OnEnableReturns, OnDisable, Uninstall, Tick, vars, stage, logins
  <2> QED
    BY <2>1 DEF NotNative
<1> QED
  BY <1>1, <1>2, <1>3, StageIdentityNotNative, TakeIdentityNotNative DEF Next, Step

LEMMA InitNotNative == Init => NotNative
<1> SUFFICES ASSUME Init PROVE NotNative
  OBVIOUS
<1>1. DOMAIN entries = {} /\ \A l \in Login : taken[l] \notin Identity
  BY NoIdentityIsNone DEF Init, NoEntry
<1> QED
  BY <1>1 DEF NotNative

LEMMA AlwaysOriginInv == Spec => [](TypeInv /\ OriginInv /\ NotNative)
<1>1. Init => TypeInv /\ OriginInv /\ NotNative
  BY InitTypeInv, InitOriginInv, InitNotNative
<1>2. TypeInv /\ OriginInv /\ NotNative /\ [Next]_vars => (TypeInv /\ OriginInv /\ NotNative)'
  BY NextTypeInv, NextOriginInv, NextNotNative
<1> QED
  BY <1>1, <1>2, PTL DEF Spec

-----------------------------------------------------------------------------
(* What a step shows of itself to one who sees packets, results and the source guard  *)
(* only: nothing, a packet, a result, or a field filled with what a login m carried.  *)

Spent == {m \in Login : \E l \in Login : pc[l] = "injected" /\ taken[l].login = m}

ShowsNothing == UNCHANGED <<claim, result, rejected>> /\ Spent' = Spent

ShowsPacket(l, c) ==
  /\ claim[l] = NoClaim /\ claim' = [claim EXCEPT ![l] = c]
  /\ rejected' \in {rejected, rejected \cup {l}}
  /\ UNCHANGED result /\ Spent' = Spent

ShowsResult(l, r) ==
  /\ result[l] = NoResult /\ result' = [result EXCEPT ![l] = r]
  /\ UNCHANGED <<claim, rejected>> /\ Spent' = Spent

ShowsField(l, m) ==
  /\ m \notin Spent /\ m \notin rejected
  /\ claim[m].name # NoName /\ claim[m].xuid # NoXuid
  /\ result[l].engaged /\ result[l].name # NoName /\ result[l].xuid = Blank
  /\ normalize[result[l].name] = normalize[claim[m].name]
  /\ result' = [result EXCEPT ![l].xuid = claim[m].xuid]
  /\ Spent' = Spent \cup {m} /\ UNCHANGED <<claim, rejected>>

Shows ==
  \/ ShowsNothing
  \/ \E l \in Login, c \in Claims : ShowsPacket(l, c)
  \/ \E l \in Login, r \in AuthResults : ShowsResult(l, r)
  \/ \E l, m \in Login :
       taken[l] \in Identity /\ m = taken[l].login /\ ShowsField(l, m)

(* Only WriteXuid spends an identity: every other step leaves alone which logins *)
(* were injected, and what they had taken.                                       *)
LEMMA SpentUnchanged ==
  ASSUME NEW l \in Login, Others(l), pc[l] # "injected", pc'[l] # "injected"
  PROVE  Spent' = Spent
BY DEF Spent, Others

LEMMA ReceiveShows ==
  ASSUME TypeInv, NEW l \in Login, NEW c \in Claims, Receive(l, c)
  PROVE  ShowsPacket(l, c)
<1>1. /\ Others(l) /\ pc[l] = "away" /\ pc'[l] # "injected"
      /\ claim' = [claim EXCEPT ![l] = c] /\ UNCHANGED result
      /\ rejected' \in {rejected, rejected \cup {l}}
  BY ReceiveTypeInv DEF Receive, TypeInv, TypeOK
<1>2. claim[l] = NoClaim
  BY <1>1 DEF TypeInv, WayOK
<1> QED
  BY <1>1, <1>2, SpentUnchanged DEF ShowsPacket

LEMMA ValidateShows ==
  ASSUME TypeInv, NEW l \in Login, NEW r \in AuthResults, Validate(l, r)
  PROVE  ShowsResult(l, r)
<1>1. /\ Others(l) /\ pc[l] = "validating" /\ pc'[l] # "injected"
      /\ result' = [result EXCEPT ![l] = r] /\ UNCHANGED <<claim, rejected>>
  BY PassingTypeInv DEF Validate, TypeInv, TypeOK, history
<1>2. result[l] = NoResult
  BY <1>1 DEF TypeInv, WayOK
<1> QED
  BY <1>1, <1>2, SpentUnchanged DEF ShowsResult

LEMMA WriteShows ==
  ASSUME TypeInv, OriginInv, NEW l \in Login, WriteXuid(l)
  PROVE  Shows
<1>0. PICK m \in Login : m = taken[l].login
  BY DEF WriteXuid, TypeInv, WayOK, Identity
<1>1. /\ Others(l) /\ pc[l] = "writing" /\ taken[l] \in Identity /\ result[l].xuid = Blank
      /\ UNCHANGED <<claim, taken, rejected>>
  BY WriteXuidTypeInv DEF WriteXuid, TypeInv, WayOK, history
<1>2. CASE pc' = [pc EXCEPT ![l] = "write_refused"] /\ UNCHANGED result
  <2>1. pc'[l] # "injected"
    BY <1>2 DEF TypeInv, TypeOK
  <2>2. Spent' = Spent
    BY <1>1, <2>1, SpentUnchanged
  <2> QED
    BY <1>1, <1>2, <2>2 DEF Shows, ShowsNothing
<1>3. CASE /\ pc' = [pc EXCEPT ![l] = "injected"]
           /\ result' = [result EXCEPT ![l].xuid = taken[l].xuid]
  <2>1. /\ result[l].engaged /\ result[l].name \in Name
        /\ m \notin rejected
        /\ claim[m].name \in Name /\ claim[m].xuid = taken[l].xuid
        /\ normalize[claim[m].name] = normalize[result[l].name]
    BY <1>0, <1>1 DEF OriginInv, HeldOrigin, Origin
  <2>2. claim[m].name # NoName /\ claim[m].xuid # NoXuid /\ result[l].name # NoName
    BY <1>0, <1>1, <2>1, LoginPathAssumption DEF LoginPathAssumption, Identity
  <2>3. m \notin Spent
    BY <1>0, <1>1 DEF Spent, OriginInv, TakenOnce, TypeInv, WayOK
  <2>4. Spent' = Spent \cup {m}
    BY <1>0, <1>1, <1>3 DEF Spent, Others, TypeInv, TypeOK
  <2>5. result' = [result EXCEPT ![l].xuid = claim[m].xuid]
    BY <1>3, <2>1
  <2>6. ShowsField(l, m)
    BY <1>1, <2>1, <2>2, <2>3, <2>4, <2>5 DEF ShowsField
  <2> QED
    BY <1>0, <1>1, <2>6 DEF Shows
<1> QED
  BY <1>2, <1>3 DEF WriteXuid

LEMMA OtherStepsShow ==
  ASSUME TypeInv,
         \/ Lifecycle \/ Tick \/ UNCHANGED vars
         \/ \E l \in Login : \/ ClearStage(l) \/ StageIdentity(l) \/ Drop(l) \/ EnterInject(l)
                             \/ CheckStage(l) \/ TakeIdentity(l) \/ CheckIdentity(l)
  PROVE  ShowsNothing
<1>1. CASE Lifecycle \/ Tick \/ UNCHANGED vars
  <2>1. UNCHANGED <<claim, result, rejected, pc, taken>>
    BY <1>1 DEF Lifecycle, OnLoad, OnEnable, InstallRefused, InstallBegins, AssignSome,
       Arm, HookFails, Hook, OnEnableReturns, OnDisable, Uninstall, Tick, vars,
       logins, history
  <2> QED
    BY <2>1 DEF ShowsNothing, Spent
<1>2. ASSUME NEW l \in Login,
             \/ ClearStage(l) \/ StageIdentity(l) \/ Drop(l) \/ EnterInject(l)
             \/ CheckStage(l) \/ TakeIdentity(l) \/ CheckIdentity(l)
      PROVE  ShowsNothing
  <2>1. Others(l)
    BY <1>2, StepOthers DEF Step
  <2>2. UNCHANGED <<claim, result, rejected>>
    BY <1>2 DEF ClearStage, StageIdentity, Drop, EnterInject, CheckStage, TakeIdentity,
       CheckIdentity, history
  <2>3. pc[l] # "injected" /\ pc'[l] # "injected"
    BY <1>2 DEF ClearStage, StageIdentity, Drop, EnterInject, CheckStage, TakeIdentity,
       CheckIdentity, Checked, TypeInv, TypeOK
  <2>4. Spent' = Spent
    BY <2>1, <2>3, SpentUnchanged
  <2> QED
    BY <2>2, <2>4 DEF ShowsNothing
<1> QED
  BY <1>1, <1>2

LEMMA NextShows == TypeInv /\ OriginInv /\ [Next]_vars => Shows
<1> SUFFICES ASSUME TypeInv, OriginInv, [Next]_vars PROVE Shows
  OBVIOUS
<1>1. ASSUME NEW l \in Login, NEW c \in Claims, Receive(l, c) PROVE Shows
  BY <1>1, ReceiveShows DEF Shows
<1>2. ASSUME NEW l \in Login, NEW r \in AuthResults, Validate(l, r) PROVE Shows
  BY <1>2, ValidateShows DEF Shows
<1>3. ASSUME NEW l \in Login, WriteXuid(l) PROVE Shows
  BY <1>3, WriteShows
<1>4. ASSUME ShowsNothing PROVE Shows
  BY <1>4 DEF Shows
<1> QED
  BY <1>1, <1>2, <1>3, <1>4, OtherStepsShow DEF Next, Step

(* What shows is a step of Restoration, if the barred logins grow as they do there and *)
(* no field is filled with the XUID of one of them.                                    *)
Native == {m \in Login : claim[m].auth = "xbox"}

LEMMA NativeGrows ==
  ASSUME TypeInv, NEW l \in Login, NEW c \in Claims, ShowsPacket(l, c)
  PROVE  Native' \in {Native, Native \cup {l}}
<1>1. \A m \in Login \ {l} : claim'[m] = claim[m]
  BY DEF ShowsPacket, TypeInv, TypeOK
<1>2. claim[l].auth # "xbox"
  BY DEF ShowsPacket, NoClaim
<1>3. CASE claim'[l].auth = "xbox"
  BY <1>1, <1>3 DEF Native
<1>4. CASE claim'[l].auth # "xbox"
  BY <1>1, <1>2, <1>4 DEF Native
<1> QED
  BY <1>3, <1>4

LEMMA InitRestores == Init => Restoring!Init
BY DEF Init, Restoring!Init, NoClaim

LEMMA ShowsRestores ==
  ASSUME TypeInv, NotNative, Shows PROVE [Restoring!Next]_(Restoring!vars)
<1>1. CASE ShowsNothing
  BY <1>1 DEF ShowsNothing, Spent, Restoring!vars
<1>2. ASSUME NEW l \in Login, NEW c \in Claims, ShowsPacket(l, c) PROVE Restoring!Next
  <2>1. Native' \in {Native, Native \cup {l}}
    BY <1>2, NativeGrows
  <2>2. (rejected \cup Native)' \in {rejected \cup Native, (rejected \cup Native) \cup {l}}
    BY <1>2, <2>1 DEF ShowsPacket
  <2>3. Restoring!Arrive(l, c)
    BY <1>2, <2>2 DEF ShowsPacket, Restoring!Arrive, Spent, Native
  <2> QED
    BY <2>3 DEF Restoring!Next
<1>3. ASSUME NEW l \in Login, NEW r \in AuthResults, ShowsResult(l, r) PROVE Restoring!Next
  <2>1. Restoring!Judge(l, r)
    BY <1>3 DEF ShowsResult, Restoring!Judge, Spent
  <2> QED
    BY <2>1 DEF Restoring!Next
<1>4. ASSUME NEW l \in Login, NEW m \in Login,
             taken[l] \in Identity, m = taken[l].login, ShowsField(l, m)
      PROVE  Restoring!Next
  <2>1. claim[m].auth # "xbox"
    BY <1>4 DEF NotNative
  <2>2. Restoring!Restore(l, m)
    BY <1>4, <2>1 DEF ShowsField, Restoring!Restore, Spent
  <2> QED
    BY <2>2 DEF Restoring!Next
<1> QED
  BY <1>1, <1>2, <1>3, <1>4 DEF Shows

(* LoginPath implements Restoration: in every interleaving of logins, clock and plugin *)
(* lifecycle, a blank XUID field is the only one ever filled, with the XUID of an      *)
(* accepted relayed login of the same folded name, and each such login's XUID fills    *)
(* one field at most (inject_entry, IdentityStage::take, on_packet_receive).           *)
THEOREM LoginPathRestores == Spec => Restores
<1>1. Init => Restoring!Init
  BY InitRestores
<1>2. TypeInv /\ OriginInv /\ NotNative /\ [Next]_vars => [Restoring!Next]_(Restoring!vars)
  BY NextShows, ShowsRestores
<1> QED
  BY <1>1, <1>2, AlwaysOriginInv, PTL DEF Spec, Restores, Restoring!Spec

-----------------------------------------------------------------------------
(* The C++ front end.  Its packet handler files an identity in one call, before BDS *)
(* sees the packet, with the lifetime loadConfig left in the configuration: put     *)
(* makes entries that count for a time only if that is positive.                    *)
TtlKept == front = "cpp" /\ life # "unloaded" => config.ttl \in Nat \ {0}

EitherInv ==
  /\ TypeInv /\ OriginInv /\ LifeInv /\ TtlKept
  /\ front = "python" => NotNative

LEMMA LoadedIsConfig ==
  ASSUME NEW c \in Configs, NEW detected \in BOOLEAN
  PROVE  Loaded(c, detected) \in Configs /\ Loaded(c, detected).ttl \in Nat \ {0}
<1>1. c \in PluginConfig
  BY LoginPathAssumption DEF LoginPathAssumption
<1>2. Loaded(c, detected).ttl \in Nat \ {0}
  BY <1>1, LoginPathAssumption, CppFrontEndAssumption
  DEF LoginPathAssumption, CppFrontEndAssumption, Loaded, PluginConfig
<1> QED
  BY <1>2, CppFrontEndAssumption DEF CppFrontEndAssumption

(* onLoad is an OnLoad, and onEnable takes the steps of the Python plugin's on_enable. *)
LEMMA CppLoadsAlike == (onLoad => OnLoad) /\ (onEnable => Lifecycle)
BY LoadedIsConfig DEF onLoad, OnLoad, onEnable, Lifecycle

LEMMA CppEnableKeepsTtl == onEnable => UNCHANGED config /\ life # "unloaded"
BY DEF onEnable, OnEnable, InstallRefused, InstallBegins, AssignSome, Arm, HookFails,
   Hook, OnEnableReturns, plugin

LEMMA OnDisableEither ==
  ASSUME TypeInv, OriginInv, LifeInv, onDisable
  PROVE  TypeInv' /\ OriginInv' /\ LifeInv' /\ ShowsNothing
<1>1. /\ UNCHANGED <<stage, shim, config, logins, history>>
      /\ hookInstalled' = FALSE /\ life' = "disabled"
  BY DEF onDisable
<1>2. TypeInv'
  BY <1>1 DEF TypeInv, TypeOK, WayOK, stage, shim, logins, history
<1>3. OriginInv'
  BY <1>1, DroppingKeepsOrigin DEF stage, logins, history
<1>4. LifeInv'
  BY <1>1 DEF LifeInv
<1>5. ShowsNothing
  BY <1>1 DEF ShowsNothing, Spent, logins, history
<1> QED
  BY <1>2, <1>3, <1>4, <1>5

(* What onPacketReceive does to its login, to the stage and to nothing else. *)
LEMMA PacketTypeInv ==
  ASSUME TypeInv, TtlKept, front = "cpp",
         NEW l \in Login, NEW c \in Claims, onPacketReceive(l, c)
  PROVE  TypeInv' /\ Others(l)
<1> USE DEF TypeInv
<1> DEFINE id == [login |-> l, xuid |-> c.xuid]
<1>1. c \in Claim
  BY LoginPathAssumption DEF LoginPathAssumption
<1>0. /\ pc[l] = "away" /\ pc' = [pc EXCEPT ![l] = "validating"]
      /\ claim' = [claim EXCEPT ![l] = c]
      /\ UNCHANGED <<now, shim, plugin, result, taken, rejected>>
  BY DEF onPacketReceive
<1>2. /\ Others(l) /\ pc' \in [Login -> {"away"} \cup Ways \cup Ends]
      /\ claim' \in [Login -> Claim]
  BY <1>0, <1>1 DEF TypeOK, Others, Ways
<1>3. WayOK(l)'
  BY <1>0 DEF TypeOK, WayOK
<1>4. CASE UNCHANGED <<entries, due, standing>>
  BY <1>2, <1>3, <1>4, OneLoginTypeInv DEF onPacketReceive, TypeOK
<1>5. CASE /\ Subscribed /\ Stages(c)
           /\ entries' = Put(entries, now, c.name, id, config.ttl)
           /\ due' = [due EXCEPT ![l] = now + config.ttl]
           /\ standing' = (standing \ Namesakes(c.name)) \cup {l}
  <2>1. c.name \in Name /\ id \in Identity
    BY <1>1, <1>5 DEF Stages, Claim, Identity
  <2>2. config.ttl \in Nat /\ now \in Nat
    BY <1>5 DEF Subscribed, TtlKept, TypeOK
  <2>3. IsTable(entries', Identity)
    <3>1. IsTable(Put(entries, now, c.name, id, config.ttl), Identity)
      BY <2>1, <2>2, PutTable DEF TypeOK
    <3> QED
      BY <1>5, <3>1
  <2>4. due' \in [Login -> Nat]
    BY <1>5, <2>2 DEF TypeOK
  <2> QED
    BY <1>2, <1>3, <2>3, <2>4, OneLoginTypeInv DEF onPacketReceive, TypeOK
<1>6. TypeInv'
  BY <1>4, <1>5 DEF onPacketReceive
<1> QED
  BY <1>2, <1>6

LEMMA PacketOrigin ==
  ASSUME TypeInv, OriginInv, TtlKept, front = "cpp",
         NEW l \in Login, NEW c \in Claims, onPacketReceive(l, c)
  PROVE  OriginInv'
<1>1. /\ Others(l) /\ pc[l] = "away" /\ pc'[l] = "validating" /\ claim'[l] = c
      /\ UNCHANGED <<result, taken, rejected>>
  BY PacketTypeInv DEF onPacketReceive, TypeInv, TypeOK
<1>2. CASE UNCHANGED entries
  BY <1>1, <1>2, DroppingKeepsOrigin DEF Others
<1>3. CASE /\ Stages(c)
           /\ entries' = Put(entries, now, c.name, [login |-> l, xuid |-> c.xuid], config.ttl)
  <2>1. c.name \in Name /\ c.xuid \in Xuid /\ l \notin rejected
    BY <1>1, <1>3, LoginPathAssumption
    DEF LoginPathAssumption, Stages, Claim, TypeInv, WayOK
  <2> QED
    BY <1>1, <1>3, <2>1, FilingKeepsOrigin
<1> QED
  BY <1>2, <1>3 DEF onPacketReceive

LEMMA PacketShows ==
  ASSUME TypeInv, TtlKept, front = "cpp",
         NEW l \in Login, NEW c \in Claims, onPacketReceive(l, c)
  PROVE  ShowsPacket(l, c)
<1>1. /\ Others(l) /\ pc[l] = "away" /\ pc'[l] # "injected" /\ claim[l] = NoClaim
      /\ claim' = [claim EXCEPT ![l] = c] /\ UNCHANGED <<result, rejected>>
  BY PacketTypeInv DEF onPacketReceive, TypeInv, TypeOK, WayOK
<1> QED
  BY <1>1, SpentUnchanged DEF ShowsPacket

(* A step of either front end is a step of LoginPath, or one of the two C++ callbacks *)
(* that have no like in it.                                                           *)
LEMMA EitherStep ==
  ASSUME EitherInv, [EitherNext]_<<vars, front>>
  PROVE  /\ front' = front /\ TtlKept'
         /\ \/ [Next]_vars
            \/ front = "cpp" /\ onDisable
            \/ front = "cpp" /\ \E l \in Login, c \in Claims : onPacketReceive(l, c)
<1> USE DEF EitherInv, TtlKept
<1>1. CASE front = "python" /\ Next /\ UNCHANGED front
  BY <1>1
<1>2. CASE front = "cpp" /\ CppNext /\ UNCHANGED front
  <2>1. CASE onLoad
    <3>1. config'.ttl \in Nat \ {0}
      BY <2>1, LoadedIsConfig DEF onLoad
    <3> QED
      BY <1>2, <2>1, <3>1, CppLoadsAlike DEF Next, Lifecycle
  <2>2. CASE onEnable
    BY <1>2, <2>2, CppLoadsAlike, CppEnableKeepsTtl DEF Next
  <2>3. CASE onDisable
    BY <1>2, <2>3 DEF onDisable
  <2>4. ASSUME NEW l \in Login, Step(l) PROVE [Next]_vars /\ TtlKept'
    BY <1>2, <2>4 DEF Next, Step, ClearStage, StageIdentity, Drop, Validate, EnterInject,
       CheckStage, TakeIdentity, CheckIdentity, WriteXuid, plugin
  <2>5. ASSUME NEW l \in Login, NEW c \in Claims, onPacketReceive(l, c) PROVE TtlKept'
    BY <1>2, <2>5 DEF onPacketReceive, plugin
  <2>6. CASE Tick
    BY <1>2, <2>6 DEF Next, Tick, plugin
  <2> QED
    BY <1>2, <2>1, <2>2, <2>3, <2>4, <2>5, <2>6 DEF CppNext
<1>3. CASE UNCHANGED <<vars, front>>
  BY <1>3 DEF vars, plugin
<1> QED
  BY <1>1, <1>2, <1>3 DEF EitherNext

LEMMA NextEitherInv == EitherInv /\ [EitherNext]_<<vars, front>> => EitherInv'
<1> SUFFICES ASSUME EitherInv, [EitherNext]_<<vars, front>> PROVE EitherInv'
  OBVIOUS
<1> USE DEF EitherInv
<1>0. front' = front /\ TtlKept'
  BY EitherStep
<1>1. CASE [Next]_vars
  BY <1>0, <1>1, NextTypeInv, NextOriginInv, NextLifeInv, NextNotNative
<1>2. CASE front = "cpp" /\ onDisable
  BY <1>0, <1>2, OnDisableEither
<1>3. ASSUME front = "cpp", NEW l \in Login, NEW c \in Claims, onPacketReceive(l, c)
      PROVE  EitherInv'
  <2>1. LifeInv'
    BY <1>3 DEF onPacketReceive, LifeInv, Wanted, shim, plugin
  <2> QED
    BY <1>0, <1>3, <2>1, PacketTypeInv, PacketOrigin
<1> QED
  BY <1>1, <1>2, <1>3, EitherStep

LEMMA AlwaysEitherInv == EitherSpec => []EitherInv
<1>1. EitherInit => EitherInv
  BY InitTypeInv, InitOriginInv, InitNotNative DEF EitherInit, EitherInv, Init, LifeInv, TtlKept
<1>2. EitherInv /\ [EitherNext]_<<vars, front>> => EitherInv'
  BY NextEitherInv
<1> QED
  BY <1>1, <1>2, PTL DEF EitherSpec

LEMMA EitherShows == EitherInv /\ [EitherNext]_<<vars, front>> => Shows /\ front' = front
<1> SUFFICES ASSUME EitherInv, [EitherNext]_<<vars, front>> PROVE Shows
  BY EitherStep
<1> USE DEF EitherInv
<1>1. CASE [Next]_vars
  BY <1>1, NextShows
<1>2. CASE onDisable
  BY <1>2, OnDisableEither DEF Shows
<1>3. ASSUME front = "cpp", NEW l \in Login, NEW c \in Claims, onPacketReceive(l, c)
      PROVE  Shows
  BY <1>3, PacketShows DEF Shows
<1> QED
  BY <1>1, <1>2, <1>3, EitherStep

(* The logins that the front end does not go by, for being native ones. *)
FrontNative == {m \in Login : front = "python" /\ claim[m].auth = "xbox"}

LEMMA ShowsFrontRestores ==
  ASSUME EitherInv, Shows, front' = front
  PROVE  [FrontRestoring!Next]_(FrontRestoring!vars)
<1> USE DEF EitherInv
<1>0. /\ front = "python" => FrontNative = Native /\ FrontNative' = Native'
      /\ front # "python" => FrontNative = {} /\ FrontNative' = {}
  BY DEF FrontNative, Native
<1>1. CASE ShowsNothing
  BY <1>1 DEF ShowsNothing, Spent, FrontRestoring!vars
<1>2. ASSUME NEW l \in Login, NEW c \in Claims, ShowsPacket(l, c) PROVE FrontRestoring!Next
  <2>1. FrontNative' \in {FrontNative, FrontNative \cup {l}}
    BY <1>0, <1>2, NativeGrows
  <2>2. (rejected \cup FrontNative)'
          \in {rejected \cup FrontNative, (rejected \cup FrontNative) \cup {l}}
    BY <1>2, <2>1 DEF ShowsPacket
  <2>3. FrontRestoring!Arrive(l, c)
    BY <1>2, <2>2 DEF ShowsPacket, FrontRestoring!Arrive, Spent, FrontNative
  <2> QED
    BY <2>3 DEF FrontRestoring!Next
<1>3. ASSUME NEW l \in Login, NEW r \in AuthResults, ShowsResult(l, r)
      PROVE  FrontRestoring!Next
  <2>1. FrontRestoring!Judge(l, r)
    BY <1>3 DEF ShowsResult, FrontRestoring!Judge, Spent
  <2> QED
    BY <2>1 DEF FrontRestoring!Next
<1>4. ASSUME NEW l \in Login, NEW m \in Login,
             taken[l] \in Identity, m = taken[l].login, ShowsField(l, m)
      PROVE  FrontRestoring!Next
  <2>1. front = "python" => claim[m].auth # "xbox"
    BY <1>4 DEF NotNative
  <2>2. FrontRestoring!Restore(l, m)
    BY <1>4, <2>1 DEF ShowsField, FrontRestoring!Restore, Spent
  <2> QED
    BY <2>2 DEF FrontRestoring!Next
<1> QED
  BY <1>1, <1>2, <1>3, <1>4 DEF Shows

(* Under either front end a blank field is the only one ever filled, with the XUID of  *)
(* a login of the same folded name, each used once: the C++ handler needs neither a    *)
(* source guard nor a look at the hook or the kind of authentication for that, whoever *)
(* wrote the claims (xuid_forward_plugin.cpp:130-163, inject_entry, IdentityStage).    *)
THEOREM EitherRestores == EitherSpec => FrontRestores
<1>1. EitherInit => FrontRestoring!Init
  BY DEF EitherInit, Init, FrontRestoring!Init, NoClaim
<1>2. EitherInv /\ [EitherNext]_<<vars, front>> =>
        [FrontRestoring!Next]_(FrontRestoring!vars)
  BY EitherShows, ShowsFrontRestores
<1> QED
  BY <1>1, <1>2, AlwaysEitherInv, PTL DEF EitherSpec, FrontRestores, FrontRestoring!Spec

(* Nor does it matter for what a plugin may say of its hook: onDisable leaves injection *)
(* armed, and yet a plugin that calls the hook installed has all of it in place         *)
(* (onEnable of xuid_forward_plugin.cpp, inject_configure, SiteHook::install).          *)
THEOREM EitherInstalledMeansLive == EitherSpec => []InstalledMeansLive
<1>1. EitherInv => InstalledMeansLive
  BY DEF EitherInv, LifeInv, InstalledMeansLive
<1> QED
  BY <1>1, AlwaysEitherInv, PTL

-----------------------------------------------------------------------------
(* The flag and g_config obey the callbacks.  FlagInv is the Python plugin's: while     *)
(* injection is on, g_config is what the loaded configuration asks for and the plugin   *)
(* is not disabled, since xf_uninstall turns it off.  A login that met the flag on      *)
(* since it was last written goes on under the same flag and the same g_config.         *)
FlagInv ==
  front = "python" /\ g_injection_enabled =>
    /\ life \in {"hooking", "hooked", "running", "idle", "disabling"}
    /\ g_config = Wanted

NewcomersInv ==
  \A l \in newcomers :
    /\ pc[l] \in {"sizing", "taking", "applying", "writing"} => g_injection_enabled
    /\ pc[l] = "writing" => ~g_config.dryRun

ConfiguredInv == FlagInv /\ NewcomersInv

LEMMA LifecycleFlagInv ==
  ASSUME TypeInv, LifeInv, FlagInv, Lifecycle, front' = front PROVE FlagInv'
<1>1. CASE OnLoad \/ OnEnable \/ InstallRefused \/ InstallBegins \/ AssignSome
  BY <1>1 DEF OnLoad, OnEnable, InstallRefused, InstallBegins, AssignSome, shim, FlagInv, Wanted
<1>2. CASE Arm \/ HookFails \/ Hook \/ OnEnableReturns \/ OnDisable \/ Uninstall
  BY <1>2 DEF Arm, HookFails, Hook, OnEnableReturns, OnDisable, Uninstall, shim, FlagInv,
     LifeInv, Wanted
<1> QED
  BY <1>1, <1>2 DEF Lifecycle

LEMMA LifecycleNewcomersInv == NewcomersInv /\ Lifecycle => NewcomersInv'
<1> SUFFICES ASSUME NewcomersInv, Lifecycle PROVE NewcomersInv'
  OBVIOUS
<1>1. UNCHANGED pc
  BY DEF Lifecycle, OnLoad, OnEnable, InstallRefused, InstallBegins, AssignSome, Arm,
     HookFails, Hook, OnEnableReturns, OnDisable, Uninstall, logins
<1>2. newcomers' = {} \/ UNCHANGED <<newcomers, g_config, g_injection_enabled>>
  BY DEF Lifecycle, OnLoad, OnEnable, InstallRefused, InstallBegins, AssignSome, Arm,
     HookFails, Hook, OnEnableReturns, OnDisable, Uninstall, shim, history
<1> QED
  BY <1>1, <1>2 DEF NewcomersInv

LEMMA StepNewcomersInv ==
  ASSUME TypeInv, NewcomersInv, NEW l \in Login, Step(l) PROVE NewcomersInv'
<1>1. Others(l) /\ UNCHANGED <<g_config, g_injection_enabled>>
  BY StepOthers DEF Step, ClearStage, StageIdentity, Drop, Validate, EnterInject, CheckStage,
     TakeIdentity, CheckIdentity, WriteXuid, shim
<1>2. newcomers \subseteq Login /\ newcomers' \in {newcomers, newcomers \cup {l}}
  BY DEF Step, ClearStage, StageIdentity, Drop, Validate, EnterInject, CheckStage,
     TakeIdentity, CheckIdentity, WriteXuid, history, TypeInv, TypeOK
<1>3. ASSUME l \in newcomers'
      PROVE  /\ pc'[l] \in {"sizing", "taking", "applying", "writing"} => g_injection_enabled
             /\ pc'[l] = "writing" => ~g_config.dryRun
  <2>1. CASE EnterInject(l)
    BY <2>1 DEF EnterInject, TypeInv, TypeOK
  <2>2. CASE ClearStage(l) \/ StageIdentity(l) \/ Drop(l) \/ (\E r \in AuthResults : Validate(l, r))
    BY <2>2 DEF ClearStage, StageIdentity, Drop, Validate, TypeInv, TypeOK
  <2>3. CASE CheckStage(l) \/ TakeIdentity(l) \/ WriteXuid(l)
    BY <1>3, <2>3
    DEF CheckStage, TakeIdentity, WriteXuid, history, NewcomersInv, TypeInv, TypeOK
  <2>4. CASE CheckIdentity(l)
    <3>1. l \in newcomers /\ pc[l] = "applying" /\ pc'[l] = Checked(taken[l], result[l].xuid)
      BY <1>3, <2>4 DEF CheckIdentity, history, TypeInv, TypeOK
    <3> QED
      BY <3>1 DEF NewcomersInv, Checked
  <2> QED
    BY <2>1, <2>2, <2>3, <2>4 DEF Step
<1> QED
  BY <1>1, <1>2, <1>3 DEF NewcomersInv, Others

LEMMA NextConfiguredInv ==
  EitherInv /\ ConfiguredInv /\ [EitherNext]_<<vars, front>> => ConfiguredInv'
<1> SUFFICES ASSUME EitherInv, ConfiguredInv, [EitherNext]_<<vars, front>>
             PROVE  ConfiguredInv'
  OBVIOUS
<1> USE DEF EitherInv, ConfiguredInv
<1>0. front' = front
  BY EitherStep
<1>1. CASE Lifecycle
  BY <1>0, <1>1, LifecycleFlagInv, LifecycleNewcomersInv
<1>2. ASSUME NEW l \in Login, Step(l) PROVE ConfiguredInv'
  <2>1. UNCHANGED <<shim, plugin>>
    BY <1>2 DEF Step, ClearStage, StageIdentity, Drop, Validate, EnterInject, CheckStage,
       TakeIdentity, CheckIdentity, WriteXuid
  <2>2. FlagInv'
    BY <1>0, <2>1 DEF FlagInv, shim, plugin, Wanted
  <2> QED
    BY <1>2, <2>2, StepNewcomersInv
<1>3. ASSUME NEW l \in Login, NEW c \in Claims,
             Receive(l, c) \/ (front = "cpp" /\ onPacketReceive(l, c))
      PROVE  ConfiguredInv'
  <2>1. UNCHANGED <<shim, plugin, newcomers>> /\ Others(l)
    BY <1>3, ReceiveTypeInv, PacketTypeInv DEF Receive, onPacketReceive
  <2>2. pc'[l] \notin {"sizing", "taking", "applying", "writing"}
    BY <1>3 DEF Receive, onPacketReceive, TypeInv, TypeOK
  <2>3. newcomers \subseteq Login
    BY DEF TypeInv, TypeOK
  <2> QED
    BY <1>0, <2>1, <2>2, <2>3 DEF FlagInv, NewcomersInv, Others, shim, plugin, Wanted
<1>4. CASE Tick \/ UNCHANGED vars
  BY <1>0, <1>4 DEF FlagInv, NewcomersInv, Tick, vars, shim, plugin, logins, history, Wanted
<1>5. CASE front = "cpp" /\ onDisable
  BY <1>0, <1>5 DEF FlagInv, NewcomersInv, onDisable, shim, logins, history
<1> QED
  BY <1>1, <1>2, <1>3, <1>4, <1>5, EitherStep DEF Next

LEMMA AlwaysConfiguredInv == EitherSpec => [](EitherInv /\ ConfiguredInv)
<1>1. EitherInit => ConfiguredInv
  BY DEF EitherInit, Init, ConfiguredInv, FlagInv, NewcomersInv
<1>2. EitherInv /\ ConfiguredInv /\ [EitherNext]_<<vars, front>> => ConfiguredInv'
  BY NextConfiguredInv
<1> QED
  BY <1>1, <1>2, AlwaysEitherInv, PTL DEF EitherSpec

(* Only WriteXuid writes. *)
LEMMA OnlyWriteXuidInjects ==
  ASSUME EitherInv, [EitherNext]_<<vars, front>>, NEW l \in Login, Injected(l)
  PROVE  pc[l] = "writing" /\ UNCHANGED <<shim, plugin>>
<1> USE DEF EitherInv
<1>1. CASE \E m \in Login : Step(m)
  <2>1. PICK m \in Login : Step(m)
    BY <1>1
  <2>2. m = l
    BY <2>1, StepOthers DEF Others, Injected
  <2>3. WriteXuid(l)
    BY <2>1, <2>2 DEF Step, ClearStage, StageIdentity, Drop, Validate, EnterInject, CheckStage,
       TakeIdentity, CheckIdentity, Checked, Injected, TypeInv, TypeOK
  <2> QED
    BY <2>3 DEF WriteXuid
<1>2. CASE Lifecycle \/ Tick \/ UNCHANGED vars \/ onDisable
  <2>1. UNCHANGED pc
    BY <1>2 DEF Lifecycle, OnLoad, OnEnable, InstallRefused, InstallBegins, AssignSome, Arm,
       HookFails, Hook, OnEnableReturns, OnDisable, Uninstall, Tick, vars, onDisable, logins
  <2> QED
    BY <2>1 DEF Injected
<1>3. ASSUME NEW m \in Login, NEW c \in Claims, Receive(m, c) \/ onPacketReceive(m, c)
      PROVE  FALSE
  BY <1>3 DEF Receive, onPacketReceive, Injected, TypeInv, TypeOK
<1> QED
  BY <1>1, <1>2, <1>3, EitherStep DEF Next

(* A login that comes to the hook when the callbacks are through with the flag and      *)
(* g_config goes by them, in any interleaving: nothing is written with dry_run, nor     *)
(* once xf_uninstall has returned, nor otherwise than a plugin that calls its hook      *)
(* installed was told (inject_configure, inject_enable, inject_entry).                  *)
THEOREM EitherAsConfigured == EitherSpec => AsConfigured
<1>1. EitherInv /\ ConfiguredInv /\ [EitherNext]_<<vars, front>> =>
        [\A l \in newcomers : Injected(l) /\ (front = "python" \/ hookInstalled) =>
           life # "disabled" /\ ~config.dryRun]_<<vars, front>>
  <2> SUFFICES ASSUME EitherInv, ConfiguredInv, [EitherNext]_<<vars, front>>,
                      NEW l \in newcomers, Injected(l), front = "python" \/ hookInstalled
               PROVE  life # "disabled" /\ ~config.dryRun
    OBVIOUS
  <2>1. l \in Login /\ config \in Configs
    BY DEF EitherInv, TypeInv, TypeOK
  <2>2. pc[l] = "writing"
    BY <2>1, OnlyWriteXuidInjects
  <2>3. g_injection_enabled /\ ~g_config.dryRun
    BY <2>2 DEF ConfiguredInv, NewcomersInv
  <2>4. life # "disabled" /\ g_config = Wanted
    BY <2>3 DEF ConfiguredInv, FlagInv, EitherInv, LifeInv
  <2> QED
    BY <2>3, <2>4 DEF Wanted
<1> QED
  BY <1>1, AlwaysConfiguredInv, PTL DEF EitherSpec, AsConfigured

-----------------------------------------------------------------------------
(* What the stage holds and what the history says of it are the same: every entry is    *)
(* of a login that stands, with the deadline it was put with, and a login that stands   *)
(* and is in time has the entry under its name.  The table is finite, or its size would *)
(* be no number.                                                                        *)
KeyOf(m) == normalize[claim[m].name]

Past(m) == pc[m] \notin {"away", "clearing", "staging"} /\ claim[m].name \in Name

EntriesStand ==
  \A k \in DOMAIN entries : LET m == entries[k].identity.login IN
    m \in standing /\ entries[k].expires = due[m]

StandingStaged ==
  \A m \in standing :
    /\ Past(m)
    /\ due[m] > now => KeyOf(m) \in DOMAIN entries /\ entries[KeyOf(m)].identity.login = m

StandInv == EntriesStand /\ StandingStaged /\ IsFiniteSet(DOMAIN entries)

(* A step of login l that files nothing, and drops only what is out of time or of a    *)
(* login that stands no more.                                                          *)
LEMMA DroppingKeepsStanding ==
  ASSUME TypeInv, StandInv, NEW l \in Login, Others(l), UNCHANGED due,
         claim' = claim \/ pc[l] = "away",
         pc[l] \in {"away", "clearing", "staging"}
           \/ pc'[l] \notin {"away", "clearing", "staging"},
         now' \in Nat, now' >= now,
         standing' \subseteq standing,
         \A k \in DOMAIN entries' : /\ k \in DOMAIN entries /\ entries'[k] = entries[k]
                                    /\ entries[k].identity.login \in standing',
         \A m \in standing' : due[m] > now /\ KeyOf(m) \in DOMAIN entries
           => KeyOf(m) \in DOMAIN entries'
  PROVE  StandInv'
<1>1. IsFiniteSet(DOMAIN entries')
  BY FS_Subset DEF StandInv
<1>2. EntriesStand'
  BY DEF StandInv, EntriesStand
<1>3. standing \subseteq Login /\ due \in [Login -> Nat] /\ now \in Nat
  BY DEF TypeInv, TypeOK
<1>4. \A m \in standing' : claim'[m] = claim[m] /\ Past(m)'
  BY <1>3 DEF StandInv, StandingStaged, Past, Others
<1>5. ASSUME NEW m \in standing', due'[m] > now'
      PROVE  KeyOf(m)' \in DOMAIN entries' /\ entries'[KeyOf(m)'].identity.login = m
  <2>1. due[m] > now
    BY <1>3, <1>5
  <2>2. KeyOf(m)' = KeyOf(m)
    BY <1>4 DEF KeyOf
  <2>3. KeyOf(m) \in DOMAIN entries /\ entries[KeyOf(m)].identity.login = m
    BY <2>1 DEF StandInv, StandingStaged
  <2> QED
    BY <2>1, <2>2, <2>3
<1>6. StandingStaged'
  BY <1>4, <1>5 DEF StandingStaged
<1> QED
  BY <1>1, <1>2, <1>6 DEF StandInv

(* What login l carries is filed under its name, and it stands instead of its namesakes. *)
LEMMA FilingKeepsStanding ==
  ASSUME TypeInv, OriginInv, StandInv, NEW l \in Login, NEW name \in Name, NEW xuid,
         NEW ttl \in Nat, Others(l), claim'[l].name = name,
         pc[l] \in {"away", "staging"}, pc'[l] = "validating", now' = now,
         entries' = Put(entries, now, name, [login |-> l, xuid |-> xuid], ttl),
         due' = [due EXCEPT ![l] = now + ttl],
         standing' = (standing \ Namesakes(name)) \cup {l}
  PROVE  StandInv'
<1> DEFINE key   == normalize[name]
           swept == Sweep(entries, now)
<1>1. standing \subseteq Login /\ due \in [Login -> Nat] /\ now \in Nat
  BY DEF TypeInv, TypeOK
<1>2. l \notin standing
  BY DEF StandInv, StandingStaged, Past
<1>3. DOMAIN entries' = DOMAIN swept \cup {key}
  BY DEF Put
<1>4. entries'[key] = [identity |-> [login |-> l, xuid |-> xuid], expires |-> now + ttl]
  BY DEF Put
<1>5. \A k \in DOMAIN entries' : k # key =>
        k \in DOMAIN swept /\ entries'[k] = entries[k]
  BY DEF Put, Sweep, Restrict
<1>6. \A k : k \in DOMAIN swept <=> k \in DOMAIN entries /\ entries[k].expires > now
  BY SweptEntries
<1>7. due'[l] = now + ttl /\ \A m \in Login \ {l} : due'[m] = due[m]
  BY <1>1
<1>8. IsFiniteSet(DOMAIN entries')
  BY FiniteTable DEF StandInv
<1>9. \A m \in standing : m \in Login /\ m # l /\ claim'[m] = claim[m] /\ Past(m) /\ Past(m)'
  BY <1>1, <1>2 DEF StandInv, StandingStaged, Past, Others
<1>10. \A m \in standing : m \in Namesakes(name) <=> KeyOf(m) = key
  BY <1>9, LoginPathAssumption DEF LoginPathAssumption, Namesakes, Past, KeyOf
<1> HIDE DEF key, swept
<1>11. ASSUME NEW k \in DOMAIN entries', k # key
       PROVE  entries'[k].identity.login \in standing' /\
              entries'[k].expires = due'[entries'[k].identity.login]
  <2>1. k \in DOMAIN entries /\ entries'[k] = entries[k]
    BY <1>5, <1>6, <1>11
  <2>2. PICK m \in standing : m = entries[k].identity.login /\ entries[k].expires = due[m]
    BY <2>1 DEF StandInv, EntriesStand
  <2>3. KeyOf(m) = k
    BY <2>1, <2>2 DEF OriginInv, StagedOrigin, Origin, KeyOf
  <2>4. m \in standing'
    BY <1>10, <1>11, <2>2, <2>3
  <2> QED
    BY <1>7, <1>9, <2>1, <2>2, <2>4
<1>12. EntriesStand'
  <2> SUFFICES ASSUME NEW k \in DOMAIN entries'
               PROVE  entries'[k].identity.login \in standing' /\
                      entries'[k].expires = due'[entries'[k].identity.login]
    BY DEF EntriesStand
  <2>1. CASE k = key
    BY <1>4, <1>7, <2>1
  <2> QED
    BY <1>11, <2>1
<1>13. StandingStaged'
  <2> SUFFICES ASSUME NEW m \in standing'
               PROVE  /\ Past(m)'
                      /\ due'[m] > now' => /\ KeyOf(m)' \in DOMAIN entries'
                                           /\ entries'[KeyOf(m)'].identity.login = m
    BY DEF StandingStaged
  <2>1. CASE m = l
    <3>1. KeyOf(m)' = key /\ Past(m)'
      BY <2>1 DEF KeyOf, Past, key
    <3> QED
      BY <1>3, <1>4, <2>1, <3>1
  <2>2. CASE m # l
    <3>1. m \in standing /\ KeyOf(m) # key
      BY <1>10, <2>2
    <3>2. KeyOf(m)' = KeyOf(m) /\ Past(m)'
      BY <1>9, <3>1 DEF KeyOf
    <3>3. ASSUME due'[m] > now'
          PROVE  /\ KeyOf(m) \in DOMAIN entries'
                 /\ entries'[KeyOf(m)].identity.login = m
      <4>1. due[m] > now
        BY <1>7, <1>9, <3>1, <3>3
      <4>2. KeyOf(m) \in DOMAIN entries /\ entries[KeyOf(m)].identity.login = m
        BY <3>1, <4>1 DEF StandInv, StandingStaged
      <4>3. entries[KeyOf(m)].expires = due[m]
        BY <4>2 DEF StandInv, EntriesStand
      <4>4. KeyOf(m) \in DOMAIN swept
        BY <1>6, <4>1, <4>2, <4>3
      <4> QED
        BY <1>3, <1>5, <3>1, <4>2, <4>4
    <3> QED
      BY <3>2, <3>3
  <2> QED
    BY <2>1, <2>2
<1> QED
  BY <1>8, <1>12, <1>13 DEF StandInv

(* Entries that outlast a sweep, or a take of another name, are those in time. *)
LEMMA StandingInTime ==
  ASSUME TypeInv, StandInv, NEW m \in standing, due[m] > now
  PROVE  KeyOf(m) \in DOMAIN Sweep(entries, now)
<1>1. KeyOf(m) \in DOMAIN entries /\ entries[KeyOf(m)].identity.login = m
  BY DEF StandInv, StandingStaged
<1>2. entries[KeyOf(m)].expires > now
  BY <1>1 DEF StandInv, EntriesStand
<1> QED
  BY <1>1, <1>2, SweptEntries

LEMMA TakeIdentityStanding ==
  ASSUME TypeInv, OriginInv, StandInv, NEW l \in Login, TakeIdentity(l)
  PROVE  StandInv'
<1> DEFINE name == result[l].name
<1>1. /\ Others(l) /\ UNCHANGED <<claim, due, now>> /\ pc[l] = "taking"
      /\ pc'[l] \notin {"away", "clearing", "staging"}
  BY TakeIdentityTypeInv DEF TakeIdentity, TypeInv, TypeOK
<1>2. now \in Nat /\ now' \in Nat /\ now' >= now
  BY <1>1 DEF TypeInv, TypeOK
<1>3. \A k \in DOMAIN entries : entries[k].identity.login \in standing
  BY DEF StandInv, EntriesStand
<1>4. CASE UNCHANGED <<entries, standing>>
  BY <1>1, <1>2, <1>3, <1>4, DroppingKeepsStanding
<1>5. CASE /\ name # NoName /\ entries' = Take(entries, now, name)
           /\ standing' = standing \ Namesakes(name)
  <2>1. \A k : k \in DOMAIN entries' <=> k \in DOMAIN Sweep(entries, now) /\ k # normalize[name]
    BY <1>5 DEF Take, Restrict
  <2>2. \A k \in DOMAIN entries' : k \in DOMAIN entries /\ entries'[k] = entries[k]
    BY <1>5, TakeEntries
  <2>3. \A m \in standing : m \in Namesakes(name) <=> KeyOf(m) = normalize[name]
    <3>1. \A m \in standing : m \in Login /\ claim[m].name \in Name
      BY DEF StandInv, StandingStaged, Past, TypeInv, TypeOK
    <3> QED
      BY <3>1, LoginPathAssumption DEF LoginPathAssumption, Namesakes, KeyOf
  <2>4. ASSUME NEW k \in DOMAIN entries'
        PROVE  entries[k].identity.login \in standing'
    <3>1. k \in DOMAIN entries /\ k # normalize[name]
      BY <2>1, <2>2
    <3>2. KeyOf(entries[k].identity.login) = k
      BY <3>1 DEF OriginInv, StagedOrigin, Origin, KeyOf
    <3> QED
      BY <1>3, <1>5, <2>3, <3>1, <3>2
  <2>5. ASSUME NEW m \in standing', due[m] > now PROVE KeyOf(m) \in DOMAIN entries'
    <3>1. m \in standing /\ KeyOf(m) # normalize[name]
      BY <1>5, <2>3
    <3> QED
      BY <2>1, <2>5, <3>1, StandingInTime
  <2>6. standing' \subseteq standing
    BY <1>5
  <2> QED
    BY <1>1, <1>2, <2>2, <2>4, <2>5, <2>6, DroppingKeepsStanding
<1> QED
  BY <1>4, <1>5 DEF TakeIdentity

LEMMA StepStanding ==
  ASSUME TypeInv, OriginInv, StandInv, NEW l \in Login, Step(l) PROVE StandInv'
<1>1. Others(l) /\ UNCHANGED <<claim, now>> /\ pc'[l] # "away"
  BY StepOthers DEF Step, ClearStage, StageIdentity, Drop, Validate, EnterInject, CheckStage,
     TakeIdentity, CheckIdentity, WriteXuid, Checked, stage, TypeInv, TypeOK
<1>2. now \in Nat /\ now' \in Nat /\ now' >= now
  BY <1>1 DEF TypeInv, TypeOK
<1>3. \A k \in DOMAIN entries : entries[k].identity.login \in standing
  BY DEF StandInv, EntriesStand
<1>4. CASE ClearStage(l)
  <2>1. DOMAIN entries' = {} /\ standing' = {} /\ UNCHANGED due /\ pc[l] = "clearing"
    BY <1>4 DEF ClearStage, NoEntry
  <2> QED
    BY <1>1, <1>2, <2>1, DroppingKeepsStanding
<1>5. CASE StageIdentity(l)
  <2>1. pc[l] = "staging" /\ pc'[l] = "validating"
    BY <1>5 DEF StageIdentity, TypeInv, TypeOK
  <2>2. CASE UNCHANGED <<entries, due, standing>>
    BY <1>1, <1>2, <1>3, <2>1, <2>2, DroppingKeepsStanding
  <2>3. CASE /\ entries' = Put(entries, now, claim[l].name,
                               [login |-> l, xuid |-> claim[l].xuid], g_config.ttl)
             /\ due' = [due EXCEPT ![l] = now + g_config.ttl]
             /\ standing' = (standing \ Namesakes(claim[l].name)) \cup {l}
    <3>1. claim[l].name \in Name /\ g_config.ttl \in Nat /\ claim'[l].name = claim[l].name
      BY <1>1, <2>1 DEF TypeInv, TypeOK, WayOK, InjectConfig
    <3> QED
      BY <1>1, <2>1, <2>3, <3>1, FilingKeepsStanding
  <2> QED
    BY <1>5, <2>2, <2>3 DEF StageIdentity
<1>6. CASE \/ Drop(l) \/ (\E r \in AuthResults : Validate(l, r)) \/ EnterInject(l)
           \/ CheckStage(l) \/ CheckIdentity(l) \/ WriteXuid(l)
  <2>1. UNCHANGED <<due, standing>> /\ pc'[l] \notin {"away", "clearing", "staging"}
    BY <1>6 DEF Drop, Validate, EnterInject, CheckStage, CheckIdentity, WriteXuid, Checked,
       history, TypeInv, TypeOK
  <2>2. entries' = entries \/ entries' = Sweep(entries, now)
    BY <1>6 DEF Drop, Validate, EnterInject, CheckStage, CheckIdentity, WriteXuid, stage
  <2>3. \A k \in DOMAIN entries' : k \in DOMAIN entries /\ entries'[k] = entries[k]
    BY <2>2, SweptEntries
  <2>4. \A m \in standing' : due[m] > now /\ KeyOf(m) \in DOMAIN entries
          => KeyOf(m) \in DOMAIN entries'
    BY <2>1, <2>2, StandingInTime
  <2> QED
    BY <1>1, <1>2, <1>3, <2>1, <2>3, <2>4, DroppingKeepsStanding
<1> QED
  BY <1>4, <1>5, <1>6, TakeIdentityStanding DEF Step

LEMMA NextStandInv ==
  EitherInv /\ StandInv /\ [EitherNext]_<<vars, front>> => StandInv'
<1> SUFFICES ASSUME EitherInv, StandInv, [EitherNext]_<<vars, front>> PROVE StandInv'
  OBVIOUS
<1> USE DEF EitherInv
<1>1. ASSUME NEW l \in Login, Step(l) PROVE StandInv'
  BY <1>1, StepStanding
<1>2. CASE Lifecycle \/ Tick \/ UNCHANGED vars \/ onDisable
  <2>1. UNCHANGED <<entries, pc, claim, due, standing>>
    BY <1>2 DEF Lifecycle, OnLoad, OnEnable, InstallRefused, InstallBegins, AssignSome, Arm,
       HookFails, Hook, OnEnableReturns, OnDisable, Uninstall, Tick, vars, onDisable,
       stage, logins, history
  <2>2. now' \in {now, now + 1} /\ now \in Nat
    BY <1>2 DEF Lifecycle, OnLoad, OnEnable, InstallRefused, InstallBegins, AssignSome, Arm,
       HookFails, Hook, OnEnableReturns, OnDisable, Uninstall, Tick, vars, onDisable,
       stage, TypeInv, TypeOK
  <2>3. \A m \in standing : due'[m] > now' => due[m] > now
    BY <2>1, <2>2 DEF TypeInv, TypeOK
  <2> QED
    BY <2>1, <2>3 DEF StandInv, EntriesStand, StandingStaged, Past, KeyOf
<1>3. ASSUME NEW l \in Login, NEW c \in Claims,
             Receive(l, c) \/ (front = "cpp" /\ onPacketReceive(l, c))
      PROVE  StandInv'
  <2>1. /\ Others(l) /\ pc[l] = "away" /\ now' = now /\ now \in Nat
        /\ \A k \in DOMAIN entries : entries[k].identity.login \in standing
    BY <1>3, ReceiveTypeInv, PacketTypeInv
    DEF Receive, onPacketReceive, stage, TypeInv, TypeOK, StandInv, EntriesStand
  <2>2. CASE UNCHANGED <<entries, due, standing>>
    BY <2>1, <2>2, DroppingKeepsStanding
  <2>3. CASE /\ front = "cpp" /\ onPacketReceive(l, c) /\ Subscribed /\ Stages(c)
             /\ entries' = Put(entries, now, c.name, [login |-> l, xuid |-> c.xuid], config.ttl)
             /\ due' = [due EXCEPT ![l] = now + config.ttl]
             /\ standing' = (standing \ Namesakes(c.name)) \cup {l}
    <3>1. c.name \in Name
      BY <2>3, LoginPathAssumption DEF LoginPathAssumption, Stages, Claim
    <3>2. config.ttl \in Nat
      BY <2>3 DEF Subscribed, TtlKept
    <3>3. claim'[l].name = c.name /\ pc'[l] = "validating"
      BY <2>3 DEF onPacketReceive, TypeInv, TypeOK
    <3> QED
      BY <2>1, <2>3, <3>1, <3>2, <3>3, FilingKeepsStanding
  <2> QED
    BY <1>3, <2>2, <2>3 DEF Receive, onPacketReceive, stage
<1> QED
  BY <1>1, <1>2, <1>3, EitherStep DEF Next

LEMMA AlwaysStandInv == EitherSpec => [](EitherInv /\ StandInv)
<1>1. EitherInit => StandInv
  <2> SUFFICES ASSUME EitherInit PROVE StandInv
    OBVIOUS
  <2>1. DOMAIN entries = {} /\ standing = {}
    BY DEF EitherInit, Init, NoEntry
  <2> QED
    BY <2>1, FS_EmptySet DEF StandInv, EntriesStand, StandingStaged
<1>2. EitherInv /\ StandInv /\ [EitherNext]_<<vars, front>> => StandInv'
  BY NextStandInv
<1> QED
  BY <1>1, <1>2, AlwaysEitherInv, PTL DEF EitherSpec

(* Which step it is that a login takes through the stage. *)
LEMMA OnlyCheckStageSizes ==
  ASSUME EitherInv, [EitherNext]_<<vars, front>>, NEW l \in Login, pc'[l] # pc[l]
  PROVE  /\ pc[l] = "sizing" => CheckStage(l)
         /\ pc[l] = "taking" => TakeIdentity(l)
<1> USE DEF EitherInv
<1>1. CASE \E m \in Login : Step(m)
  <2>1. PICK m \in Login : Step(m)
    BY <1>1
  <2>2. m = l
    BY <2>1, StepOthers DEF Others
  <2> QED
    BY <2>1, <2>2 DEF Step, ClearStage, StageIdentity, Drop, Validate, EnterInject,
       CheckStage, TakeIdentity, CheckIdentity, WriteXuid
<1>2. CASE Lifecycle \/ Tick \/ UNCHANGED vars \/ onDisable
  <2>1. UNCHANGED pc
    BY <1>2 DEF Lifecycle, OnLoad, OnEnable, InstallRefused, InstallBegins, AssignSome, Arm,
       HookFails, Hook, OnEnableReturns, OnDisable, Uninstall, Tick, vars, onDisable, logins
  <2> QED
    BY <2>1
<1>3. ASSUME NEW m \in Login, NEW c \in Claims, Receive(m, c) \/ onPacketReceive(m, c)
      PROVE  pc[l] = "away"
  BY <1>3 DEF Receive, onPacketReceive, TypeInv, TypeOK
<1> QED
  BY <1>1, <1>2, <1>3, EitherStep DEF Next

(* No identity is lost on its way: in any interleaving of logins and callbacks, under   *)
(* either front end, inject_entry comes away with nothing only if none stands that is   *)
(* in time -- none at all where it asks for size, none of the login's name where it     *)
(* asks take (inject.cpp:98, :119, IdentityStage).                                      *)
THEOREM EitherStagedIsFound == EitherSpec => StagedIsFound
<1>1. ASSUME EitherInv, StandInv, [EitherNext]_<<vars, front>>, NEW l \in Login,
             pc[l] = "sizing", pc'[l] = "nothing_staged", NEW m \in standing
      PROVE  due[m] <= now
  <2>1. CheckStage(l)
    BY <1>1, OnlyCheckStageSizes
  <2>2. Size(entries, now) = 0
    BY <1>1, <2>1 DEF CheckStage, EitherInv, TypeInv, TypeOK
  <2>3. IsFiniteSet(DOMAIN Sweep(entries, now))
    BY <1>1, FiniteTable DEF StandInv
  <2>4. DOMAIN Sweep(entries, now) = {}
    BY <2>2, <2>3, FS_EmptySet DEF Size, StagedNames
  <2>5. ~(due[m] > now)
    BY <1>1, <2>4, StandingInTime DEF EitherInv
  <2>6. due[m] \in Nat /\ now \in Nat
    BY <1>1 DEF EitherInv, TypeInv, TypeOK
  <2> QED
    BY <2>5, <2>6
<1>2. ASSUME EitherInv, StandInv, [EitherNext]_<<vars, front>>, NEW l \in Login,
             pc[l] = "taking", pc'[l] = "not_staged"
      PROVE  Standing(result[l].name) = {}
  <2> DEFINE name == result[l].name
  <2>1. TakeIdentity(l)
    BY <1>2, OnlyCheckStageSizes
  <2>2. ~Found(entries, now, name)
    BY <1>2, <2>1 DEF TakeIdentity, EitherInv, TypeInv, TypeOK
  <2>3. ASSUME NEW m \in Standing(name) PROVE FALSE
    <3>1. m \in standing /\ due[m] > now /\ KeyOf(m) = normalize[name]
      BY <2>3 DEF Standing, Namesakes, KeyOf
    <3>2. KeyOf(m) \in DOMAIN Sweep(entries, now)
      BY <1>2, <3>1, StandingInTime DEF EitherInv
    <3> QED
      BY <2>2, <3>1, <3>2 DEF Found
  <2> QED
    BY <2>3
<1>3. EitherInv /\ StandInv /\ [EitherNext]_<<vars, front>> =>
        [\A l \in Login :
           /\ pc[l] = "sizing" /\ pc'[l] = "nothing_staged" => \A m \in standing : due[m] <= now
           /\ pc[l] = "taking" /\ pc'[l] = "not_staged" => Standing(result[l].name) = {}]_vars
  BY <1>1, <1>2
<1> QED
  BY <1>3, AlwaysStandInv, PTL DEF EitherSpec, StagedIsFound

(* Nothing outlives its time, a clear or a later login of its name: in any interleaving *)
(* the XUID that inject_entry takes is the one put last under the login's name, still   *)
(* in time, and put after the last clear (put, take and clear of stage.h,               *)
(* xf_clear_stage).                                                                     *)
THEOREM EitherTakesLatest == EitherSpec => TakesLatest
<1>1. ASSUME EitherInv, StandInv, [EitherNext]_<<vars, front>>, NEW l \in Login,
             taken'[l] # taken[l]
      PROVE  \E m \in Standing(result[l].name) : taken'[l].xuid = claim[m].xuid
  <2> DEFINE name == result[l].name
  <2>1. TakeIdentity(l)
    <3>1. CASE \E m \in Login : Step(m)
      <4>1. PICK m \in Login : Step(m)
        BY <3>1
      <4>2. m = l
        BY <1>1, <4>1, StepOthers DEF Others, EitherInv
      <4> QED
        BY <1>1, <4>1, <4>2 DEF Step, ClearStage, StageIdentity, Drop, Validate,
           EnterInject, CheckStage, CheckIdentity, WriteXuid
    <3>2. CASE Lifecycle \/ Tick \/ UNCHANGED vars \/ onDisable
      BY <1>1, <3>2 DEF Lifecycle, OnLoad, OnEnable, InstallRefused, InstallBegins,
         AssignSome, Arm, HookFails, Hook, OnEnableReturns, OnDisable, Uninstall, Tick,
         vars, onDisable, logins
    <3>3. ASSUME NEW m \in Login, NEW c \in Claims, Receive(m, c) \/ onPacketReceive(m, c)
          PROVE  FALSE
      BY <1>1, <3>3 DEF Receive, onPacketReceive
    <3> QED
      BY <1>1, <3>1, <3>2, <3>3, EitherStep DEF Next
  <2>2. /\ name # NoName /\ Found(entries, now, name)
        /\ taken' = [taken EXCEPT ![l] = TakenEntry(entries, name).identity]
    BY <1>1, <2>1 DEF TakeIdentity
  <2>3. /\ normalize[name] \in DOMAIN entries /\ entries[normalize[name]].expires > now
        /\ taken'[l] = entries[normalize[name]].identity
    BY <1>1, <2>2, SweptEntries DEF Found, TakenEntry, EitherInv, TypeInv, TypeOK
  <2>4. PICK m \in standing : /\ m = entries[normalize[name]].identity.login
                              /\ due[m] > now
    BY <1>1, <2>3 DEF StandInv, EntriesStand
  <2>5. /\ claim[m].name \in Name /\ claim[m].xuid = entries[normalize[name]].identity.xuid
        /\ normalize[claim[m].name] = normalize[name]
    BY <1>1, <2>3, <2>4 DEF EitherInv, OriginInv, StagedOrigin, Origin
  <2>6. m \in Standing(name)
    BY <1>1, <2>4, <2>5, LoginPathAssumption
    DEF LoginPathAssumption, Standing, Namesakes, EitherInv, TypeInv, TypeOK
  <2> QED
    BY <2>3, <2>5, <2>6
<1>2. EitherInv /\ StandInv /\ [EitherNext]_<<vars, front>> =>
        [\A l \in Login : taken'[l] # taken[l] =>
           \E m \in Standing(result[l].name) : taken'[l].xuid = claim[m].xuid]_vars
  BY <1>1
<1> QED
  BY <1>2, AlwaysStandInv, PTL DEF EitherSpec, TakesLatest

=============================================================================
