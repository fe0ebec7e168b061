------------------------------ MODULE LoginPath ------------------------------
(***************************************************************************)
(* A login's way through the plugin, end to end: the packet handler of the *)
(* Python plugin (python_plugin/endstone_xuidforward/__init__.py), the C   *)
(* interface it calls (shim/xf_api.cpp), the stage both sides share        *)
(* (plugin/src/stage.h, module StageMap), and inject_entry, which the      *)
(* patched call in BDS runs on the validated login (plugin/src/inject.cpp) *)
(* -- together with the plugin being loaded, enabled, disabled and loaded  *)
(* again while logins are on their way.                                    *)
(*                                                                         *)
(* A step is what runs between two points where another thread can be seen *)
(* to have run: a method of the stage (it holds the stage's mutex), a read *)
(* or write of an atomic, a call of the shim (ctypes drops the GIL).       *)
(* BDS itself is external: it may drop a login at any time before the      *)
(* hook, and makes an auth result with any name and any XUID field.        *)
(***************************************************************************)
EXTENDS StageMap, Integers

CONSTANTS
  Login,        \* the logins of a run of the server
  Xuid,         \* XUIDs as text
  Numeric,      \* those that all_digits accepts
  Assignable,   \* those that fit the short form of a libc++ string
  NoName,       \* a name that is missing (claim) or unreadable (auth result)
  NoXuid,       \* a claimed XUID that is missing
  Blank,        \* an XUID field that is empty
  Garbled,      \* an XUID field that is neither empty nor readable
  Claims,       \* what packets may carry
  AuthResults,  \* what BDS may make of a login
  Configs,      \* what config.json may hold when the plugin is loaded
  DefaultTtl,   \* the lifetime xf_install uses for one that is not positive
  MaxTime,      \* bound: the clock stops here
  OneThread     \* TRUE: callbacks and logins run one at a time, on one thread

Claim == [local : BOOLEAN,              \* _source_allowed accepts its address
          parsed : BOOLEAN,             \* parse_login_body finds the two blobs
          auth : {"selfSigned", "xbox", "unknown"},
          name : Name \cup {NoName},    \* xname
          xuid : Xuid \cup {NoXuid},    \* xid
          consistent : BOOLEAN]         \* SelfSignedId = uuid5(namespace, xid)

AuthResult == [engaged : BOOLEAN,
               name : Name \cup {NoName},
               xuid : Xuid \cup {Blank, Garbled}]

PluginConfig == [enabled : BOOLEAN, dryRun : BOOLEAN, requireLocal : BOOLEAN,
                 requireMatch : BOOLEAN, requireDigits : BOOLEAN, ttl : Int]

InjectConfig == [dryRun : BOOLEAN, requireMatch : BOOLEAN,
                 requireDigits : BOOLEAN, ttl : Nat \ {0}]

ASSUME LoginPathAssumption ==
  /\ Numeric \subseteq Xuid /\ Assignable \subseteq Xuid
  /\ {NoName} \cap Name = {} /\ {NoXuid, Blank, Garbled} \cap Xuid = {}
  /\ Blank # Garbled
  /\ Claims \subseteq Claim /\ AuthResults \subseteq AuthResult
  /\ Configs \subseteq PluginConfig
  /\ DefaultTtl \in Nat \ {0} /\ MaxTime \in Nat /\ OneThread \in BOOLEAN

VARIABLES
  entries,              \* entries_ of identity_stage()
  now,                  \* the steady clock
  g_config,             \* what inject_entry and xf_stage act on
  g_injection_enabled,
  patched,              \* the call in BDS goes to the relay
  life,                 \* where the plugin's on_load, on_enable, on_disable are
  config,               \* self._config
  hookInstalled,        \* self._hook_installed
  pc,                   \* where a login is, or how it ended
  claim,                \* what its packet carries
  result,               \* its auth result
  taken,                \* the staged identity inject_entry holds for it
  rejected,             \* history: logins turned away by the source guard
  due,                  \* history: when what a login staged expires; 0 if nothing
  standing,             \* history: logins whose identity was put and since then not
                        \* overwritten, cleared or asked for
  newcomers             \* history: logins that entered inject_entry after the flag and
                        \* g_config were last written

stage   == <<entries, now>>
shim    == <<g_config, g_injection_enabled, patched>>
plugin  == <<life, config, hookInstalled>>
history == <<rejected, due, standing, newcomers>>
logins  == <<pc, claim, result, taken>>
vars    == <<stage, shim, plugin, logins, history>>

Identity == [login : Login, xuid : Xuid]   \* a StagedIdentity and who staged it
NoIdentity == [login |-> NoName, xuid |-> NoXuid]
NoClaim == [local |-> FALSE, parsed |-> FALSE, auth |-> "unknown",
            name |-> NoName, xuid |-> NoXuid, consistent |-> FALSE]
NoResult == [engaged |-> FALSE, name |-> NoName, xuid |-> Garbled]

(* The ends of a login: BDS dropped it, the relay was not there, or inject_entry *)
(* returned at one of its exits, in the order of the source.                     *)
Ends == {"dropped", "stock", "disabled", "nothing_staged", "not_engaged",
         "name_unreadable", "not_staged", "not_numeric", "xuid_garbled",
         "xuid_present", "would_inject", "write_refused", "injected"}

Ways == {"clearing", "staging", "validating", "hooked", "sizing", "taking", "applying",
         "writing"}

InFlight(l) == pc[l] \in Ways

-----------------------------------------------------------------------------
(* Scheduling.  On one thread a login runs from its packet to its end, and a callback *)
(* of the plugin from its first line to its last, with nothing of the other between.  *)

AtRest == life \in {"unloaded", "loaded", "idle", "running", "disabled"}

CallbackMayRun == OneThread => \A l \in Login : ~InFlight(l)
LoginMayRun    == OneThread => AtRest
LoginMayStart  == OneThread => AtRest /\ \A l \in Login : ~InFlight(l)

-----------------------------------------------------------------------------
(* The plugin's callbacks. *)

Init ==
  /\ entries = NoEntry /\ now = 0
  /\ g_config = [dryRun |-> TRUE, requireMatch |-> TRUE, requireDigits |-> TRUE,
                 ttl |-> DefaultTtl]
  /\ g_injection_enabled = FALSE /\ patched = FALSE
  /\ life = "unloaded" /\ config \in Configs /\ hookInstalled = FALSE
  /\ pc = [l \in Login |-> "away"]
  /\ claim = [l \in Login |-> NoClaim]
  /\ result = [l \in Login |-> NoResult]
  /\ taken = [l \in Login |-> NoIdentity]
  /\ rejected = {} /\ due = [l \in Login |-> 0]
  /\ standing = {} /\ newcomers = {}

(* on_load: a new plugin object reads config.json.  The library stays as it is. *)
OnLoad ==
  /\ life \in {"unloaded", "disabled"} /\ CallbackMayRun
  /\ life' = "loaded" /\ hookInstalled' = FALSE
  /\ config' \in Configs
  /\ UNCHANGED <<stage, shim, logins, history>>

(* on_enable: subscribes to packets; without a shim, or disabled, that is all. *)
OnEnable ==
  /\ life = "loaded" /\ CallbackMayRun
  /\ life' = IF config.enabled THEN "checking" ELSE "idle"
  /\ UNCHANGED <<stage, shim, config, hookInstalled, logins, history>>

(* xf_self_check fails, or xf_install does before inject_configure. *)
InstallRefused ==
  /\ life = "checking" /\ CallbackMayRun
  /\ life' = "idle"
  /\ UNCHANGED <<stage, shim, config, hookInstalled, logins, history>>

InstallBegins ==
  /\ life = "checking" /\ CallbackMayRun
  /\ life' = "configuring"
  /\ UNCHANGED <<stage, shim, config, hookInstalled, logins, history>>

(* What xf_install makes of its arguments. *)
Wanted == [dryRun |-> config.dryRun, requireMatch |-> config.requireMatch,
           requireDigits |-> config.requireDigits,
           ttl |-> IF config.ttl <= 0 THEN DefaultTtl ELSE config.ttl]

(* inject_configure assigns g_config member by member, with no lock: a thread that *)
(* reads it meanwhile sees some members old and some new.                          *)
Torn(old, new) == [dryRun : {old.dryRun, new.dryRun},
                   requireMatch : {old.requireMatch, new.requireMatch},
                   requireDigits : {old.requireDigits, new.requireDigits},
                   ttl : {old.ttl, new.ttl}]

AssignSome ==
  /\ life = "configuring" /\ CallbackMayRun
  /\ g_config' \in Torn(g_config, Wanted) /\ g_config' # g_config
  /\ newcomers' = {}
  /\ UNCHANGED <<stage, g_injection_enabled, patched, plugin, logins, rejected, due, standing>>

ArmStale ==     \* a mutant: the assignment of g_config is lost
  /\ life = "configuring" /\ CallbackMayRun
  /\ g_injection_enabled' = TRUE /\ life' = "hooking" /\ newcomers' = {}
  /\ UNCHANGED <<stage, g_config, patched, config, hookInstalled, logins, rejected, due,
                 standing>>

Arm ==
  /\ life = "configuring" /\ CallbackMayRun
  /\ g_config' = Wanted /\ g_injection_enabled' = TRUE
  /\ life' = "hooking" /\ newcomers' = {}
  /\ UNCHANGED <<stage, patched, config, hookInstalled, logins, rejected, due, standing>>

(* SiteHook::install fails; the flag and the configuration stay as they were set. *)
HookFails ==
  /\ life = "hooking" /\ CallbackMayRun
  /\ life' = "idle"
  /\ UNCHANGED <<stage, shim, config, hookInstalled, logins, history>>

Hook ==
  /\ life = "hooking" /\ CallbackMayRun
  /\ patched' = TRUE /\ life' = "hooked"
  /\ UNCHANGED <<stage, g_config, g_injection_enabled, config, hookInstalled,
                 logins, history>>

OnEnableReturns ==
  /\ life = "hooked" /\ CallbackMayRun
  /\ hookInstalled' = TRUE /\ life' = "running"
  /\ UNCHANGED <<stage, shim, config, logins, history>>

OnDisable ==
  /\ life \in {"idle", "running"} /\ CallbackMayRun
  /\ hookInstalled' = FALSE /\ life' = "disabling"
  /\ UNCHANGED <<stage, shim, config, logins, history>>

UninstallLater ==    \* a mutant: injection stays on
  /\ life = "disabling" /\ CallbackMayRun
  /\ life' = "disabled" /\ newcomers' = {}
  /\ UNCHANGED <<stage, shim, config, hookInstalled, logins, rejected, due, standing>>

(* xf_uninstall: injection off; the patch and the stage stay. *)
Uninstall ==
  /\ life = "disabling" /\ CallbackMayRun
  /\ g_injection_enabled' = FALSE /\ life' = "disabled" /\ newcomers' = {}
  /\ UNCHANGED <<stage, g_config, patched, config, hookInstalled, logins, rejected, due,
                 standing>>

Lifecycle ==
  \/ OnLoad \/ OnEnable \/ InstallRefused \/ InstallBegins \/ AssignSome \/ Arm
  \/ HookFails \/ Hook \/ OnEnableReturns \/ OnDisable \/ Uninstall

-----------------------------------------------------------------------------
(* on_packet_receive: what happens before BDS sees the packet. *)

Subscribed == life \in {"checking", "configuring", "hooking", "hooked", "idle",
                        "running", "disabling"}

SourceAllowed(c) == config.requireLocal => c.local

(* Every reason not to stage that the handler itself knows of. *)
Stageable(c) ==
  /\ c.parsed
  /\ hookInstalled
  /\ c.auth # "xbox"
  /\ c.xuid # NoXuid /\ c.name # NoName

Receive(l, c) ==
  /\ pc[l] = "away" /\ LoginMayStart
  /\ claim' = [claim EXCEPT ![l] = c]
  /\ \/ /\ ~(Subscribed /\ config.enabled)
        /\ pc' = [pc EXCEPT ![l] = "validating"] /\ UNCHANGED rejected
     \/ /\ Subscribed /\ config.enabled /\ ~SourceAllowed(c)
        /\ pc' = [pc EXCEPT ![l] = "clearing"] /\ rejected' = rejected \cup {l}
     \/ /\ Subscribed /\ config.enabled /\ SourceAllowed(c)
        /\ pc' = [pc EXCEPT ![l] = IF Stageable(c) THEN "staging" ELSE "validating"]
        /\ UNCHANGED rejected
  /\ UNCHANGED <<stage, shim, plugin, result, taken, due, standing, newcomers>>

ClearSwept(l) ==       \* a mutant: drops the outdated identities only
  /\ pc[l] = "clearing" /\ LoginMayRun
  /\ entries' = Sweep(entries, now) /\ standing' = {}
  /\ pc' = [pc EXCEPT ![l] = "validating"]
  /\ UNCHANGED <<now, shim, plugin, claim, result, taken, rejected, due, newcomers>>

(* xf_clear_stage *)
ClearStage(l) ==
  /\ pc[l] = "clearing" /\ LoginMayRun
  /\ entries' = NoEntry /\ standing' = {}
  /\ pc' = [pc EXCEPT ![l] = "validating"]
  /\ UNCHANGED <<now, shim, plugin, claim, result, taken, rejected, due, newcomers>>

(* The logins that claim this name, in any spelling. *)
Namesakes(name) ==
  {m \in Login : claim[m].name # NoName /\ normalize[claim[m].name] = normalize[name]}

(* xf_stage *)
StageIdentity(l) ==
  /\ pc[l] = "staging" /\ LoginMayRun
  /\ \/ /\ g_config.requireMatch /\ ~claim[l].consistent
        /\ UNCHANGED <<entries, due, standing>>
     \/ /\ g_config.requireMatch => claim[l].consistent
        /\ entries' = Put(entries, now, claim[l].name,
                          [login |-> l, xuid |-> claim[l].xuid], g_config.ttl)
        /\ due' = [due EXCEPT ![l] = now + g_config.ttl]
        /\ standing' = (standing \ Namesakes(claim[l].name)) \cup {l}
  /\ pc' = [pc EXCEPT ![l] = "validating"]
  /\ UNCHANGED <<now, shim, plugin, claim, result, taken, rejected, newcomers>>

-----------------------------------------------------------------------------
(* BDS. *)

Drop(l) ==
  /\ pc[l] = "validating" /\ LoginMayRun
  /\ pc' = [pc EXCEPT ![l] = "dropped"]
  /\ UNCHANGED <<stage, shim, plugin, claim, result, taken, history>>

(* BDS has its auth result and reaches the site: the stock call, or the relay. *)
Validate(l, r) ==
  /\ pc[l] = "validating" /\ LoginMayRun
  /\ result' = [result EXCEPT ![l] = r]
  /\ pc' = [pc EXCEPT ![l] = IF patched THEN "hooked" ELSE "stock"]
  /\ UNCHANGED <<stage, shim, plugin, claim, taken, history>>

-----------------------------------------------------------------------------
(* inject_entry. *)

EnterInject(l) ==
  /\ pc[l] = "hooked" /\ LoginMayRun
  /\ pc' = [pc EXCEPT ![l] = IF g_injection_enabled THEN "sizing" ELSE "disabled"]
  /\ newcomers' = newcomers \cup {l}
  /\ UNCHANGED <<stage, shim, plugin, claim, result, taken, rejected, due, standing>>

AwaitStage(l) ==       \* a mutant: waits for something to be staged
  /\ pc[l] = "sizing" /\ LoginMayRun
  /\ Size(entries, now) > 0
  /\ entries' = Sweep(entries, now)
  /\ pc' = [pc EXCEPT ![l] = "taking"]
  /\ UNCHANGED <<now, shim, plugin, claim, result, taken, history>>

CheckStage(l) ==
  /\ pc[l] = "sizing" /\ LoginMayRun
  /\ entries' = Sweep(entries, now)
  /\ pc' = [pc EXCEPT ![l] = IF Size(entries, now) = 0 THEN "nothing_staged" ELSE "taking"]
  /\ UNCHANGED <<now, shim, plugin, claim, result, taken, history>>

TakeAndKeep(l) ==     \* a mutant: peek instead of take
  /\ pc[l] = "taking" /\ LoginMayRun
  /\ LET name == result[l].name IN
       IF result[l].engaged /\ name # NoName /\ Found(entries, now, name)
         THEN /\ taken' = [taken EXCEPT ![l] = TakenEntry(entries, name).identity]
              /\ pc' = [pc EXCEPT ![l] = "applying"]
         ELSE /\ pc' = [pc EXCEPT ![l] = "not_staged"] /\ UNCHANGED taken
  /\ UNCHANGED <<stage, shim, plugin, claim, result, history>>

TakeIdentity(l) ==
  /\ pc[l] = "taking" /\ LoginMayRun
  /\ LET name == result[l].name IN
       \/ /\ ~result[l].engaged
          /\ pc' = [pc EXCEPT ![l] = "not_engaged"]
          /\ UNCHANGED <<entries, taken, standing>>
       \/ /\ result[l].engaged /\ name = NoName
          /\ pc' = [pc EXCEPT ![l] = "name_unreadable"]
          /\ UNCHANGED <<entries, taken, standing>>
       \/ /\ result[l].engaged /\ name # NoName
          /\ entries' = Take(entries, now, name)
          /\ standing' = standing \ Namesakes(name)
          /\ \/ /\ ~Found(entries, now, name)
                /\ pc' = [pc EXCEPT ![l] = "not_staged"]
                /\ UNCHANGED taken
             \/ /\ Found(entries, now, name)
                /\ taken' = [taken EXCEPT ![l] = TakenEntry(entries, name).identity]
                /\ pc' = [pc EXCEPT ![l] = "applying"]
  /\ UNCHANGED <<now, shim, plugin, claim, result, rejected, due, newcomers>>

(* The checks after take, in the order of the source; "writing" if all are passed. *)
CheckedForgetsDryRun(id, field) ==   \* a mutant
  IF g_config.requireDigits /\ id.xuid \notin Numeric THEN "not_numeric"
  ELSE IF field # Blank THEN "xuid_present" ELSE "writing"

CheckedOverwrites(id, field) ==      \* a mutant: the field is not looked at
  IF g_config.requireDigits /\ id.xuid \notin Numeric THEN "not_numeric"
  ELSE IF g_config.dryRun THEN "would_inject" ELSE "writing"

Checked(id, field) ==
  IF g_config.requireDigits /\ id.xuid \notin Numeric THEN "not_numeric"
  ELSE IF field = Garbled                             THEN "xuid_garbled"
  ELSE IF field # Blank                               THEN "xuid_present"
  ELSE IF g_config.dryRun                             THEN "would_inject"
  ELSE "writing"

CheckIdentity(l) ==
  /\ pc[l] = "applying" /\ LoginMayRun
  /\ pc' = [pc EXCEPT ![l] = Checked(taken[l], result[l].xuid)]
  /\ UNCHANGED <<stage, shim, plugin, claim, result, taken, history>>

(* The write comes after the last look at g_config: a reload may be between the two. *)
WriteXuid(l) ==
  /\ pc[l] = "writing" /\ LoginMayRun
  /\ \/ /\ taken[l].xuid \in Assignable
        /\ result' = [result EXCEPT ![l].xuid = taken[l].xuid]
        /\ pc' = [pc EXCEPT ![l] = "injected"]
     \/ /\ taken[l].xuid \notin Assignable
        /\ pc' = [pc EXCEPT ![l] = "write_refused"] /\ UNCHANGED result
  /\ UNCHANGED <<stage, shim, plugin, claim, taken, history>>

-----------------------------------------------------------------------------
Tick ==
  /\ now < MaxTime
  /\ now' = now + 1
  /\ UNCHANGED <<entries, shim, plugin, logins, history>>

Step(l) ==
  \/ ClearStage(l) \/ StageIdentity(l)
  \/ Drop(l) \/ \E r \in AuthResults : Validate(l, r)
  \/ EnterInject(l) \/ CheckStage(l) \/ TakeIdentity(l) \/ CheckIdentity(l) \/ WriteXuid(l)

Next ==
  \/ \E l \in Login : Step(l) \/ \E c \in Claims : Receive(l, c)
  \/ Lifecycle
  \/ Tick

Spec == Init /\ [][Next]_vars

(* Every thread that is inside the plugin or BDS goes on; nobody has to log in. *)
FairSpec == Spec /\ \A l \in Login : WF_vars(Step(l))

-----------------------------------------------------------------------------
(* Every variable stays within what the code can hold; a login has an auth result *)
(* once BDS made one, and a taken identity once inject_entry took it.             *)
TypeOK ==
  /\ IsTable(entries, Identity) /\ now \in Nat
  /\ g_config \in InjectConfig
  /\ g_injection_enabled \in BOOLEAN /\ patched \in BOOLEAN
  /\ life \in {"unloaded", "loaded", "checking", "configuring", "hooking", "hooked",
               "running", "idle", "disabling", "disabled"}
  /\ config \in Configs /\ hookInstalled \in BOOLEAN
  /\ pc \in [Login -> {"away"} \cup Ways \cup Ends]
  /\ claim \in [Login -> Claim]
  /\ result \in [Login -> AuthResult]
  /\ taken \in [Login -> Identity \cup {NoIdentity}]
  /\ rejected \subseteq Login
  /\ due \in [Login -> Nat]
  /\ standing \subseteq Login /\ newcomers \subseteq Login

(* Whatever the threads, the times and the reloads: an XUID field is only ever filled *)
(* when blank, with the XUID that an accepted relayed login of the same name carried, *)
(* and what one login carried fills one field at most (README.md:61-72).              *)
Restoring == INSTANCE Restoration WITH
  barred <- rejected \cup {m \in Login : claim[m].auth = "xbox"},
  spent <- {m \in Login : \E l \in Login : pc[l] = "injected" /\ taken[l].login = m}

Restores == Restoring!Spec

(* The plugin calls its hook installed only while the relay is in place, armed and    *)
(* acting on the whole of the configuration the plugin was loaded with: no failure in *)
(* on_enable, no reload and no torn assignment of g_config leaves it otherwise.       *)
InstalledMeansLive ==
  hookInstalled => patched /\ g_injection_enabled /\ g_config = Wanted

(* "a direct connection can never pick up an identity meant for a proxied player"     *)
(* (README.md:66): a login the source guard turned away keeps the field BDS gave it.  *)
RejectedUntouched == \A l \in rejected : pc[l] # "injected"

(* Whose identities may be found under a name: those that stand and are in time. *)
Standing(name) == {m \in standing \cap Namesakes(name) : due[m] > now}

(* No identity is lost on its way, however logins and reloads overlap: inject_entry    *)
(* comes away with nothing only if none stands -- if what was staged was taken for a   *)
(* login of its name, replaced by a later login of its name, cleared for an outside    *)
(* login, or is out of time (size at inject.cpp:98, take at :119, xf_clear_stage).     *)
StagedIsFound ==
  [][\A l \in Login :
       /\ pc[l] = "sizing" /\ pc'[l] = "nothing_staged" => \A m \in standing : due[m] <= now
       /\ pc[l] = "taking" /\ pc'[l] = "not_staged" => Standing(result[l].name) = {}]_vars

(* Nothing outlives its time, an outside login's clear, or a later login of its name:  *)
(* the XUID that a login is given is the one put last under its name, and none that    *)
(* was there when a login from outside came -- itself, for one (xf_api.cpp:214-216,    *)
(* __init__.py:76-77).                                                                 *)
TakesLatest ==
  [][\A l \in Login : taken'[l] # taken[l] =>
       \E m \in Standing(result[l].name) : taken'[l].xuid = claim[m].xuid]_vars

Injected(l) == pc[l] # "injected" /\ pc'[l] = "injected"

(* With dry_run in the configuration the plugin was loaded with, nothing is written,  *)
(* even if an earlier configuration of the same process wrote (__init__.py:57-58).    *)
DryRunWritesNothing == [][\A l \in Login : Injected(l) => ~config.dryRun]_vars

(* "hook removed - BDS is back to stock behaviour" (__init__.py:178, and in the C++    *)
(* front end xuid_forward_plugin.cpp:126): once a plugin has said so, and until it is  *)
(* loaded again, nothing is written, whatever was staged before.                       *)
DisabledMeansStock == [][\A l \in Login : Injected(l) => life # "disabled"]_vars

(* Every login that BDS was sent gets out of the plugin again, by one exit or another. *)
EveryLoginEnds == \A l \in Login : InFlight(l) ~> pc[l] \in Ends

=============================================================================
