----------------------------- MODULE CppFrontEnd -----------------------------
(***************************************************************************)
(* The other front end of the same stage and the same hook: the C++ plugin *)
(* (plugin/src/xuid_forward_plugin.cpp, with claims.h).  Between packet    *)
(* and inject_entry a login goes the way of LoginPath; the handler and the *)
(* callbacks differ: no source guard, no look at whether the hook is in    *)
(* place, and onDisable leaves injection as it is.                         *)
(***************************************************************************)
EXTENDS LoginPath

CONSTANTS
  Fronts,      \* the front ends a server may have: "python", "cpp"
  KeptTtls     \* the lifetimes loadConfig keeps (5 to 600 seconds in the code)

(* What onLoad makes of config.json: a lifetime out of range is replaced, and a build *)
(* whose string layout is not detected disables the plugin.                           *)
Loaded(c, detected) ==
  [c EXCEPT !.enabled = @ /\ detected,
            !.ttl = IF @ \in KeptTtls THEN @ ELSE DefaultTtl]

ASSUME CppFrontEndAssumption ==
  /\ Fronts \subseteq {"python", "cpp"}
  /\ KeptTtls \subseteq Nat \ {0}
  /\ \A c \in Configs, detected \in BOOLEAN : Loaded(c, detected) \in Configs

VARIABLE front   \* the front end this server has

onLoad ==
  /\ life \in {"unloaded", "disabled"} /\ CallbackMayRun
  /\ \E c \in Configs, detected \in BOOLEAN : config' = Loaded(c, detected)
  /\ life' = "loaded" /\ hookInstalled' = FALSE
  /\ UNCHANGED <<stage, shim, logins, history>>

(* inject_configure comes before hook_.install, as in xf_install, and a failure of *)
(* the latter does not undo it; there is no self check.                            *)
onEnable ==
  \/ OnEnable \/ InstallRefused \/ InstallBegins \/ AssignSome \/ Arm
  \/ HookFails \/ Hook \/ OnEnableReturns

onDisable ==
  /\ life \in {"idle", "running"} /\ CallbackMayRun
  /\ hookInstalled' = FALSE /\ life' = "disabled"
  /\ UNCHANGED <<stage, shim, config, logins, history>>

(* The claims name a player and an XUID that fit each other, as far as that is asked. *)
(* They are the client data, and how the login is authenticated is not looked at.     *)
Stages(c) ==
  /\ c.parsed
  /\ c.name # NoName /\ c.xuid # NoXuid
  /\ config.requireMatch => c.consistent

(* The handler touches nothing shared but the stage, in one call of put. *)
onPacketReceive(l, c) ==
  /\ pc[l] = "away" /\ LoginMayStart
  /\ claim' = [claim EXCEPT ![l] = c]
  /\ pc' = [pc EXCEPT ![l] = "validating"]
  /\ IF Subscribed /\ config.enabled /\ Stages(c)
       THEN /\ entries' = Put(entries, now, c.name, [login |-> l, xuid |-> c.xuid], config.ttl)
            /\ due' = [due EXCEPT ![l] = now + config.ttl]
            /\ standing' = (standing \ Namesakes(c.name)) \cup {l}
       ELSE UNCHANGED <<entries, due, standing>>
  /\ UNCHANGED <<now, shim, plugin, result, taken, rejected, newcomers>>

CppNext ==
  \/ onLoad \/ onEnable \/ onDisable
  \/ \E l \in Login : Step(l) \/ \E c \in Claims : onPacketReceive(l, c)
  \/ Tick

EitherInit == Init /\ front \in Fronts

EitherNext ==
  \/ front = "python" /\ Next /\ UNCHANGED front
  \/ front = "cpp" /\ CppNext /\ UNCHANGED front

EitherSpec == EitherInit /\ [][EitherNext]_<<vars, front>>

-----------------------------------------------------------------------------
(* Under either front end a blank XUID field is the only one ever filled, with the    *)
(* XUID that a login of the same name claimed, and one login's XUID fills one field   *)
(* at most.  Whose claims count is the front end's affair: the Python plugin goes by  *)
(* local relayed logins only, the C++ one by any (inject_entry, IdentityStage::take). *)
FrontRestoring == INSTANCE Restoration WITH
  barred <- rejected \cup {m \in Login : front = "python" /\ claim[m].auth = "xbox"},
  spent <- {m \in Login : \E l \in Login : pc[l] = "injected" /\ taken[l].login = m}

FrontRestores == FrontRestoring!Spec

(* A login that comes to the hook when the callbacks are through with the flag and    *)
(* g_config goes by them, however the logins before it overlapped with them: with     *)
(* dry_run nothing is written, and nothing at all once xf_uninstall has returned      *)
(* (inject.h:38-40).  Only a login that was in inject_entry already may still write.  *)
(* The C++ front end, which does not disarm, is held to it while it calls its hook    *)
(* installed.                                                                         *)
AsConfigured ==
  [][\A l \in newcomers : Injected(l) /\ (front = "python" \/ hookInstalled) =>
       life # "disabled" /\ ~config.dryRun]_<<vars, front>>

=============================================================================
