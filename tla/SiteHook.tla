------------------------------ MODULE SiteHook ------------------------------
(***************************************************************************)
(* The patched call of BDS and the relays it is sent through: SiteHook     *)
(* (plugin/src/hook.cpp) while login threads pass the site.  A copy of the *)
(* library -- the shim, the C++ plugin, or a replaced .so that a reload    *)
(* brought in beside the old one -- has a hook and a g_installed of its    *)
(* own; the site and the pages belong to the process.  Copies are told     *)
(* apart and pages are told apart; addresses and machine code are not.     *)
(*                                                                         *)
(* A relay calls what the site called when it was built, then the inject   *)
(* function of its copy, then returns: several relays form a chain.  One   *)
(* install runs at a time (the plugins' callbacks share a thread); login   *)
(* threads run at any time.  The new displacement is stored by one mov     *)
(* within a cache line, as at the built-in site, so the patch is one step. *)
(***************************************************************************)
EXTENDS Integers, FiniteSets, Sequences

CONSTANTS
  Copy,      \* copies of the library in the process
  Page,      \* bound: the pages in rel32 range of the site
  Thread,    \* threads that validate logins
  Profiles,  \* the kinds of profile that an install may be given
  MaxDepth,  \* bound: a stack with more relays on it has overflowed
  Helper,    \* the function the site calls in the file of BDS
  NoPage

(* How a profile finds the site: by its address and exact bytes, the displacement of  *)
(* the call included, or by a signature in which that displacement is a wildcard.     *)
ASSUME SiteHookAssumption ==
  /\ Profiles \subseteq {"fixed", "signature"}
  /\ MaxDepth \in Nat
  /\ Helper \notin Page /\ NoPage \notin Page

VARIABLES
  code,         \* what the call at the site calls
  memory,       \* the state of a page
  relay,        \* what the code in a page calls, and for which copy
  g_installed,  \* the relay a copy remembers; NoPage if none
  installed_,   \* installed_ of a copy's hook
  doing,        \* the install under way
  at,           \* where a login thread is
  next,         \* what it calls next
  stack,        \* the relays it must return through, the innermost first
  refused,      \* history: installs that resolve_site refused
  done          \* history: installs that succeeded

process == <<code, memory, relay>>
hooks   == <<g_installed, installed_>>
threads == <<at, next, stack>>
history == <<refused, done>>
vars    == <<process, hooks, doing, threads, history>>

Target  == Page \cup {Helper}
Install == [step : {"mapped", "sealed", "writable"}, copy : Copy, profile : Profiles, page : Page]
Nothing == [step |-> "none"]
Blank   == [calls |-> Helper, copy |-> NoPage]

Init ==
  /\ code = Helper
  /\ memory = [p \in Page |-> "free"] /\ relay = [p \in Page |-> Blank]
  /\ g_installed = [c \in Copy |-> NoPage] /\ installed_ = [c \in Copy |-> FALSE]
  /\ doing = Nothing
  /\ at = [t \in Thread |-> "outside"] /\ next = [t \in Thread |-> Helper]
  /\ stack = [t \in Thread |-> <<>>]
  /\ refused = {} /\ done = {}

-----------------------------------------------------------------------------
(* install *)

(* What resolve_site makes of the site as it is now: whether it accepts it, and the   *)
(* function it says the site calls.                                                   *)
Resolves(profile) == profile = "fixed" => code = Helper

UnresolvedCallee(profile) ==         \* a mutant: profile is used where resolved is due
  IF profile = "fixed" THEN Helper ELSE NoPage

StoredCallee(profile) == Helper      \* a mutant: the profile's helper_rva, always

Callee(profile) == IF profile = "fixed" THEN Helper ELSE code

MayInstall(c) == doing = Nothing /\ ~installed_[c]

Refuse(c, profile) ==
  /\ MayInstall(c) /\ ~Resolves(profile)
  /\ refused' = refused \cup {<<c, profile>>}
  /\ UNCHANGED <<process, hooks, doing, threads, done>>

RecogniseAndRewrite(c, profile) ==    \* a mutant: the new code goes into the old page
  /\ MayInstall(c) /\ Resolves(profile)
  /\ g_installed[c] # NoPage
  /\ relay' = [relay EXCEPT ![g_installed[c]].calls = Callee(profile)]
  /\ installed_' = [installed_ EXCEPT ![c] = TRUE]
  /\ done' = done \cup {<<c, profile>>}
  /\ UNCHANGED <<code, memory, g_installed, doing, threads, refused>>

(* The site is one this copy patched: its relay goes on being used as it is. *)
Recognise(c, profile) ==
  /\ MayInstall(c) /\ Resolves(profile)
  /\ g_installed[c] # NoPage
  /\ installed_' = [installed_ EXCEPT ![c] = TRUE]
  /\ done' = done \cup {<<c, profile>>}
  /\ UNCHANGED <<process, g_installed, doing, threads, refused>>

MapAgain(c, profile, page) ==         \* a mutant: g_installed is not looked at
  /\ MayInstall(c) /\ Resolves(profile)
  /\ memory[page] = "free"
  /\ memory' = [memory EXCEPT ![page] = "mapped"]
  /\ relay' = [relay EXCEPT ![page] = [calls |-> Callee(profile), copy |-> c]]
  /\ doing' = [step |-> "mapped", copy |-> c, profile |-> profile, page |-> page]
  /\ UNCHANGED <<code, hooks, threads, history>>

(* alloc_near finds a page and the relay is copied into it.  (If it finds none, *)
(* install returns with everything as it was.)                                  *)
Map(c, profile, page) ==
  /\ MayInstall(c) /\ Resolves(profile)
  /\ g_installed[c] = NoPage
  /\ memory[page] = "free"
  /\ memory' = [memory EXCEPT ![page] = "mapped"]
  /\ relay' = [relay EXCEPT ![page] = [calls |-> Callee(profile), copy |-> c]]
  /\ doing' = [step |-> "mapped", copy |-> c, profile |-> profile, page |-> page]
  /\ UNCHANGED <<code, hooks, threads, history>>

Seal ==
  /\ doing.step = "mapped"
  /\ memory' = [memory EXCEPT ![doing.page] = "sealed"]
  /\ doing' = [doing EXCEPT !.step = "sealed"]
  /\ UNCHANGED <<code, relay, hooks, threads, history>>

(* mprotect on the relay fails: the page goes back. *)
SealFails ==
  /\ doing.step = "mapped"
  /\ memory' = [memory EXCEPT ![doing.page] = "free"]
  /\ relay' = [relay EXCEPT ![doing.page] = Blank]
  /\ doing' = Nothing
  /\ UNCHANGED <<code, hooks, threads, history>>

MakeWritable ==
  /\ doing.step = "sealed"
  /\ doing' = [doing EXCEPT !.step = "writable"]
  /\ UNCHANGED <<process, hooks, threads, history>>

(* mprotect on the site fails: the page stays, and nobody knows of it any more. *)
MakeWritableFails ==
  /\ doing.step = "sealed"
  /\ doing' = Nothing
  /\ UNCHANGED <<process, hooks, threads, history>>

(* The displacement is stored, and what was installed is remembered. *)
Patch ==
  /\ doing.step = "writable"
  /\ code' = doing.page
  /\ installed_' = [installed_ EXCEPT ![doing.copy] = TRUE]
  /\ g_installed' = [g_installed EXCEPT ![doing.copy] = doing.page]
  /\ done' = done \cup {<<doing.copy, doing.profile>>}
  /\ doing' = Nothing
  /\ UNCHANGED <<memory, relay, threads, refused>>

-----------------------------------------------------------------------------
RemoveAndUnmap(c) ==       \* a mutant: what the comment at hook.h:44 says of remove
  /\ doing = Nothing /\ installed_[c]
  /\ installed_' = [installed_ EXCEPT ![c] = FALSE]
  /\ code' = relay[g_installed[c]].calls
  /\ memory' = [memory EXCEPT ![g_installed[c]] = "free"]
  /\ g_installed' = [g_installed EXCEPT ![c] = NoPage]
  /\ UNCHANGED <<relay, doing, threads, history>>

(* remove, and ~SiteHook: the patch and the relay stay where they are. *)
remove(c) ==
  /\ doing = Nothing /\ installed_[c]
  /\ installed_' = [installed_ EXCEPT ![c] = FALSE]
  /\ UNCHANGED <<process, g_installed, doing, threads, history>>

-----------------------------------------------------------------------------
(* A login thread: the call at the site, a relay's re-issued call, and its second *)
(* call, of the inject function, after which it returns.                          *)

Enter(t) ==
  /\ at[t] = "outside"
  /\ at' = [at EXCEPT ![t] = "calling"] /\ next' = [next EXCEPT ![t] = code]
  /\ UNCHANGED <<process, hooks, doing, stack, history>>

CallRelay(t) ==
  /\ at[t] = "calling" /\ next[t] \in Page /\ Len(stack[t]) < MaxDepth
  /\ stack' = [stack EXCEPT ![t] = <<next[t]>> \o @]
  /\ next' = [next EXCEPT ![t] = relay[next[t]].calls]
  /\ UNCHANGED <<process, hooks, doing, at, history>>

Back(rest) == IF rest = <<>> THEN "outside" ELSE "injecting"

CallHelper(t) ==
  /\ at[t] = "calling" /\ next[t] = Helper
  /\ at' = [at EXCEPT ![t] = Back(stack[t])]
  /\ UNCHANGED <<process, hooks, doing, next, stack, history>>

Inject(t) ==
  /\ at[t] = "injecting"
  /\ stack' = [stack EXCEPT ![t] = Tail(@)]
  /\ at' = [at EXCEPT ![t] = Back(Tail(stack[t]))]
  /\ UNCHANGED <<process, hooks, doing, next, history>>

Pass(t) == CallRelay(t) \/ CallHelper(t) \/ Inject(t)

-----------------------------------------------------------------------------
Next ==
  \/ \E c \in Copy, profile \in Profiles :
       \/ Refuse(c, profile) \/ Recognise(c, profile)
       \/ \E page \in Page : Map(c, profile, page)
  \/ Seal \/ SealFails \/ MakeWritable \/ MakeWritableFails \/ Patch
  \/ \E c \in Copy : remove(c)
  \/ \E t \in Thread : Enter(t) \/ Pass(t)

Spec == Init /\ [][Next]_vars

(* A thread that is on its way through the site goes on. *)
FairSpec == Spec /\ \A t \in Thread : WF_vars(Pass(t))

-----------------------------------------------------------------------------
(* Pages hold relays of copies; the install under way has a page of its own. *)
TypeOK ==
  /\ code \in Target
  /\ memory \in [Page -> {"free", "mapped", "sealed"}]
  /\ relay \in [Page -> [calls : Target, copy : Copy \cup {NoPage}]]
  /\ g_installed \in [Copy -> Page \cup {NoPage}] /\ installed_ \in [Copy -> BOOLEAN]
  /\ doing \in Install \cup {Nothing}
  /\ at \in [Thread -> {"outside", "calling", "injecting"}]
  /\ next \in [Thread -> Target] /\ stack \in [Thread -> Seq(Page)]
  /\ refused \subseteq Copy \X Profiles /\ done \subseteq Copy \X Profiles

(* A thread never runs, and never returns, into a page that is not executable or that *)
(* is no longer there: "unmapping the page it must return through would crash BDS"    *)
(* (hook.cpp:350), and so would a site patched before its relay is ready.             *)
WellLanded ==
  \A t \in Thread :
    /\ at[t] = "calling" /\ next[t] \in Page => memory[next[t]] = "sealed"
    /\ \A i \in DOMAIN stack[t] : memory[stack[t][i]] = "sealed"

(* What a call of x goes through: the least set that holds x and what the relays in it *)
(* call.  A relay that is its own descendant calls itself.                             *)
Closed(relays, S) == \A p \in S \cap Page : relays[p].calls \in S
Through(relays, x) ==
  {y \in Target : \A S \in SUBSET Target : x \in S /\ Closed(relays, S) => y \in S}

(* What a login that enters the site now goes through. *)
Reached == Through(relay, code)

(* A copy that says its hook is installed is passed by every login that enters the    *)
(* site: neither its own re-installs nor those of other copies have cut it off.       *)
InstalledIsReached == \A c \in Copy : installed_[c] => g_installed[c] \in Reached

(* ... and passed once: "re-point at the existing relay instead of patching twice"    *)
(* (hook.cpp:294).                                                                    *)
PassedOnce ==
  \A p \in Reached \cap Page : \A q \in Through(relay, relay[p].calls) \cap Page :
    relay[p].copy # relay[q].copy

(* A login that enters the site comes out of it again: no relay ends up calling itself. *)
PassEnds == \A t \in Thread : at[t] # "outside" ~> at[t] = "outside"

(* A copy whose re-install is refused -- it installed before, and a fixed profile no   *)
(* longer matches the bytes it wrote -- is still passed by every login that enters:    *)
(* the refusal (hook.cpp:285) does not mean that the server runs as it was built.      *)
RefusedStaysHooked ==
  \A cp \in refused \cap done :
    cp[2] = "fixed" /\ g_installed[cp[1]] \in Reached

=============================================================================
