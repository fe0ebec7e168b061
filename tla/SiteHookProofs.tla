--------------------------- MODULE SiteHookProofs ---------------------------
(***************************************************************************)
(* Theorems about SiteHook, for any number of copies, pages and threads:   *)
(* the type invariant, that no login thread ever runs in, or returns into, *)
(* a page that is not an executable relay, and that every copy which says  *)
(* its hook is installed is passed once by every login.                    *)
(***************************************************************************)
EXTENDS SiteHook, TLAPS

(* What may be called: BDS's function, or a page that is ready. *)
Ready(x) == x = Helper \/ memory[x] = "sealed"

(* WellLanded is not inductive: a thread takes its next target from the site and from *)
(* the relays, so both must hold ready targets only, and the page that Patch puts     *)
(* into the site must have been sealed before.                                        *)
SiteInv ==
  /\ TypeOK
  /\ Ready(code)
  /\ \A p \in Page : Ready(relay[p].calls)
  /\ \A t \in Thread : Ready(next[t])
  /\ \A t \in Thread : \A i \in DOMAIN stack[t] : memory[stack[t][i]] = "sealed"
  /\ \A t \in Thread : at[t] = "injecting" => stack[t] # <<>>
  /\ doing.step = "mapped" => memory[doing.page] = "mapped"
  /\ doing.step \in {"sealed", "writable"} => memory[doing.page] = "sealed"

LEMMA InitSiteInv == Init => SiteInv
BY SiteHookAssumption
   DEF SiteHookAssumption, Init, SiteInv, TypeOK, Ready, Target, Nothing, Blank

(* resolve_site names a function that can be called. *)
LEMMA CalleeReady ==
  ASSUME SiteInv, NEW profile \in Profiles
  PROVE  Callee(profile) \in Target /\ Ready(Callee(profile))
BY SiteHookAssumption DEF SiteHookAssumption, SiteInv, TypeOK, Callee, Target, Ready

(* install, up to the patch: no sealed page changes. *)
LEMMA InstallSiteInv ==
  ASSUME SiteInv,
         \/ \E c \in Copy, profile \in Profiles :
              \/ Refuse(c, profile) \/ Recognise(c, profile)
              \/ \E page \in Page : Map(c, profile, page)
         \/ Seal \/ SealFails \/ MakeWritable \/ MakeWritableFails
  PROVE  SiteInv'
<1> USE DEF SiteInv
<1>1. ASSUME NEW c \in Copy, NEW profile \in Profiles,
             Refuse(c, profile) \/ Recognise(c, profile)
      PROVE  SiteInv'
  <2>0. <<c, profile>> \in Copy \X Profiles
    OBVIOUS
  <2>1. TypeOK'
    BY <1>1, <2>0 DEF Refuse, Recognise, TypeOK, process, hooks, threads
  <2> QED
    BY <1>1, <2>1 DEF Refuse, Recognise, Ready, process, threads
<1>2. ASSUME NEW c \in Copy, NEW profile \in Profiles, NEW page \in Page,
             Map(c, profile, page)
      PROVE  SiteInv'
  <2>0. PICK callee \in Target : callee = Callee(profile) /\ Ready(callee)
    BY CalleeReady
  <2>1. /\ memory[page] = "free" /\ memory' = [memory EXCEPT ![page] = "mapped"]
        /\ relay' = [relay EXCEPT ![page] = [calls |-> callee, copy |-> c]]
        /\ doing' = [step |-> "mapped", copy |-> c, profile |-> profile, page |-> page]
        /\ UNCHANGED <<code, hooks, threads, history>>
    BY <1>2, <2>0 DEF Map
  <2>2. \A x \in Target : Ready(x) => Ready(x)'
    BY <2>1 DEF TypeOK, Ready, Target
  <2>3. TypeOK'
    BY <2>1 DEF TypeOK, Install, hooks, threads, history
  <2>4. \A p \in Page : relay'[p].calls \in Target /\ Ready(relay[p].calls)'
    BY <2>0, <2>1, <2>2 DEF TypeOK
  <2>5. \A t \in Thread : Ready(next[t])'
    BY <2>1, <2>2 DEF TypeOK, threads
  <2>6. \A t \in Thread : \A i \in DOMAIN stack'[t] : memory'[stack'[t][i]] = "sealed"
    BY <2>1 DEF TypeOK, threads
  <2> QED
    BY <2>1, <2>2, <2>3, <2>4, <2>5, <2>6 DEF TypeOK, threads
<1>3. CASE Seal \/ MakeWritable \/ MakeWritableFails
  <2>1. \A x \in Target : Ready(x) => Ready(x)'
    BY <1>3 DEF Seal, MakeWritable, MakeWritableFails, TypeOK, Ready, Target, Install,
                Nothing, process
  <2>2. TypeOK'
    <3>1. doing \in Install
      BY <1>3 DEF Seal, MakeWritable, MakeWritableFails, TypeOK, Nothing
    <3>2. doing' \in Install \cup {Nothing}
      BY <1>3, <3>1 DEF Seal, MakeWritable, MakeWritableFails, Install
    <3>3. CASE Seal
      BY <3>1, <3>3, <3>2 DEF Seal, TypeOK, hooks, threads, history
    <3>4. CASE MakeWritable \/ MakeWritableFails
      BY <3>4, <3>2 DEF MakeWritable, MakeWritableFails, TypeOK, process, hooks, threads,
                        history
    <3> QED
      BY <1>3, <3>3, <3>4
  <2> QED
    BY <1>3, <2>1, <2>2 DEF Seal, MakeWritable, MakeWritableFails, TypeOK, Install,
                            Nothing, process, threads
<1>4. CASE SealFails
  <2>1. \A x \in Target : Ready(x) => Ready(x)'
    BY <1>4 DEF SealFails, TypeOK, Ready, Target, Install, Nothing
  <2>2. TypeOK'
    BY <1>4 DEF SealFails, TypeOK, Install, Nothing, Blank, Target, hooks, threads, history
  <2> QED
    BY <1>4, <2>1, <2>2 DEF SealFails, TypeOK, Install, Nothing, Blank, threads, Ready
<1> QED
  BY <1>1, <1>2, <1>3, <1>4

LEMMA PatchSiteInv == ASSUME SiteInv, Patch PROVE SiteInv'
BY DEF SiteInv, Patch, TypeOK, Ready, Target, Install, Nothing, threads

LEMMA RemoveSiteInv == ASSUME SiteInv, NEW c \in Copy, remove(c) PROVE SiteInv'
BY DEF SiteInv, remove, TypeOK, Ready, process, threads, history

(* A login thread: what it calls next is ready, so what it pushes is. *)
LEMMA ThreadSiteInv ==
  ASSUME SiteInv, NEW t \in Thread, Enter(t) \/ Pass(t) PROVE SiteInv'
<1> USE SiteHookAssumption DEF SiteInv, SiteHookAssumption
<1>1. CASE Enter(t)
  BY <1>1 DEF Enter, TypeOK, Ready, process, hooks, history
<1>2. CASE CallRelay(t)
  <2>1. /\ stack' = [stack EXCEPT ![t] = <<next[t]>> \o @]
        /\ next[t] \in Page /\ next' = [next EXCEPT ![t] = relay[next[t]].calls]
        /\ UNCHANGED <<process, hooks, doing, at, history>>
    BY <1>2 DEF CallRelay
  <2>2. /\ <<next[t]>> \o stack[t] \in Seq(Page)
        /\ \A i \in DOMAIN (<<next[t]>> \o stack[t]) :
             \/ (<<next[t]>> \o stack[t])[i] = next[t]
             \/ \E j \in DOMAIN stack[t] : (<<next[t]>> \o stack[t])[i] = stack[t][j]
    BY <2>1 DEF TypeOK
  <2>3. memory[next[t]] = "sealed"
    BY <2>1 DEF Ready
  <2>4. TypeOK'
    BY <2>1, <2>2 DEF TypeOK, process, hooks, history
  <2>5. \A u \in Thread : \A i \in DOMAIN stack'[u] : memory'[stack'[u][i]] = "sealed"
    BY <2>1, <2>2, <2>3 DEF TypeOK, process
  <2> QED
    BY <2>1, <2>4, <2>5 DEF TypeOK, Ready, process
<1>3. CASE CallHelper(t)
  BY <1>3 DEF CallHelper, Back, TypeOK, Ready, process, hooks, history
<1>4. CASE Inject(t)
  <2>1. /\ stack' = [stack EXCEPT ![t] = Tail(@)]
        /\ at' = [at EXCEPT ![t] = Back(Tail(stack[t]))]
        /\ UNCHANGED <<process, hooks, doing, next, history>>
    BY <1>4 DEF Inject
  <2>2. stack[t] # <<>> /\ stack[t] \in Seq(Page)
    BY <1>4 DEF Inject, TypeOK
  <2>3. /\ Tail(stack[t]) \in Seq(Page)
        /\ \A i \in DOMAIN Tail(stack[t]) :
             \E j \in DOMAIN stack[t] : Tail(stack[t])[i] = stack[t][j]
    BY <2>2 DEF TypeOK
  <2>4. TypeOK'
    BY <2>1, <2>3 DEF TypeOK, Back, process, hooks, history
  <2>5. \A u \in Thread : \A i \in DOMAIN stack'[u] : memory'[stack'[u][i]] = "sealed"
    BY <2>1, <2>3 DEF TypeOK, process
  <2>6. \A u \in Thread : at'[u] = "injecting" => stack'[u] # <<>>
    BY <2>1, <2>3 DEF TypeOK, Back
  <2> QED
    BY <2>1, <2>4, <2>5, <2>6 DEF TypeOK, Ready, process
<1> QED
  BY <1>1, <1>2, <1>3, <1>4 DEF Pass

LEMMA NextSiteInv == SiteInv /\ [Next]_vars => SiteInv'
<1> SUFFICES ASSUME SiteInv, [Next]_vars PROVE SiteInv'
  OBVIOUS
<1>1. CASE UNCHANGED vars
  BY <1>1 DEF SiteInv, TypeOK, Ready, vars, process, hooks, threads, history
<1>2. CASE \/ \E c \in Copy, profile \in Profiles :
                \/ Refuse(c, profile) \/ Recognise(c, profile)
                \/ \E page \in Page : Map(c, profile, page)
           \/ Seal \/ SealFails \/ MakeWritable \/ MakeWritableFails
  BY <1>2, InstallSiteInv
<1>3. CASE Patch
  BY <1>3, PatchSiteInv
<1>4. CASE \E c \in Copy : remove(c)
  BY <1>4, RemoveSiteInv
<1>5. CASE \E t \in Thread : Enter(t) \/ Pass(t)
  BY <1>5, ThreadSiteInv
<1> QED
  BY <1>1, <1>2, <1>3, <1>4, <1>5 DEF Next

LEMMA AlwaysSiteInv == Spec => []SiteInv
BY InitSiteInv, NextSiteInv, PTL DEF Spec

(* The variables of SiteHook keep their types whatever copies are loaded, reloaded and *)
(* removed, and whichever calls of the system fail.                                    *)
THEOREM SiteHookTypeOK == Spec => []TypeOK
<1>1. SiteInv => TypeOK
  BY DEF SiteInv
<1> QED
  BY <1>1, AlwaysSiteInv, PTL

(* No login thread is ever sent, and none ever returns, into a page that is not a      *)
(* sealed relay: this is what remove() leaves the patch and the relay in place for     *)
(* (hook.cpp:347-360), and what the order of the steps of install is for.              *)
THEOREM SiteHookWellLanded == Spec => []WellLanded
<1>1. SiteInv => WellLanded
  BY SiteHookAssumption DEF SiteHookAssumption, SiteInv, WellLanded, Ready
<1> QED
  BY <1>1, AlwaysSiteInv, PTL

-----------------------------------------------------------------------------
(* Who is reached.  The chain from the site holds one relay of each copy that remembers *)
(* one, and nothing calls the page of the install under way, whose relay calls what the *)
(* site still does.                                                                     *)

InstallOK ==
  doing # Nothing =>
    /\ relay[doing.page] = [calls |-> code, copy |-> doing.copy]
    /\ g_installed[doing.copy] = NoPage
    /\ code # doing.page /\ \A p \in Page : relay[p].calls # doing.page

RememberedOK ==
  \A c \in Copy : g_installed[c] # NoPage =>
    g_installed[c] \in Reached /\ relay[g_installed[c]].copy = c

ReachedOK ==
  \A p \in Reached \cap Page :
    /\ relay[p].copy \in Copy /\ g_installed[relay[p].copy] = p
    /\ p \notin Through(relay, relay[p].calls)

RecordOK ==
  /\ \A c \in Copy : installed_[c] => g_installed[c] # NoPage
  /\ \A cp \in done : g_installed[cp[1]] # NoPage
  /\ \A cp \in refused : cp[2] = "fixed"

ChainInv == InstallOK /\ RememberedOK /\ ReachedOK /\ RecordOK

(* Lemmas about Through, for any relays that call targets. *)
Relays == [Page -> [calls : Target, copy : Copy \cup {NoPage}]]

LEMMA ThroughStarts ==
  ASSUME NEW r, NEW x \in Target PROVE x \in Through(r, x)
BY DEF Through

LEMMA ThroughClosed ==
  ASSUME NEW r \in Relays, NEW x, NEW p \in Through(r, x) \cap Page
  PROVE  r[p].calls \in Through(r, x)
<1>1. r[p].calls \in Target
  BY DEF Relays
<1> QED
  BY <1>1 DEF Through, Closed

LEMMA ThroughLeast ==
  ASSUME NEW r, NEW x, NEW S \in SUBSET Target, x \in S, Closed(r, S)
  PROVE  Through(r, x) \subseteq S
BY DEF Through

(* Whatever something that is gone through goes through is gone through. *)
LEMMA ThroughTransitive ==
  ASSUME NEW r \in Relays, NEW x, NEW y \in Through(r, x)
  PROVE  Through(r, y) \subseteq Through(r, x)
<1>1. Closed(r, Through(r, x))
  BY ThroughClosed DEF Closed
<1>2. Through(r, x) \in SUBSET Target
  BY DEF Through
<1> QED
  BY <1>1, <1>2, ThroughLeast

(* A relay is gone through, and what it calls. *)
LEMMA ThroughPage ==
  ASSUME NEW r \in Relays, NEW p \in Page
  PROVE  Through(r, p) = {p} \cup Through(r, r[p].calls)
<1> DEFINE S == {p} \cup Through(r, r[p].calls)
<1>1. r[p].calls \in Target /\ p \in Target
  BY DEF Relays, Target
<1>2. Closed(r, S)
  BY <1>1, ThroughClosed, ThroughStarts DEF Closed
<1>3. S \in SUBSET Target
  BY <1>1 DEF Through
<1>4. Through(r, p) \subseteq S
  BY <1>2, <1>3, ThroughLeast
<1>5. p \in Through(r, p) /\ r[p].calls \in Through(r, p)
  BY <1>1, ThroughStarts, ThroughClosed
<1> QED
  BY <1>4, <1>5, ThroughTransitive

(* A page that no relay calls is gone through by its own call only ... *)
LEMMA ThroughUncalled ==
  ASSUME NEW r \in Relays, NEW p \in Page, \A q \in Page : r[q].calls # p,
         NEW x \in Target, x # p
  PROVE  p \notin Through(r, x)
<1>1. Closed(r, Target \ {p})
  BY DEF Closed, Relays
<1> QED
  BY <1>1, ThroughLeast

(* ... and what is written into it changes nothing for any other call. *)
LEMMA ThroughUnchanged ==
  ASSUME NEW r \in Relays, NEW s \in Relays, NEW p \in Page,
         \A q \in Page : r[q].calls # p, s[p].calls # p,
         \A q \in Page \ {p} : s[q] = r[q],
         NEW x \in Target, x # p
  PROVE  Through(s, x) = Through(r, x)
<1>1. \A q \in Page : s[q].calls # p
  OBVIOUS
<1>2. p \notin Through(r, x) /\ p \notin Through(s, x)
  BY <1>1, ThroughUncalled
<1>3. Closed(s, Through(r, x)) /\ Closed(r, Through(s, x))
  BY <1>2, ThroughClosed DEF Closed
<1>4. Through(r, x) \in SUBSET Target /\ Through(s, x) \in SUBSET Target
  BY DEF Through
<1>5. x \in Through(r, x) /\ x \in Through(s, x)
  BY ThroughStarts
<1>6. Through(s, x) \subseteq Through(r, x)
  BY <1>3, <1>4, <1>5, ThroughLeast
<1>7. Through(r, x) \subseteq Through(s, x)
  BY <1>3, <1>4, <1>5, ThroughLeast
<1> QED
  BY <1>6, <1>7

LEMMA ThroughHelper ==
  ASSUME NEW r PROVE Through(r, Helper) = {Helper}
<1>1. Closed(r, {Helper}) /\ Helper \in Target
  BY SiteHookAssumption DEF SiteHookAssumption, Closed, Target
<1> QED
  BY <1>1, ThroughLeast, ThroughStarts

LEMMA InitChainInv == Init => ChainInv
<1> SUFFICES ASSUME Init PROVE ChainInv
  OBVIOUS
<1>1. Reached \cap Page = {}
  BY ThroughHelper, SiteHookAssumption DEF Init, Reached, SiteHookAssumption
<1> QED
  BY <1>1 DEF Init, ChainInv, InstallOK, RememberedOK, ReachedOK, RecordOK, Nothing

(* Writing a relay into a page that nothing calls does not touch the chain. *)
LEMMA WritingKeepsChain ==
  ASSUME SiteInv, ChainInv, TypeOK', UNCHANGED <<code, g_installed>>, NEW page \in Page,
         code # page, \A p \in Page : relay[p].calls # page, relay'[page].calls # page,
         \A p \in Page \ {page} : relay'[p] = relay[p]
  PROVE  RememberedOK' /\ ReachedOK'
<1>1. /\ relay \in Relays /\ relay' \in Relays /\ code \in Target
      /\ \A p \in Page : relay[p].calls \in Target
  BY DEF SiteInv, TypeOK, Relays
<1>2. \A x \in Target \ {page} : Through(relay', x) = Through(relay, x)
  BY <1>1, ThroughUnchanged
<1>3. Reached' = Reached /\ page \notin Reached
  BY <1>1, <1>2, ThroughUncalled DEF Reached
<1>4. \A p \in Reached \cap Page :
        /\ relay'[p] = relay[p]
        /\ Through(relay', relay[p].calls) = Through(relay, relay[p].calls)
  BY <1>1, <1>2, <1>3
<1>5. RememberedOK'
  BY <1>3, <1>4, SiteHookAssumption
  DEF SiteHookAssumption, ChainInv, RememberedOK, SiteInv, TypeOK
<1>6. ReachedOK'
  BY <1>3, <1>4 DEF ChainInv, ReachedOK
<1> QED
  BY <1>5, <1>6

(* The relay that Map writes calls what the site calls, and nothing calls a free page. *)
LEMMA MapChainInv ==
  ASSUME SiteInv, ChainInv, TypeOK',
         NEW c \in Copy, NEW profile \in Profiles, NEW page \in Page, Map(c, profile, page)
  PROVE  ChainInv'
<1>1. Callee(profile) = code
  BY DEF Map, Resolves, Callee
<1>2. /\ relay' = [relay EXCEPT ![page] = [calls |-> code, copy |-> c]]
      /\ doing' = [step |-> "mapped", copy |-> c, profile |-> profile, page |-> page]
      /\ UNCHANGED <<code, hooks, history>> /\ g_installed[c] = NoPage
      /\ memory[page] = "free"
  BY <1>1 DEF Map
<1>3. code # page /\ \A p \in Page : relay[p].calls # page
  BY <1>2, SiteHookAssumption DEF SiteHookAssumption, SiteInv, Ready
<1>4. /\ relay'[page] = [calls |-> code, copy |-> c]
      /\ \A p \in Page \ {page} : relay'[p] = relay[p]
  BY <1>2 DEF SiteInv, TypeOK
<1>5. RememberedOK' /\ ReachedOK'
  BY <1>2, <1>3, <1>4, WritingKeepsChain DEF hooks
<1>6. InstallOK'
  BY <1>2, <1>3, <1>4 DEF InstallOK, hooks
<1>7. RecordOK'
  BY <1>2 DEF ChainInv, RecordOK, hooks, history
<1> QED
  BY <1>5, <1>6, <1>7 DEF ChainInv

LEMMA SealFailsChainInv ==
  ASSUME SiteInv, ChainInv, TypeOK', SealFails PROVE ChainInv'
<1> DEFINE page == doing.page
<1>1. /\ doing.step = "mapped" /\ doing' = Nothing
      /\ relay' = [relay EXCEPT ![page] = Blank]
      /\ UNCHANGED <<code, hooks, history>>
  BY DEF SealFails
<1>2. doing # Nothing /\ page \in Page
  BY <1>1 DEF SiteInv, TypeOK, Install, Nothing
<1>3. code # page /\ \A p \in Page : relay[p].calls # page
  BY <1>2 DEF ChainInv, InstallOK
<1>4. relay'[page].calls # page /\ \A p \in Page \ {page} : relay'[p] = relay[p]
  BY <1>1, <1>2, SiteHookAssumption DEF SiteHookAssumption, SiteInv, TypeOK, Blank
<1>5. RememberedOK' /\ ReachedOK'
  <2> HIDE DEF page
  <2> QED
    BY <1>1, <1>2, <1>3, <1>4, WritingKeepsChain DEF hooks
<1>6. InstallOK' /\ RecordOK'
  BY <1>1 DEF ChainInv, InstallOK, RecordOK, hooks, history
<1> QED
  BY <1>5, <1>6 DEF ChainInv

(* The page that Patch puts into the site goes before the chain there was. *)
LEMMA PatchChainInv == ASSUME SiteInv, ChainInv, Patch PROVE ChainInv'
<1> DEFINE page == doing.page  c == doing.copy
<1>1. /\ code' = page /\ installed_' = [installed_ EXCEPT ![c] = TRUE]
      /\ g_installed' = [g_installed EXCEPT ![c] = page]
      /\ done' = done \cup {<<c, doing.profile>>} /\ doing' = Nothing
      /\ UNCHANGED <<relay, refused>>
  BY DEF Patch
<1>2. doing # Nothing /\ page \in Page /\ c \in Copy
  BY DEF Patch, SiteInv, TypeOK, Install, Nothing
<1>3. /\ relay[page] = [calls |-> code, copy |-> c] /\ g_installed[c] = NoPage
      /\ code # page /\ \A p \in Page : relay[p].calls # page
  BY <1>2 DEF ChainInv, InstallOK
<1>4. /\ relay \in Relays /\ code \in Target
      /\ g_installed \in [Copy -> Page \cup {NoPage}] /\ installed_ \in [Copy -> BOOLEAN]
  BY DEF SiteInv, TypeOK, Relays
<1> HIDE DEF page, c
<1>5. Reached' = {page} \cup Reached /\ page \notin Reached
  BY <1>1, <1>2, <1>3, <1>4, ThroughPage, ThroughUncalled DEF Reached
<1>6. g_installed'[c] = page /\ \A d \in Copy \ {c} : g_installed'[d] = g_installed[d]
  BY <1>1, <1>2, <1>4
<1>7. NoPage \notin Page
  BY SiteHookAssumption DEF SiteHookAssumption
<1>8. RememberedOK'
  BY <1>1, <1>3, <1>5, <1>6 DEF ChainInv, RememberedOK
<1>9. ReachedOK'
  <2>1. ASSUME NEW p \in Reached \cap Page
        PROVE  /\ relay[p].copy \in Copy /\ g_installed'[relay[p].copy] = p
               /\ p \notin Through(relay, relay[p].calls)
    BY <1>3, <1>6, <1>7 DEF ChainInv, ReachedOK
  <2>2. page \notin Through(relay, relay[page].calls)
    BY <1>3, <1>5 DEF Reached
  <2> QED
    BY <1>1, <1>2, <1>3, <1>5, <1>6, <2>1, <2>2 DEF ReachedOK
<1>10. InstallOK'
  BY <1>1 DEF InstallOK
<1>11. RecordOK'
  <2>1. \A d \in Copy : installed_'[d] => g_installed'[d] # NoPage
    BY <1>1, <1>2, <1>4, <1>6, <1>7 DEF ChainInv, RecordOK
  <2>2. \A cp \in done' : g_installed'[cp[1]] # NoPage
    BY <1>1, <1>2, <1>6, <1>7 DEF ChainInv, RecordOK, SiteInv, TypeOK
  <2> QED
    BY <1>1, <2>1, <2>2 DEF ChainInv, RecordOK
<1> QED
  BY <1>8, <1>9, <1>10, <1>11 DEF ChainInv

(* Every other step leaves the site, the relays and what the copies remember. *)
LEMMA QuietChainInv ==
  ASSUME SiteInv, ChainInv, UNCHANGED <<code, relay, g_installed>>, InstallOK', RecordOK'
  PROVE  ChainInv'
BY DEF ChainInv, RememberedOK, ReachedOK, Reached

LEMMA NextChainInv == SiteInv /\ ChainInv /\ [Next]_vars => ChainInv'
<1> SUFFICES ASSUME SiteInv, ChainInv, [Next]_vars PROVE ChainInv'
  OBVIOUS
<1>0. TypeOK'
  BY NextSiteInv DEF SiteInv
<1>1. ASSUME NEW c \in Copy, NEW profile \in Profiles, Refuse(c, profile) PROVE ChainInv'
  <2>1. profile = "fixed" /\ refused' = refused \cup {<<c, profile>>}
        /\ UNCHANGED <<process, hooks, doing, done>>
    BY <1>1 DEF Refuse, Resolves
  <2>2. InstallOK' /\ RecordOK'
    BY <2>1 DEF ChainInv, InstallOK, RecordOK, process, hooks
  <2> QED
    BY <2>1, <2>2, QuietChainInv DEF process, hooks
<1>2. ASSUME NEW c \in Copy, NEW profile \in Profiles, Recognise(c, profile) PROVE ChainInv'
  <2>1. /\ g_installed[c] # NoPage /\ installed_' = [installed_ EXCEPT ![c] = TRUE]
        /\ done' = done \cup {<<c, profile>>}
        /\ UNCHANGED <<process, g_installed, doing, refused>>
    BY <1>2 DEF Recognise
  <2>2. InstallOK' /\ RecordOK'
    BY <2>1 DEF ChainInv, InstallOK, RecordOK, process, SiteInv, TypeOK
  <2> QED
    BY <2>1, <2>2, QuietChainInv DEF process
<1>3. ASSUME NEW c \in Copy, NEW profile \in Profiles, NEW page \in Page, Map(c, profile, page)
      PROVE  ChainInv'
  BY <1>0, <1>3, MapChainInv
<1>4. CASE Seal \/ MakeWritable \/ MakeWritableFails
  <2>1. UNCHANGED <<code, relay, hooks, history>>
    BY <1>4 DEF Seal, MakeWritable, MakeWritableFails, process
  <2>2. doing # Nothing /\ doing \in Install
    BY <1>4 DEF Seal, MakeWritable, MakeWritableFails, SiteInv, TypeOK, Nothing
  <2>3. doing' = Nothing \/ (doing'.page = doing.page /\ doing'.copy = doing.copy)
    BY <1>4, <2>2 DEF Seal, MakeWritable, MakeWritableFails, Install
  <2>4. InstallOK' /\ RecordOK'
    BY <2>1, <2>2, <2>3 DEF ChainInv, InstallOK, RecordOK, hooks, history
  <2> QED
    BY <2>1, <2>4, QuietChainInv DEF hooks
<1>5. CASE SealFails
  BY <1>0, <1>5, SealFailsChainInv
<1>6. CASE Patch
  BY <1>6, PatchChainInv
<1>7. ASSUME NEW c \in Copy, remove(c) PROVE ChainInv'
  <2>1. /\ installed_' = [installed_ EXCEPT ![c] = FALSE]
        /\ UNCHANGED <<process, g_installed, doing, history>>
    BY <1>7 DEF remove
  <2>2. InstallOK' /\ RecordOK'
    BY <2>1 DEF ChainInv, InstallOK, RecordOK, process, history, SiteInv, TypeOK
  <2> QED
    BY <2>1, <2>2, QuietChainInv DEF process
<1>8. CASE UNCHANGED vars \/ \E t \in Thread : Enter(t) \/ Pass(t)
  <2>1. UNCHANGED <<process, hooks, doing, history>>
    BY <1>8 DEF vars, Enter, Pass, CallRelay, CallHelper, Inject
  <2>2. InstallOK' /\ RecordOK'
    BY <2>1 DEF ChainInv, InstallOK, RecordOK, process, hooks, history
  <2> QED
    BY <2>1, <2>2, QuietChainInv DEF process, hooks
<1> QED
  BY <1>1, <1>2, <1>3, <1>4, <1>5, <1>6, <1>7, <1>8 DEF Next

LEMMA AlwaysChainInv == Spec => [](SiteInv /\ ChainInv)
<1>1. Init => ChainInv
  BY InitChainInv
<1>2. SiteInv /\ ChainInv /\ [Next]_vars => ChainInv'
  BY NextChainInv
<1> QED
  BY <1>1, <1>2, AlwaysSiteInv, PTL DEF Spec

(* However copies are loaded, re-installed and removed, and whatever fails, a copy that *)
(* says its hook is installed is passed by every login that enters the site: no other   *)
(* copy's patch cuts it off (SiteHook::install stores the callee it found).             *)
THEOREM SiteHookInstalledIsReached == Spec => []InstalledIsReached
<1>1. ChainInv => InstalledIsReached
  BY DEF ChainInv, RecordOK, RememberedOK, InstalledIsReached
<1> QED
  BY <1>1, AlwaysChainInv, PTL

(* ... and is passed once: no relay comes back to itself, and no copy has two relays    *)
(* on the way (the look at g_installed, hook.cpp:292-302).                              *)
THEOREM SiteHookPassedOnce == Spec => []PassedOnce
<1>1. SiteInv /\ ChainInv => PassedOnce
  <2> SUFFICES ASSUME SiteInv, ChainInv, NEW p \in Reached \cap Page,
                      NEW q \in Through(relay, relay[p].calls) \cap Page,
                      relay[p].copy = relay[q].copy
               PROVE  FALSE
    BY DEF PassedOnce
  <2>1. relay \in Relays
    BY DEF SiteInv, TypeOK, Relays
  <2>2. q \in Reached
    BY <2>1, ThroughClosed, ThroughTransitive DEF Reached
  <2>3. p = q
    BY <2>2 DEF ChainInv, ReachedOK
  <2> QED
    BY <2>3 DEF ChainInv, ReachedOK
<1> QED
  BY <1>1, AlwaysChainInv, PTL

(* A refused re-install takes nothing back: the copy it is refused to is passed by      *)
(* every login as before (resolve_site fails before install touches anything).          *)
THEOREM SiteHookRefusedStaysHooked == Spec => []RefusedStaysHooked
<1>1. SiteInv /\ ChainInv => RefusedStaysHooked
  BY DEF SiteInv, TypeOK, ChainInv, RecordOK, RememberedOK, RefusedStaysHooked
<1> QED
  BY <1>1, AlwaysChainInv, PTL

=============================================================================
