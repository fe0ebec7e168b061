# A verification project for xuidforward

TLA+ models of xuidforward, the model-checking runs for them, and proofs of the
theorems that matter most. xuidforward is a plugin for the Bedrock Dedicated Server
(BDS) that gives a relayed, self-signed login the XUID its player really has. Paths
below are relative to the repository.

## The system and its parts

A login passes through the program like this:

    relay --> Login packet --> on_packet_receive (Python)  --xf_stage-->  identity stage
                                        | xf_clear_stage (from outside)        ^
                                        v                                      | size, take
    BDS validates the login --> patched call --> relay page --> inject_entry --+
                                   ^                               | assign
                SiteHook::install -+                               v
                ^      resolve_site                         XUID field of the auth result
                |
    on_load / on_enable / on_disable (Python) --> xf_self_check, xf_install, xf_uninstall

| part | state it keeps | operations | correct when |
|---|---|---|---|
| identity stage, `plugin/src/stage.h` | a map from folded names to identities with deadlines, under one mutex; one instance per process | `put`, `take`, `peek`, `clear`, `size`, `staged_names` | an identity is redeemable once, under any spelling, until its time is up, and leaves no trace after that |
| `inject_entry`, `plugin/src/inject.cpp` | `g_config` (no lock), `g_injection_enabled` (atomic), counters | `inject_configure`, `inject_enable`, `inject_entry` | fills a blank field with an XUID that was staged for this name; touches nothing else; always returns |
| C interface, `shim/xf_api.cpp` | the hook object, `g_namespace`, the error and status strings, under `g_mutex` -- and not under it in `xf_stage` | `xf_self_check`, `xf_install`, `xf_uninstall`, `xf_stage`, `xf_clear_stage`, `xf_set_namespace`, `xf_status`, `xf_last_error` | a call that fails changes nothing that a later login notices; uninstalled means inactive |
| Python plugin, `python_plugin/.../__init__.py` | `_config`, `_hook_installed`, the loaded library, the addresses of the machine | `on_load`, `on_enable`, `on_disable`, `on_packet_receive` | only accepted logins are staged; outside logins never gain from it; installed means installed |
| site hook, `plugin/src/hook.cpp` | `installed_`, `relay_`, `g_installed`; the code and pages of the process | `install`, `remove`, the generated relay | no thread lands in memory that is not a relay; one relay per copy, reached while installed |
| profile and signature, `plugin/src/profile.cpp`, `signature.h` | a profile, the running image | `load_profile`, `resolve_site`, `verify_site`, `signature_scan` | the one place in the image, and the function really called there -- or a refusal |
| verification tool, `plugin/tools/verify.cpp` | none | a verdict | agrees with what the plugin will do |
| guest strings, `plugin/src/abi_string.h` | none (memory of BDS) | `read`, `is_empty`, `assign` | 24 bytes, in two layouts, never a byte more |
| login body, `login_body.py` | none | `parse_login_body`, `names_for_staging` | the sender's two blobs, in either framing, wherever the body ends |
| flat JSON, `plugin/src/mini_json.h` | none | `parse_flat_json` and parsers of values | what was written is read, and a file that ends early says nothing else |
| C++ front end, `plugin/src/xuid_forward_plugin.cpp`, `claims.h` | `settings_`, `hook_ready_`, the hook object | `onLoad`, `onEnable`, `onDisable`, `onPacketReceive` | as the Python plugin; it is not what the releases ship |
| uuid5, `tools/elfscan.py`, build files | none | pure functions, scripts | -- |

How they interact: the packet callback and the login threads of BDS share the stage,
`g_config` and `g_injection_enabled`, each guarded differently (a mutex of its own,
nothing, an atomic); the plugin's callbacks and the login threads share the code of
BDS and the relay pages with no lock at all. Disabling or reloading the plugin leaves
the library, the patch, the stage and `g_config` in the process.

Behaviours that are hard, and that PROJECT.json lists line by line as hazards:

- a login is two events far apart, its packet and its hook; anything may happen
  between them, to it, to other logins, to the plugin;
- `inject_entry` consumes the identity before the last checks that may refuse it;
- the stage erases lazily: what is outdated lies there until somebody sweeps;
- `g_config` is reassigned while it is read;
- code is patched while threads run through it, and every step of that may fail;
- two copies of the library may patch one call; a re-install meets its own bytes;
- a profile file is merged, key by key, into a profile of another build;
- the relay is machine code written down by hand, displacements and all;
- a login body comes in a framing nobody announces, and may be cut short.

## The modules

| module | what it is |
|---|---|
| `StageMap` | the table of the stage as pure operators: `normalize` as a function, `Sweep`, `Put`, `Take`, `Found`, `Size`, and mutants of them |
| `StagePromise` | what the stage promises: identities vanish the moment their time is up, no sweep |
| `IdentityStage` | the stage as code: one action per method (each holds the mutex throughout), an explicit sweep, a clock; `KeepsPromise` is its refinement of `StagePromise` |
| `LoginPath` | packet handler, shim, stage, `inject_entry` and plugin callbacks together, interleaved at every point where another thread can be seen |
| `Restoration` | what the whole is for, with no stage, clock, hook or thread: blank fields filled by XUIDs that accepted logins of that name carried, one field per login; `Restores` is the refinement of it |
| `CppFrontEnd` | the C++ plugin's callbacks and packet handler over the stage, the hook and `inject_entry` of `LoginPath`; `EitherSpec` is a server with one front end or the other |
| `SiteHook` | install, remove and re-install by several copies of the library, with login threads inside the call and inside relays, a chain of relays if there are several |
| `Relay` | the machine code `build_relay` emits, byte for byte, and a processor that runs it |
| `SiteProfile` | load_profile, resolve_site, verify_site and signature_scan against whole images, beside the verdict of the verification tool |
| `GuestString` | detect, read, is_empty and assign on the 24 bytes of a `std::string` of BDS, beside what the library itself makes of these bytes |
| `LoginBody` | `parse_login_body` on bytes, beside the relay that framed them |
| `FlatJson` | `parse_flat_json`, one turn of its loop per step, on documents that are whole or end early |
| `MC*` and `*.cfg` | the instances that TLC checks |
| `StageMapProofs`, `IdentityStageProofs`, `LoginPathProofs`, `SiteHookProofs`, `SiteProfileProofs`, `GuestStringProofs`, `LoginBodyProofs`, `FlatJsonProofs` | the theorems and their proofs |

`StageMap` is used by `IdentityStage`, `StagePromise` and `LoginPath`, so the stage that
is shown to keep its promise is the one that `LoginPath` runs on, and `CppFrontEnd` with it. An operator marked "a
mutant" in a module is not part of the model; it is a mistake the code could contain, put
beside the definition it spoils, with which the run in PROJECT.json fails.

### From state and actions to code

`StageMap`/`IdentityStage`. `entries` is `entries_`; its domain is folded names, so
`normalize` stands for `normalize_name` and any function at all from names to names (a
CONSTANT) says which spellings are one name. A deadline is `now + ttl`, an entry is
outdated when `expires <= now`, as in `sweep_locked`. `peek` is the one reader that does
not sweep, and `StagePromise!Look` is accordingly weaker than `Redeem`. `returned` is what
the last method returned, with the method's name.

`LoginPath`. `pc[l]` says where login l is; its values are the points at which another
thread can run. `Receive` is `on_packet_receive` up to its call of the shim (all its early
returns are in `Stageable` and `SourceAllowed`), `ClearStage` and `StageIdentity` are
`xf_clear_stage` and `xf_stage`; `Drop` and `Validate` are BDS, external: any login may
fail there, and the auth result may have any name and any field. `EnterInject` is the read
of `g_injection_enabled`, `CheckStage` the call of `size()`, `TakeIdentity` the reads of
guest memory and `take()`, `CheckIdentity` the checks after it, in the order of the source,
and `WriteXuid` the write: a reload of the configuration may come between these two. The
plugin's life is `OnLoad`, `OnEnable`, `InstallRefused` |
`InstallBegins`, `AssignSome`*, `Arm` (the last member of `g_config`, then the flag), `Hook`
| `HookFails`, `OnEnableReturns`, `OnDisable`, `Uninstall`. `AssignSome` is the data race of
the member-wise assignment: any mixture of old and new members, any number of times. Four
history variables are read by the properties only: `rejected` (turned away by the source
guard), `due` (when what a login staged expires), `standing` (the logins whose identity was
put and was since then not overwritten, cleared or asked for) and `newcomers` (the logins
that came to the hook after the flag and `g_config` were last written).

`Restoration` does not say whose claims count, as the two front ends differ in that. It has
a set `barred` of logins whose claims may not be used: for the Python plugin the native Xbox
logins and those that the source guard turned away, for the C++ one none, as
`onPacketReceive` looks neither at the address nor at how a login is authenticated.

`CppFrontEnd`. `onEnable` is made of the steps of `LoginPath` that do the same in
`xf_install`, in the same order; there is no self check, so `InstallRefused` is the missing
image base. `onLoad` stores what `Loaded` makes of the file: a lifetime out of range is
replaced, a string layout that is not found disables the plugin. `onPacketReceive` is one
step, as it touches nothing shared but the stage, once. What `claims.h` decodes is there or
not (`parsed`); as written it finds claims in the `Token` of a connection request only: a
payload that is the client data itself is handed on as if it were a token, and a bare token
is not recognised, whatever the comment at `claims.h:92-93` says.

`Relay`. The operators named after those of `Emitter` give bytes, `Code` is what
`build_relay` returns: with the two addresses of `MCRelay` the 427 bytes are those of the
compiled function. `Push` to `Ret` are the instructions as a processor decodes them (prefix,
opcode, ModRM); what is in a register or slot is told by where it came from, and slots below
`rsp` are given up at once, as a signal may. A called function keeps to the calling
convention. (If the original function took arguments on the stack, the relay would not pass
them on: `Relay` looks at registers, and BDS's function at the built-in site has few.)

`SiteHook`. `code` is what the call at the site calls; `memory` and `relay` are the pages;
`installed_` and `g_installed` are the fields of each copy; `doing` is the local state of
the one `install` under way. A thread is `outside`, `calling` (`next` says what) or
`injecting` (`stack` holds the relays it is in). `Refuse` is `resolve_site` failing,
`Recognise` the shortcut for a site patched before, `Map` to `Patch` the steps of a first
install and `SealFails`, `MakeWritableFails` its failures after the page was mapped (a
failure before that leaves no trace). `remove` leaves patch and page. A profile
`"fixed"` compares bytes, the displacement included; with `"signature"` it is a wildcard.
`Through(relays, x)` is what a call of x passes on its way to BDS's function: the least set
with x in it that is closed under what relays call.

`SiteProfile`. An image is its bytes by address; a call is an opcode and one byte of
displacement, so `Callee(a)` stands for reading a rel32. `Merged` is `load_profile`'s merge
of the file's keys and what it clears; a key may be absent or garbled. `Scan` counts as
`signature_scan` does, up to two, from segment to segment. `ByAddress` reads where the
profile says, mapped or not: the verdict `crashed`. So does `BySignature` when a signature
of the opcode alone matches the last byte of the mapped memory, for `resolve_site` reads the
displacement without asking how long the signature was (`profile.cpp:217`). `File` says
which values a key may have: an empty pattern and an empty byte string are refused by their
parsers, as `Garbled` is, and only absent keys leave them to the built-in profile.

`GuestString`. `object` is a string of BDS and the eight bytes behind it, `heap` what its
pointer leads to, `layout` what `Detect` found. `ShortForm` and `LongForm` are the library,
external: its two arrangements as the code knows them, and one that the code cannot know
(the discriminator in the highest bit), with which `Detected` must find nothing. `Make` is BDS
making a field, `Elsewhere` a field that is no string at all (offsets of another build);
`Read`, `CheckEmpty` and `Assign` are the calls of `inject_entry`, which assigns to a
field only after it found it empty. `LoginPath` uses the outcomes: `Blank` is what `IsEmpty`
accepts, `NoName` and `Garbled` are what `ReadString` refuses (an empty string in the long
form is one of them), `Assignable` is `Assigns`.

`LoginBody`. `sent` is what the relay encoded, in a layout the parser knows or not, `body`
the bytes that arrived. `Accept`, `TryNext` and `Scan` are the loop over the framings and
the fallback, with lengths decoded from the bytes. JSON is not parsed: `json.loads` succeeds
on the whole request and on nothing else, and a JWT's claims are there once its payload is.
`RequestText` holds what the scan could trip over: an escaped quote, braces in strings.
`Varuint32` and `Int32Le` are the two ways to read a length, a negative one included.
`SpanEnd` is the loop of `_json_object_span` over the characters that change its three
locals (`Marks`): braces, quotes, backslashes, and what follows a backslash. Positions are
those of bytes; the code decodes the body first and counts characters, which shifts
both ends of a slice alike.

`FlatJson`. `i` and `values` are the locals of `parse_flat_json`, and a step is a turn of
its `while` loop: `ReadString`, `SkipContainer`, `ReadScalar`, or `Return` at one of its
three breaks. `turn` flips with each, so that a turn that changes nothing is a step like
others. The writer is external: `Whole` puts a document's members one after the other, as
`writeDefaultConfig` and the files under `plugin/profiles/` do (with a line break or blank
more here and there), and `IsMember` says what a member is (below). `Meant` is what the members say.

## The runs

| run | instance | question, and answer |
|---|---|---|
| `stage` | two spellings of a name and another name, two identities, lifetimes 1 and 2, clock to 4 | every answer of the stage is one that `StagePromise` gives |
| `logins_in_turn` | two logins, clock to 1, two configurations (one dry), `OneThread` | what holds when a login is done before the next event: blank fields are filled with accepted claims of that name only, outside logins gain nothing, a dry run or a disabled plugin writes nothing, every login ends |
| `logins_overlapping` | two logins, clock to 1, either front end, two configurations and what the C++ one makes of them, all interleavings | what holds without any assumption: `FrontRestores`, `InstalledMeansLive`, no identity is lost (`StagedIsFound`), a login takes the latest of its name (`TakesLatest`), a login that comes after a reload or a disable goes by it (`AsConfigured`) |
| `outside_overlap` | a relayed login and one from outside, Python front end, all interleavings | `RejectedUntouched` fails |
| `stock_after_disable` | as `logins_overlapping`, C++ front end, `OneThread` | `DisabledMeansStock` fails |
| `site_hook` | two copies, three pages, two threads, chain of at most three | threads land in relays, installed copies are reached, once, a refused re-install leaves the copy's relay in the way, and no relay calls itself |
| `relay` | 80 instructions; either call changes no volatile register but rax, one, or all | both calls get the registers and the alignment they were promised, and all registers and the stack are as before after it |
| `site_profile` | all 729 images of six bytes, two sizes of the executable, 240 profile files | located is unique and re-issues the right function; pinned is exact; what the tool accepts the plugin patches |
| `helper_inherited` | the same | `AcceptedReissues` fails |
| `guest_string` | three builds of the library, texts of up to 65 characters around every limit, every flag byte, three fillings of unused bytes | detect is exact or refuses; read is what the library holds; blank is blank; a filled field holds the XUID, and nothing behind it changes |
| `login_body` | five layouts, request and client data of 12 to 251 bytes, ends around every boundary | read exactly if arrived, in the sender's framing; other framings by the scan |
| `flat_json` | all documents of up to two of 60 members, cut after every character | whole documents are read as meant; of a flat one that is cut short, what had arrived and a part of the next value at most; every turn advances unless the text ends in a string's value |

### The bounds, and why they are enough

- Two logins. The stage holds one identity per name; a wrong hand-over needs one login
  that stages and one that takes, and a third login can only do again what one of these
  did. `LoginPathRestores` is proved for any number.
- Names: one player in two spellings, and another. XUIDs: one that is fine, one not of
  digits, one too long for the short form. Auth results: the relay's, a native one, one with
  an XUID field that is neither blank nor readable, one with no readable name, one that is
  not engaged. Between the two runs each exit of `inject_entry` is taken: not engaged, name
  unreadable, garbled, present, in turn; not numeric, write refused, overlapping; the
  others in both.
- The clock: to 1 with a lifetime of 1, so that a login comes before or at the deadline of
  what another staged, which is where `expires <= now` decides. Lifetimes inside one
  another are the business of `stage`, where the clock goes to 4.
- `SiteHook`: two copies and three pages let an install fail with a lost page, be tried
  again, and be stacked on or under the other copy's relay; a chain is then at most two
  relays long, and `MaxDepth` 3 is one more than a correct chain needs. A relay
  chain that overflowed would be stuck below `MaxDepth` and violate `PassEnds`.
- `SiteProfile`: two segments of three and two bytes with a byte between them that is not
  executable hold a match at either end, across the gap and twice; patterns are two bytes
  long, or three in the built-in profile, and one is the opcode alone.
- `logins_in_turn` has the relay's login, the same from outside, an unreadable one and a
  native Xbox login that claims an XUID. `logins_overlapping` has the relay's, an Xbox login
  from outside that claims an XUID (the C++ front end stages it and `all_digits` is what
  stops it), and one whose SelfSignedId does not fit, with an XUID too long to be written,
  which comes to the write when `require_self_signed_id_match` was off as it was staged.
- `LoginBody`: 127 and 128 are the last length of one byte and the first of two in a
  varuint32, 251 is a length whose first byte is a brace, 123 and 125 are the braces themselves; the bodies are not
  symmetric in anything, so each layout, length and end is tried with each. Two bounds are in
  the module, and in its theorems: `MaxBody` (16 MB), as the four bytes of a varuint32
  taken for an int32 could in a longer body be a length that fits; and, in
  `ScanFindsRequest` only, `MaxScanned` (64 KB), for the same of a big-endian length.
- `FlatJson`: a member depends on the one before it through the position only, and on its
  key if it is the same; two members show both. Keys are plain, empty, with a colon and
  a bracket, with an escaped quote; one container is an array of strings that hold colons,
  so that without its condition `EveryTurnAdvances` fails. Tab and carriage return are like blanks.
- `GuestString`: lengths below, at and above 22, 24 and 64, last characters at and beside
  the limits of printable ASCII, unused bytes that are zero, all ones and what the probe's
  length looks like; a field is made once and then used in any order.
- Symmetry is used in `LoginsOverlapping.cfg` only, on logins, which no definition
  tells apart, and with safety properties only.

### Fairness

`LoginPath!FairSpec` and `SiteHook!FairSpec` assume weak fairness of the steps of each
login's thread once it is inside BDS or the plugin: these are threads of the operating
system in code without a wait other than short mutexes, and BDS times a login out if it
comes to nothing (`Drop`). Nobody has to log in, no callback has to run and the clock need
not advance. `EveryLoginEnds` and `PassEnds` rest on this and on nothing else.

`OneThread` is not a claim about the server, and no theorem assumes it. It is the
assumption under which four sentences of the repository's documents are checked and hold
(`RejectedUntouched`, `DryRunWritesNothing`, `DisabledMeansStock`, and that every login
ends); with overlap the first fails (`outside_overlap`), and so do the second and third, by
a login that is past its last look at flag and `g_config`. What the program does guarantee
is stated beside them and proved for all interleavings: `TakesLatest` instead of the first,
`AsConfigured` instead of the other two. Packet callbacks do run one at a time in Endstone,
but a login's validation is long over its packet's callback, so two logins overlap whenever
two players join together.

## What the failing runs show

Each is a sentence in a comment, a message or the README that the code does not keep; the
text of each finding in PROJECT.json quotes it.

1. `outside_overlap`: the stage is cleared when an outside login's *packet* arrives. A
   relayed login of the same name may stage after that and before the outside login
   reaches the hook, which then takes its identity.
2. `stock_after_disable`: the C++ front end disables without `inject_enable(false)`; an
   identity that was staged before is written into a login that comes after. The Python
   front end says the same sentence, and keeps it when logins come in turn.
3. `helper_inherited`: a file with `site_rva` and `expected_site_bytes` but no `helper_rva`
   inherits the helper of the built-in profile's build.

Seen while modelling, and kept as hazards with their lines rather than as runs of their own:

- With threads overlapping, a login past the check of `g_injection_enabled` writes after
  `xf_uninstall` returned, and a reload assigns `g_config` under logins that read it
  (`inject.h:35` says read-only).
- With a fixed-address profile a re-install is refused before it can recognise its own work
  (`hook.cpp:292-294`); with the built-in signature it is recognised. The repository's
  README says the patch cannot be re-installed into a running server at all.
- `profile.h:34` says `helper_rva` is derived when it is 0, and `profile.h:55-56` that
  `resolve_site` derives it "when helper_rva is 0". The code derives it from the call at the
  located site always, as its own comment says (`profile.cpp:210-211`), and as `hook.h:9-10`
  needs. `LocatedReissues` states what the code does: whatever `helper_rva` a profile
  carries, the relay calls what the call at the site calls.
- The verification tool compares size and bytes for a profile with a signature too, and
  says the plugin would refuse where it patches.
- After a re-install that `hook_.install` refused, with an earlier patch still in place, the
  flag is on and logins go on being rewritten, although the C++ front end logs that "the
  server keeps running with BDS's stock behaviour" (`xuid_forward_plugin.cpp:102`).
- An identity may be staged after `on_disable` (the handler looked at `_hook_installed`
  before it), and lies there until its time is up or the next enable.
- `parse_flat_json` never returns from a text that ends inside of a string value, such as
  `{"a": "b`, and takes `b` for a member of the outer object in `{"a":{"b":7`. Compiled, it
  does the same. Nor does it return from `{"a": ["b",":",":"`, which ends outside of any
  string: the array that never ends is not skipped, the colon inside of one of its strings
  is taken for a member's, and from there on the reader has strings and what is between
  them the wrong way round. (This came of the attempt to prove that a text which ends
  outside of strings is always read to its end; small instances do not show it.)
- The fallback scan of `parse_login_body` is there so that "a framing change cannot silently
  turn into 'the hook never fires' again" (`login_body.py:190-191`), and begins at the first
  brace of the body, be it a byte of the protocol number or of a length. With lengths of
  four bytes, highest first, a request of 379 bytes (256 + 123) is not found; called with
  such a body, the function returns `None`. `ScanFindsRequest` is stated without such a byte.

## What is proved

For every value of the constants, without the bounds above. What the constants are assumed
to be stands in the modules that declare them, and is this:

- `NormalizeAssumption`, `TtlAssumption`, `MaxTimeAssumption`, `LoginPathAssumption`,
  `CppFrontEndAssumption`, `SiteHookAssumption`: special values are not ordinary ones, sets
  hold the right records, lifetimes are positive.
- `GuestStringAssumption`: the library is one of `Libcxx`, the two layouts that `detect` is
  written for (`abi_string.h:143`) and one that it is not; the address of a heap buffer is
  more than one byte wide, so it is not mistaken for a length; texts of BDS have at most 255
  characters (a length is one byte in the model), while `read` already stops at 64.
- `SiteProfileAssumption`: executable segments are mapped, nothing is mapped at address 0,
  an executable is not empty, and the built-in profile has a signature, as
  `builtin_profile()` does (`profile.cpp:66`).
- `LoginBodyAssumption`: a request has at least the 14 characters of the text in the model,
  client data begin with `eyJ` and claims that follow it, and a body is below 16 MB.
- `FlatJsonAssumption`: what a writer of JSON guarantees, read off the text. A quote inside
  of a key or a string is escaped, and the quote that closes it is not; a number or word is
  not empty and holds neither blank, comma, bracket nor quote; a container ends with the
  bracket that closes its first one, unless the member is marked `bracketed`: a string in
  it holds a bracket.

**The stage** (`StageMapProofs`, `IdentityStageProofs`). `IdentityStageTypeOK` and
`IdentityStageKeepsPromise`. The invariant `StageInv` adds to the type that the table is
finite, without which a size would be no number. The refinement maps `live` to the swept
table. The lemmas say that sweeping twice, or before a `Put` or `Take`, is sweeping once,
that a sweep and a `Put` keep the table finite and what becomes of each entry; the rest is
one step per method.

**A login, with threads overlapping in any way** (`LoginPathProofs`). Nothing here assumes
`OneThread`, and nothing is assumed of who claims what.

- `LoginPathTypeOK`. The type is not inductive: that a taken identity is one and that an
  auth result is there depends on how far the login is. `TypeInv` adds `WayOK`, which says
  that for each position.
- `LoginPathInstalledMeansLive`, by `LifeInv`: which of flag, configuration and patch are
  in force at each point of `on_enable`.
- `LoginPathRestores`, the main theorem: `LoginPath` implements `Restoration` for any
  logins, names, configurations, lifetimes and interleaving. Its invariant `OriginInv` says
  of each identity, in the stage (`StagedOrigin`) and in the hands of a login
  (`HeldOrigin`), that it is what an accepted login of the name it is filed under carried,
  and that it is in one place only (`TakenOnce`). The last is why a single-use stage makes a
  single-use XUID, although an identity is consumed long before it is written, or is
  refused after it was consumed. `NotNative` adds that under the Python plugin none of them
  is a native Xbox login's. Steps that only drop entries are one lemma, and `Shows` sums up
  what a step looks like from `Restoration`, for this theorem and the next.
- `EitherRestores` and `EitherInstalledMeansLive`: the same under `EitherSpec`, with either
  front end, and any claims, those of Xbox logins that carry an XUID included. `EitherInv`
  adds that the C++ front end's lifetime is positive, which `loadConfig` sees to, so that
  what its packet handler stages in one step counts; its `onLoad` and `onEnable` are shown to
  be steps of `LoginPath`. (For the C++ front end the theorem is that much weaker: claims go
  by anyone who sends them.)
- `EitherAsConfigured`, by `ConfiguredInv`: the flag is up only between `Arm` and
  `Uninstall`, and then `g_config` is what the loaded file asks for (`FlagInv`); and a
  newcomer that is about to write has seen the flag and the options as they are now
  (`NewcomersInv`), for whoever changes these ends the list of newcomers.
- `EitherStagedIsFound` and `EitherTakesLatest`, by `StandInv`: an entry of the table is
  that of a login that stands, with its own deadline (`EntriesStand`), and a login that
  stands and is in time has its entry in the table, under its folded name
  (`StandingStaged`). So neither the sweep of another call, nor an identity that is
  overwritten, nor what happens between `size()` and `take()` makes an identity disappear
  or come back.

**The site** (`SiteHookProofs`).

- `SiteHookTypeOK`, `SiteHookWellLanded`, by `SiteInv`: the site and every relay, and what a
  thread calls next, are BDS's function or sealed pages, and the page that `Patch` stores
  was sealed by the same install.
- `SiteHookInstalledIsReached`, `SiteHookPassedOnce` and `SiteHookRefusedStaysHooked`, by
  `ChainInv`. On the way from the site lies one relay of each copy that remembers one
  (`RememberedOK`), no relay of anybody else, and none that leads back to itself
  (`ReachedOK`). The patch adds one relay in front of that way, and this needs `InstallOK`:
  the page of an install under way is called by nothing, its relay calls what the site
  calls *now*, and its copy does not remember any. That `g_installed` is looked at before
  anything is mapped (`hook.cpp:295`) is where it would break.

**Finding the site** (`SiteProfileProofs`), for any image, segments and profile file.

- `ProfileLocatedIsUnique`, `ProfileLocatedReissues`, `ProfilePinnedIsExact`,
  `ProfileValidIsAccepted`, `ProfileTypeCorrect`. The state invariant `StageInv` only says
  which of the three stages of `xf_self_check` was reached, with what profile. The work is
  in the lemmas about the scan. `Scan` and `ScanAll` are recursive functions; that they
  exist is shown first (`LoopExists`, `SegmentsExist`), then that at each address and after
  each segment the count and the first match tell how many of the places looked at match
  (`Tells`: none, exactly this one, or more), and at last that the places looked at are all
  places of the executable segments (`PlacesAre`). `MergedIs` and `NoSignatureMeansPinned` do
  the same for `load_profile`'s merge: a profile without a signature comes of a file that
  gave a site and no signature.

**BDS's strings** (`GuestStringProofs`), for any text, XUID and filling of unused bytes.

- `StringDetectIsExact`: a byte of the short probe that holds its doubled length without
  being the discriminator is an unused byte behind it, or one that is zero in the long
  probe, and so `detect` takes the right one or nothing.
- `StringFieldHoldsText`, `StringReadIsText`, `StringBlankIsFilled`,
  `StringNextMemberUntouched`, `StringTypeCorrect`, by `StringInv`. That a field holds a text
  for the library is not inductive in the library's own words; `StringInv` says that its
  bytes are one of the two forms of that text, byte by byte, and that the discriminator of
  a field just found empty is zero, which is why `assign` then refuses for the length of
  the XUID only.

**A login's body** (`LoginBodyProofs`), for requests and client data of any length, and
wherever the body ends.

- `RequestReadAlways` and `ClientReadAlways`, by `IInv`: what has arrived is a prefix of what
  the relay encoded (`Body`), and a framing is left behind only if it is not the sender's or
  the request did not arrive (`Attempts`). Three arguments carry it. A length that was
  encoded is read back, wherever it stands, and one that was cut short is none
  (`PrefixReads`). The int32 framing refuses a varuint32's blob (`OtherRefused`): the fourth
  byte of what it takes for a length is 1 to 127, a byte of the varuint32 or of the
  request's text, so the length is 16 MB or more. (The varuint32 framing is tried second,
  and the converse is not needed.) And what is read from a body in which the request was
  cut short is not the request (`CutIsNoSlice`): it would have to begin before the request
  does, and the request's text does not fit over its own beginning.
- `ScanFindsAlways`, by `ScanInv`: in a framing that the parser does not know both known ones
  refuse the body (`UnknownRefused`), the walk over the marks is at depth 0 for the first
  time at the end of the request (`RequestWalk`, one mark of the request after the other),
  and the first `eyJ` behind it begins the client data (`ScannedClient`).

**A profile or configuration file** (`FlatJsonProofs`), for documents of any number of members,
keys and values of any length, that end after any character.

- `WholeIsReadAlways`, `CutIsPrefixAlways` and `EveryTurnAdvancesAlways`, by `TextInv` (the text is a prefix of the
  document, and stays it) and `ReadInv`, which has three cases. `Through`: the position is
  behind member k, and `values` is what the first k members say. `InPart`: a number or word
  with which the text ends was read as far as it goes. `InLoop`: the text ends in a string
  value, and the reader comes back to the colon before it, for ever; it keeps that string's
  beginning as a key, but never returns with it, which is why the first two properties speak
  of a reader that returns. `InLoop` is also where a colon in a key of a
  document that is cut would do harm, and the property excludes it: in `{"a:b` the key's own
  colon is taken for the member's, and a key that never ended is kept. The third says that `InLoop` is all that keeps the reader from returning
  (`LoopEndsInString`; in the other cases a turn passes a key's end at least,
  `BehindAdvances`).
- A turn is followed by its scans. `Shown` and `Laid` say where each member stands in
  whatever there is of the text (`CutShown`: a text that ends early shows what the whole
  does). `EscapesAgree` says that two strings that agree up to a character, and do not end
  there, escape alike up to it; so `StringEndIs`: the reader ends a string where the writer
  did, or nowhere if that quote did not arrive. `ContainerEndIs` is the same for the bracket
  of a container: shifting it into the text keeps the number of brackets up to each place
  (`BracketsShown`, a bijection). `TurnFinds` puts them together: behind member k the turn
  finds key and value of member k + 1, and `StringStep`, `ContainerStep` and `ScalarStep`
  are one turn each.
- `TypeOKAlways` needs none of that: it is about any text, and says by the shape of the scans
  that each stops in the text or right behind it (`Found`), and so does the position.

Induction over data. The library's induction theorems take an operator as a parameter,
which the provers cannot instantiate. `Induction` in `SiteProfileProofs` is the same for a
*set* of numbers, proved from a well-founded relation, and that is enough for a recursive
function. No module declares a RECURSIVE operator.

Only model-checked, on the instances above:

- the liveness properties `EveryLoginEnds` and `PassEnds`, which are out of the prover's reach,
  as is ENABLED;
- `RejectedUntouched`, `DryRunWritesNothing` and `DisabledMeansStock`, which hold for logins
  in turn only: a theorem that assumes `OneThread` would say nothing of the server;
- all of `Relay`: it has no constants but two addresses, TLC runs all its 80 instructions
  with every choice there is, and a proof would be that run written down.

Nothing is stated of `FlatJson` on a document that is cut inside of a container, where a turn
of the reader has nothing to do with a member of the document: its steps are in the model,
and the conditions of `CutIsPrefix` and `EveryTurnAdvances` leave it out, as they fail there.

## What is not modelled, and what is taken for granted

- BDS is external: it calls what the site says, gives each login an auth result or drops
  it. That the hook's arguments are the auth result and so on is what the profile's
  evidence is for, and is not checkable here.
- `Patch` is one step. At the built-in site the displacement is in one cache line.
- `main_image_size()` is taken to succeed; its failure is a refusal like others.
- Counters, log lines, their rate limit, the wording of `xf_status` and `xf_last_error`.
- `alloc_near`'s search: a page in reach is found or not. AVX state above the xmm registers
  is volatile in the calling convention and not looked at.
- uuid5 and SHA-1: a claim is consistent or not. The number and pattern
  parsers: a value parses or not. `elfscan.py` and the build: offline.
- `stage_ttl_seconds`, dates and lifetimes are small naturals; the clock is steady.
- Null and misaligned pointers, and the parsing of `/proc/self/maps`: memory that is looked
  at is readable, but for heap pointers.
- `g_namespace` as state, half written by `parse_uuid` or read without its lock, and the
  shim's strings, on which nothing is decided.
- In the C++ front end: `status`, `writeDefaultConfig`, and whether the host unloads a
  disabled plugin's library, with the patched call still leading into it.

## The plan

Order of work, most important first; all but the last are done.

1. `StageMap`, `StagePromise`, `IdentityStage`: the stage and its promise. Proved.
2. `LoginPath`, `Restoration`: a login end to end, with reloads. Proved: types, restoration,
   installed means live.
3. `SiteHook`: patching under running threads. Proved: types, landing, who is reached.
4. `SiteProfile`: finding the site; the tool beside the plugin.
5. The proofs of the first three.
6. `GuestString`: reading and filling BDS's strings.
7. `LoginBody` and `FlatJson`: the two parsers, on input that ends early.
8. `CppFrontEnd`: the other front end over the same stage and hook.
9. `Relay`: the machine code of the relay.
10. Theorems: `EitherSpec` implements `Restoration`; under it no identity is lost, the latest
    is taken, and later logins go by the configuration; who is reached in `SiteHook`; all of `SiteProfile` and `GuestString`. Proved.
11. Theorems about `LoginBody` and `FlatJson`, by induction along the text. Proved.
12. `g_namespace` as state of `LoginPath`; `SiteHook` with two sites, where `g_installed`
    remembers one.
