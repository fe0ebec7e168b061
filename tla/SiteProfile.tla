----------------------------- MODULE SiteProfile -----------------------------
(***************************************************************************)
(* How the call to patch is found: the profile file merged into the        *)
(* built-in profile (load_profile), the profile held against the running   *)
(* image of BDS (resolve_site, verify_site in plugin/src/profile.cpp, and  *)
(* plugin/src/signature.h), and the command-line tool that is to say       *)
(* beforehand what the plugin will do (plugin/tools/verify.cpp).           *)
(*                                                                         *)
(* An image is its bytes by address; a call is an opcode and ONE byte of   *)
(* displacement, forwards from the next instruction.  Address 0 is never   *)
(* code, as in the program, where it stands for "not given".               *)
(***************************************************************************)
EXTENDS Integers, FiniteSets, Sequences

CONSTANTS
  Byte,       \* values of a byte, numbers
  Opcode,     \* the one that begins a call
  Mapped,     \* the addresses that can be read
  Spans,      \* the executable segments, in order: [start, len]
  Images,     \* images: functions from Mapped to Byte
  Sizes,      \* sizes of the executable
  Files,      \* profile files
  builtin,    \* builtin_profile()
  Wild,       \* a wildcard in a signature
  Absent,     \* a key that the file does not have
  Garbled     \* a value that does not parse

Pattern == Seq(Byte \cup {Wild})

Profile == [executable_size : Nat, site_rva : Nat, helper_rva : Nat,
            expected_site_bytes : Seq(Byte), site_signature : Pattern]

(* What a key of a file may have: nothing, what does not parse, or a value of its type; *)
(* neither parse_hex_bytes nor parse_signature accepts the empty sequence.              *)
OrNot(values) == values \cup {Absent, Garbled}

File == [executable_size : OrNot(Nat), site_rva : OrNot(Nat), helper_rva : OrNot(Nat),
         expected_site_bytes : OrNot(Seq(Byte) \ {<<>>}), site_signature : OrNot(Pattern \ {<<>>})]

ASSUME SiteProfileAssumption ==
  /\ Byte \subseteq Nat /\ Opcode \in Byte /\ Mapped \subseteq Nat \ {0}
  /\ Spans \in Seq([start : Nat, len : Nat])
  /\ \A i \in DOMAIN Spans :
       Spans[i].start .. Spans[i].start + Spans[i].len - 1 \subseteq Mapped
  /\ Images \subseteq [Mapped -> Byte] /\ Sizes \subseteq Nat \ {0}
  /\ Files \subseteq File
  /\ builtin \in Profile /\ builtin.site_signature # <<>>
  /\ Absent # Garbled /\ Wild \notin Byte

VARIABLES
  image,     \* the running BDS
  size,      \* of its file; main_image_size(), which is taken to succeed
  file,      \* the profile file
  profile,   \* what load_profile made of it, before or after resolve_site
  verdict    \* how far xf_self_check has come, and what it says

vars == <<image, size, file, profile, verdict>>

-----------------------------------------------------------------------------
(* load_profile *)

GivenUnparsed(f, key) ==       \* a mutant: takes what did not parse
  IF f[key] = Absent THEN builtin[key] ELSE f[key]

Given(f, key) == IF f[key] \in {Absent, Garbled} THEN builtin[key] ELSE f[key]

MergedPlainly(f) == [key \in DOMAIN builtin |-> Given(f, key)]
                       \* a mutant: without the clearing of the other half

(* A number that does not parse is passed over, but its key is there.  A file with   *)
(* one way to the site clears the other one that it would inherit.                   *)
Merged(f) ==
  LET hasSite      == f.site_rva # Absent
      hasSignature == f.site_signature # Absent
  IN  [key \in DOMAIN builtin |->
         IF key = "site_signature" /\ hasSite /\ ~hasSignature THEN <<>>
         ELSE IF key \in {"site_rva", "helper_rva"} /\ hasSignature /\ ~hasSite THEN 0
         ELSE Given(f, key)]

NamesASite(p) ==
  p.site_signature # <<>> \/ (p.site_rva # 0 /\ p.expected_site_bytes # <<>>)

Loads(f) ==
  /\ f.expected_site_bytes # Garbled /\ f.site_signature # Garbled
  /\ NamesASite(Merged(f))

-----------------------------------------------------------------------------
(* The signature scan of an image: how many places match (two stand for more), and   *)
(* the first.                                                                        *)

MatchesAt(im, pattern, a) ==
  \A i \in DOMAIN pattern : pattern[i] # Wild => im[a + i - 1] = pattern[i]

NoMatch == [count |-> 0, first |-> 0]

Counted(found, a) == [count |-> found.count + 1,
                      first |-> IF found.count = 0 THEN a ELSE found.first]

ScanToFirst(im, span, pattern, before) ==   \* a mutant: content with the first match
  LET hits == {a \in span.start .. span.start + span.len - Len(pattern) :
                 MatchesAt(im, pattern, a)}
  IN  IF before.count > 0 \/ hits = {} THEN before
      ELSE Counted(before, CHOOSE a \in hits : \A b \in hits : a <= b)

Scan(im, span, pattern, before) ==
  LET last == span.start + span.len - Len(pattern)
      found[a \in span.start - 1 .. last] ==
        IF a < span.start THEN before
        ELSE IF found[a - 1].count < 2 /\ MatchesAt(im, pattern, a)
               THEN Counted(found[a - 1], a)
        ELSE found[a - 1]
  IN  IF last < span.start THEN before ELSE found[last]

ScanAll(im, pattern) ==
  LET found[n \in 0 .. Len(Spans)] ==
        IF n = 0 THEN NoMatch ELSE Scan(im, Spans[n], pattern, found[n - 1])
  IN  found[Len(Spans)]

-----------------------------------------------------------------------------
(* resolve_site *)

Callee(a) == a + 2 + image[a + 1]

Refused == [is |-> "refused"]

BySignatureFromOldSite(p) ==     \* a mutant: the helper is derived before site_rva is set
  LET found == ScanAll(image, p.site_signature)
  IN  IF found.count # 1 \/ p.site_signature[1] # Opcode THEN Refused
      ELSE IF found.first + 1 \notin Mapped THEN [is |-> "crashed"]
      ELSE [is |-> "located", site |-> found.first,
            helper |-> p.site_rva + 2 + image[found.first + 1]]

(* The displacement is read behind the opcode, mapped or not. *)
BySignature(p) ==
  LET found == ScanAll(image, p.site_signature)
  IN  IF found.count # 1 \/ p.site_signature[1] # Opcode THEN Refused
      ELSE IF found.first + 1 \notin Mapped THEN [is |-> "crashed"]
      ELSE [is |-> "located", site |-> found.first, helper |-> Callee(found.first)]

SizeFits(p) == p.executable_size # 0 => size = p.executable_size

BytesFit(p, a) ==
  \A i \in DOMAIN p.expected_site_bytes : image[a + i - 1] = p.expected_site_bytes[i]

Readable(p, a) == \A i \in DOMAIN p.expected_site_bytes : a + i - 1 \in Mapped

ByAddressUnsized(p) ==         \* a mutant: the size is not compared
  IF ~Readable(p, p.site_rva) THEN [is |-> "crashed"]
  ELSE IF ~BytesFit(p, p.site_rva) \/ p.helper_rva = 0 THEN Refused
  ELSE [is |-> "pinned", site |-> p.site_rva, helper |-> p.helper_rva]

(* verify_site reads where the profile says, mapped or not. *)
ByAddress(p) ==
  IF ~SizeFits(p) THEN Refused
  ELSE IF ~Readable(p, p.site_rva) THEN [is |-> "crashed"]
  ELSE IF ~BytesFit(p, p.site_rva) \/ p.helper_rva = 0 THEN Refused
  ELSE [is |-> "pinned", site |-> p.site_rva, helper |-> p.helper_rva]

Resolve(p) == IF p.site_signature = <<>> THEN ByAddress(p) ELSE BySignature(p)

-----------------------------------------------------------------------------
(* xuidforward-verify: what it prints at the end for an executable and a profile. *)

Locates(p) ==
  LET found == ScanAll(image, p.site_signature)
  IN  found.count = 1 /\ found.first + 1 \in Mapped

AdoptsSite(p) ==
  LET found == ScanAll(image, p.site_signature)
  IN  IF p.site_signature = <<>> \/ ~Locates(p) THEN p
      ELSE [p EXCEPT !.site_rva = found.first, !.helper_rva = Callee(found.first)]

ToolTrustsHelper(p) ==         \* a mutant: the target of the call is not compared
  LET q == AdoptsSite(p)
  IN  /\ p.site_signature # <<>> => Locates(p)
      /\ SizeFits(p)
      /\ q.site_rva \in Mapped /\ Readable(q, q.site_rva) /\ BytesFit(q, q.site_rva)

ToolSaysValid(p) ==
  LET q == AdoptsSite(p)
  IN  /\ p.site_signature # <<>> => Locates(p)
      /\ SizeFits(p)
      /\ q.site_rva \in Mapped /\ q.site_rva + 1 \in Mapped
      /\ Readable(q, q.site_rva) /\ BytesFit(q, q.site_rva)
      /\ q.helper_rva = Callee(q.site_rva)

-----------------------------------------------------------------------------
Unchecked == [is |-> "unchecked"]

Init ==
  /\ image \in Images /\ size \in Sizes /\ file \in Files
  /\ profile = builtin /\ verdict = Unchecked

LoadProfile ==
  /\ verdict = Unchecked
  /\ \/ /\ Loads(file)
        /\ profile' = Merged(file) /\ verdict' = [is |-> "loaded"]
     \/ /\ ~Loads(file)
        /\ verdict' = Refused /\ UNCHANGED profile
  /\ UNCHANGED <<image, size, file>>

ResolveSite ==
  /\ verdict.is = "loaded"
  /\ verdict' = Resolve(profile)
  /\ UNCHANGED <<image, size, file, profile>>

Next == LoadProfile \/ ResolveSite

Spec == Init /\ [][Next]_vars

-----------------------------------------------------------------------------
Accepted == verdict.is \in {"located", "pinned"}

(* What load_profile and resolve_site hand on has the shape that the next step takes   *)
(* for granted: no value that did not parse, and a site and a helper when accepted.    *)
TypeOK ==
  /\ image \in [Mapped -> Byte] /\ size \in Nat \ {0} /\ file \in Files
  /\ profile \in Profile
  /\ verdict.is \in {"unchecked", "loaded", "refused", "crashed", "located", "pinned"}
  /\ Accepted => verdict.site \in Mapped /\ verdict.helper \in Nat \ {0}

(* Every place in the executable segments that looks like the site. *)
Places(pattern) ==
  {a \in Mapped :
     /\ \E n \in DOMAIN Spans : /\ Spans[n].start <= a
                                /\ a + Len(pattern) <= Spans[n].start + Spans[n].len
     /\ MatchesAt(image, pattern, a)}

(* "It must match in exactly one place or the plugin refuses to patch" (profile.h:40): *)
(* across all executable segments, and with no third possibility, unless the signature *)
(* is of the opcode alone and its call ends beyond what is mapped.                     *)
LocatedIsUnique ==
  verdict.is # "unchecked" /\ verdict.is # "loaded" /\ Loads(file) /\ profile.site_signature # <<>>
    => /\ verdict.is \in {"located", "refused"} \/ Len(profile.site_signature) = 1
       /\ verdict.is = "located" => Places(profile.site_signature) = {verdict.site}

(* The relay of a site located by its signature calls what BDS calls there             *)
(* (hook.h:9-10), whatever the file or the built-in profile carry: the scan stops at a *)
(* call, the helper is that call's own, and neither is taken from the site_rva or the  *)
(* helper_rva of another build ("derive it rather than trusting a stored helper_rva    *)
(* that a rebuild would have moved", profile.cpp:210-211).  The comments of profile.h  *)
(* (:34, :55-56) have the helper derived only when helper_rva is 0; the code always    *)
(* derives it, and this property is about the code.                                    *)
LocatedReissues ==
  verdict.is = "located" => /\ image[verdict.site] = Opcode
                            /\ verdict.helper = Callee(verdict.site)

(* A site taken by its address is taken only in the build that the profile was made    *)
(* for: its size and its bytes are there, and the file asked for it by name.           *)
PinnedIsExact ==
  verdict.is = "pinned" =>
    /\ file.site_rva # Absent /\ file.site_signature = Absent
    /\ SizeFits(profile)
    /\ BytesFit(profile, verdict.site)

(* What the tool calls valid the plugin patches, at the same place and with the same   *)
(* function to call; only a signature that does not say where the call is differs.     *)
ValidIsAccepted ==
  verdict.is \notin {"unchecked", "loaded"} /\ Loads(file) /\ ToolSaysValid(profile) =>
    \/ /\ Accepted /\ verdict.site = AdoptsSite(profile).site_rva
       /\ verdict.helper = Callee(verdict.site)
    \/ profile.site_signature # <<>> /\ profile.site_signature[1] # Opcode

(* "re-issue the original call, so the login result is built exactly as before"        *)
(* (hook.h:10).                                                                        *)
AcceptedReissues == Accepted => verdict.helper = Callee(verdict.site)

=============================================================================
