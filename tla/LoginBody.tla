------------------------------ MODULE LoginBody ------------------------------
(***************************************************************************)
(* Reading a Login packet body: parse_login_body of                        *)
(* python_plugin/endstone_xuidforward/login_body.py, beside the relay that *)
(* encoded it.  A body is its bytes.  Bytes matter here because the parser *)
(* does not know how the blobs are framed: it tries one layout, then the   *)
(* other, then looks for a JSON object, and a byte of a length may look    *)
(* like a byte of JSON.                                                    *)
(*                                                                         *)
(* What json.loads makes of a slice is abstracted: the relay's request, if *)
(* the slice is the whole of it, and an error otherwise.  The claims of a  *)
(* JWT are there once the slice holds it up to the end of its payload.     *)
(***************************************************************************)
EXTENDS Integers, SequencesExt

CONSTANTS
  Sent,    \* what relays send
  Nothing  \* parse_login_body returns None, or the body is still being read

Open == 123
Close == 125
Quote == 34
Backslash == 92
eyJ  == <<101, 121, 74>>                                   \* how a JWT begins
Ends == {Quote, 32, 13, 10, 9, 44, Close, Backslash, 41}   \* " \r\n\t,}\\)

Framings == {"le", "varuint32", "scan"}

Byte == 0 .. 255
Layouts == {"le", "varuint32", "big", "bare", "unversioned"}

VARIABLES
  sent,    \* what the relay encoded
  body,    \* the bytes that arrived
  trying,  \* how the body is being read
  parsed   \* what parse_login_body returns

vars == <<sent, body, trying, parsed>>

-----------------------------------------------------------------------------
(* The relay.  {"\"}"{}"eyJ...":} stands for the request JSON: an escaped quote and a    *)
(* brace inside a string, an object inside the object, a token.                          *)

Filler(n) == [i \in 1 .. n |-> 97]

RequestText(s) ==
  LET front == <<Open, Quote, Backslash, Quote, Close, Quote, Open, Close, Quote>> \o eyJ
  IN front \o Filler(s.request - Len(front) - 2) \o <<Quote, Close>>

ClientText(s) == eyJ \o Filler(s.client - Len(eyJ))

Varuint(n) ==
  LET digit(k) == (n \div k) % 128
  IN  IF n < 128 THEN <<n>>
      ELSE IF n < 16384 THEN <<128 + digit(1), digit(128)>>
      ELSE IF n < 2097152 THEN <<128 + digit(1), 128 + digit(128), digit(16384)>>
      ELSE <<128 + digit(1), 128 + digit(128), 128 + digit(16384), digit(2097152)>>

LittleEndian(n) ==
  <<n % 256, (n \div 256) % 256, (n \div 65536) % 256, (n \div 16777216) % 256>>
BigEndian(n) == [i \in 1 .. 4 |-> LittleEndian(n)[5 - i]]

Prefix(layout, n) ==
  CASE layout = "varuint32" -> Varuint(n)
    [] layout = "big"       -> BigEndian(n)
    [] OTHER                -> LittleEndian(n)

(* The two layouts the parser knows, and what a change of the framing could be: other *)
(* lengths, no length around the blobs, no protocol before them.                      *)
BeforeRequest(s) ==
  LET request == Prefix(s.layout, s.request)
      rest    == s.request + Len(Prefix(s.layout, s.client)) + s.client
  IN (IF s.layout = "unversioned" THEN <<>> ELSE s.protocol)
       \o (IF s.layout = "bare" THEN <<>> ELSE Varuint(Len(request) + rest))
       \o request

BeforeClient(s) == BeforeRequest(s) \o RequestText(s) \o Prefix(s.layout, s.client)

Encoded(s) == BeforeClient(s) \o ClientText(s) \o s.more

(* Bound: in a body of 16 MB the four bytes of a varuint32, taken for an int32, could be   *)
(* a length that fits.  RequestText and ClientText have 14 characters and 3 at least.      *)
MaxBody == 16777216

Login == [layout : Layouts, protocol : [1 .. 4 -> Byte], request : Nat, client : Nat,
          claims : Nat, rawToken : BOOLEAN, more : Seq(Byte)]

ASSUME LoginBodyAssumption ==
  /\ Sent \subseteq Login
  /\ \A s \in Sent : /\ s.request >= 14 /\ s.claims \in 3 .. s.client
                     /\ Len(Encoded(s)) < MaxBody
  /\ Nothing \notin [framing : Framings, request : BOOLEAN, client : {"blob", "raw", "none"}]

(* Bound: where a body may end -- around the ends of its parts, and around 5 bytes.      *)
Boundaries(s) ==
  LET request == Len(BeforeRequest(s))  client == Len(BeforeClient(s))
  IN {5, request, request + s.request, client, client + s.claims, client + s.client,
      Len(Encoded(s))}

Arrivals(s) ==
  {SubSeq(Encoded(s), 1, n) : n \in (UNION {b - 1 .. b + 1 : b \in Boundaries(s)})
                                     \cap 0 .. Len(Encoded(s))}

(* The request and the client data arrived as a whole; the latter's claims did. *)
RequestArrived == Len(body) >= Len(BeforeRequest(sent)) + sent.request
ClientArrived  == Len(body) >= Len(BeforeClient(sent)) + sent.client
ClaimsArrived  == Len(body) >= Len(BeforeClient(sent)) + sent.claims

-----------------------------------------------------------------------------
(* Reading. A position is that of the byte to be read next, from 1; a length that cannot *)
(* be read is 0, which is refused like one.                                              *)

Unread == [length |-> 0, next |-> 0]

Varuint32Flat(b, at) ==       \* a mutant: a length is one byte
  IF at > Len(b) THEN Unread ELSE [length |-> b[at] % 128, next |-> at + 1]

Varuint32(b, at) ==
  LET last == {k \in at .. at + 5 : k <= Len(b) /\ b[k] < 128}
      digit(k) == IF at + k > Min(last) THEN 0 ELSE b[at + k] % 128
  IN IF last = {} THEN Unread
     ELSE [length |-> digit(0) + 128 * (digit(1) + 128 * (digit(2)
                        + 128 * (digit(3) + 128 * (digit(4) + 128 * digit(5))))),
           next |-> Min(last) + 1]

Int32Le(b, at) ==
  IF at + 3 > Len(b) THEN Unread
  ELSE [length |-> b[at] + 256 * b[at + 1] + 65536 * b[at + 2]
                     + 16777216 * (IF b[at + 3] < 128 THEN b[at + 3] ELSE b[at + 3] - 256),
        next |-> at + 4]

Length(b, at, inner) == IF inner = "le" THEN Int32Le(b, at) ELSE Varuint32(b, at)

HoldsMore(b, l) == l.length > 0 /\ l.length < Len(b) - l.next + 1   \* a mutant

Holds(b, l) == l.length > 0 /\ l.length <= Len(b) - l.next + 1

(* A blob and where it ends; <<>> if there is none. *)
Blob(b, at, inner) ==
  LET l == Length(b, at, inner)
  IN IF Holds(b, l) THEN [text |-> SubSeq(b, l.next, l.next + l.length - 1),
                          next |-> l.next + l.length]
     ELSE [text |-> <<>>, next |-> Len(b) + 1]

(* The length around the blobs is read and not compared with anything. *)
Request(b, inner) ==
  LET size == Varuint32(b, 5)
  IN IF size.next = 0 THEN [text |-> <<>>, next |-> Len(b) + 1] ELSE Blob(b, size.next, inner)

Accepts(b, inner) == LET r == Request(b, inner).text IN r # <<>> /\ r[1] = Open

-----------------------------------------------------------------------------
(* _json_object_span: the first {...} that balances outside of strings. *)

Start == [depth |-> 0, inString |-> FALSE, escaped |-> FALSE, end |-> 0]

LookInside(s, i, c) ==        \* a mutant: braces count inside strings too
  IF s.end > 0 THEN s
  ELSE IF c = Open THEN [s EXCEPT !.depth = @ + 1]
  ELSE IF c = Close THEN [s EXCEPT !.depth = @ - 1, !.end = IF s.depth = 1 THEN i ELSE 0]
  ELSE s

Look(s, i, c) ==
  IF s.end > 0 THEN s
  ELSE IF s.inString
    THEN [s EXCEPT !.inString = s.escaped \/ c # Quote,
                   !.escaped = ~s.escaped /\ c = Backslash]
  ELSE IF c = Quote THEN [s EXCEPT !.inString = TRUE]
  ELSE IF c = Open THEN [s EXCEPT !.depth = @ + 1]
  ELSE IF c = Close THEN [s EXCEPT !.depth = @ - 1, !.end = IF s.depth = 1 THEN i ELSE 0]
  ELSE s

Begin(b) ==
  LET opens == {i \in 1 .. Len(b) : b[i] = Open} IN IF opens = {} THEN 0 ELSE Min(opens)

(* Other characters change nothing, so only these are looked at. *)
Marks(b) ==
  {i \in Begin(b) .. Len(b) : b[i] \in {Open, Close, Quote, Backslash} \/ b[i - 1] = Backslash}

SpanEnd(b) ==
  LET marks == Marks(b)
      seen[i \in {0} \cup marks] ==
        IF i = 0 THEN Start ELSE Look(seen[Max({k \in {0} \cup marks : k < i})], i, b[i])
  IN IF Begin(b) = 0 THEN 0 ELSE seen[Max(marks)].end

(* The next JWT after the request, up to a character that no JWT has. *)
NextJwt(tail) ==
  LET starts == {k \in 1 .. Len(tail) - 2 : SubSeq(tail, k, k + 2) = eyJ}
      ends   == {k \in Min(starts) .. Len(tail) : tail[k] \in Ends}
  IN IF starts = {} THEN <<>>
     ELSE SubSeq(tail, Min(starts), IF ends = {} THEN Len(tail) ELSE Min(ends) - 1)

-----------------------------------------------------------------------------
(* _identity_from_blobs: where the XUID and the name come from, and the SelfSignedId. *)

FromRequest(blob) == blob = RequestText(sent)

ClientOf(request, client) ==
  IF client # <<>>
    THEN IF IsPrefix(SubSeq(ClientText(sent), 1, sent.claims), client) THEN "blob" ELSE "none"
    ELSE IF FromRequest(request) /\ sent.rawToken THEN "raw" ELSE "none"

Identity(framing, request, client) ==
  [framing |-> framing, request |-> FromRequest(request), client |-> ClientOf(request, client)]

Init ==
  /\ sent \in Sent /\ body \in Arrivals(sent)
  /\ trying = "le" /\ parsed = Nothing

Return(p) == trying' = "done" /\ parsed' = p /\ UNCHANGED <<sent, body>>

TooShort == trying = "le" /\ Len(body) < 6 /\ Return(Nothing)

Accept(inner) ==
  /\ trying = inner /\ Len(body) >= 6 /\ Accepts(body, inner)
  /\ LET request == Request(body, inner) IN
       Return(Identity(inner, request.text, Blob(body, request.next, inner).text))

TryNext(inner, then) ==
  /\ trying = inner /\ Len(body) >= 6 /\ ~Accepts(body, inner)
  /\ trying' = then /\ UNCHANGED <<sent, body, parsed>>

ScanFails == trying = "scan" /\ SpanEnd(body) = 0 /\ Return(Nothing)

Scan ==
  /\ trying = "scan" /\ SpanEnd(body) > 0
  /\ LET end == SpanEnd(body) IN
       Return(Identity("scan", SubSeq(body, Begin(body), end),
                       NextJwt(SubSeq(body, end + 1, Len(body)))))

Done == trying = "done" /\ UNCHANGED vars

Next ==
  \/ TooShort
  \/ Accept("le") \/ Accept("varuint32")
  \/ TryNext("le", "varuint32") \/ TryNext("varuint32", "scan")
  \/ Scan \/ ScanFails
  \/ Done

Spec == Init /\ [][Next]_vars

-----------------------------------------------------------------------------
Known == sent.layout \in {"le", "varuint32"}
Read  == trying = "done" /\ parsed # Nothing

(* In either layout, at any length and wherever the body ends, the XUID and the name  *)
(* are read if and only if the request arrived as a whole, and the framing that is    *)
(* reported is the sender's: "reports which one worked" (login_body.py:23).           *)
RequestIsRead ==
  trying = "done" /\ Known =>
    /\ RequestArrived => Read /\ parsed.request /\ parsed.framing = sent.layout
    /\ ~RequestArrived => ~(Read /\ parsed.request)

(* ... and the SelfSignedId comes from the client data if that arrived, and else from *)
(* the request ("some encoders keep the client data inside", login_body.py:140).      *)
ClientIsRead ==
  trying = "done" /\ Known /\ RequestArrived =>
    parsed.client = IF ClientArrived THEN "blob" ELSE IF sent.rawToken THEN "raw" ELSE "none"

(* Bound: in a longer body a length of four bytes, read backwards, could be one that fits. *)
MaxScanned == 65536

(* In a framing that the parser does not know (login_body.py:190-191) the request is     *)
(* found, in a body below that bound, unless a length or the protocol before it has a    *)
(* byte 123, an opening brace; and after it the client data.                             *)
ScanFindsRequest ==
  trying = "done" /\ Len(Encoded(sent)) < MaxScanned /\ ~Contains(BeforeRequest(sent), Open) =>
    /\ RequestArrived => Read /\ parsed.request
    /\ RequestArrived /\ ClaimsArrived /\ ~Known => parsed.client = "blob"

=============================================================================
