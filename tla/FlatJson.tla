------------------------------- MODULE FlatJson -------------------------------
(***************************************************************************)
(* The reader of config.json and profile.json: parse_flat_json             *)
(* (plugin/src/mini_json.h), one turn of its loop per step, on documents   *)
(* that are whole or end early -- a file read while it is being written,   *)
(* or left behind by a server that stopped while it wrote one.             *)
(*                                                                         *)
(* A document is a list of members.  The characters that the reader tells  *)
(* apart are themselves, the others stand for any.                         *)
(***************************************************************************)
EXTENDS Integers, SequencesExt

CONSTANTS
  Documents,  \* lists of members
  Char        \* characters

Quote == "\""
Backslash == "\\"
Colon == ":"
Comma == ","
Newline == "\n"
Opening == {"{", "["}
Closing == {"}", "]"}
Blank == {" ", Newline}

VARIABLES
  doc,     \* what was written
  text,    \* what there is of it
  i,       \* the reader's position, from 1
  values,  \* what it has read: keys to values
  turn,    \* parity of its turns: one that changes nothing else is a step, too
  at       \* "reading", or "done" when parse_flat_json returned

vars == <<doc, text, i, values, turn, at>>

-----------------------------------------------------------------------------
(* The writer.  A member is its key and its value as they stand in the text, the     *)
(* value a string without its quotes, a number or word, or a container.              *)

Written(m) ==
  <<Quote>> \o m.key \o <<Quote, Colon, " ">>
    \o (IF m.kind = "string" THEN <<Quote>> \o m.value \o <<Quote>> ELSE m.value)

Joined(d, n) ==
  LET joined[k \in 0 .. Len(d)] ==
        IF k = 0 THEN <<"{">>
        ELSE joined[k - 1] \o (IF k = 1 THEN <<>> ELSE <<Comma, Newline>>) \o Written(d[k])
  IN joined[n]

Whole(d) == Joined(d, Len(d)) \o <<"}">>

-----------------------------------------------------------------------------
(* The reader's scanning.  Positions past the end stand for npos. *)

None == Len(text) + 1

First(from, S) ==
  LET found == {j \in from .. Len(text) : text[j] \in S} IN IF found = {} THEN None ELSE Min(found)

(* The backslashes of a string that take along the character after them. *)
Escapes(s) ==
  LET escapes[j \in 0 .. Len(s)] ==
        j > 0 /\ s[j] = Backslash /\ j < Len(s) /\ ~escapes[j - 1]
  IN escapes

(* The quote that ends the string that begins at from. *)
StringEnd(from) ==
  LET rest    == SubSeq(text, from, Len(text))
      escapes == Escapes(rest)
      ends    == {j \in DOMAIN rest : rest[j] = Quote /\ ~escapes[j - 1]}
  IN IF ends = {} THEN None ELSE from - 1 + Min(ends)

(* The bracket that closes the container at from; quotes mean nothing to it. *)
Depth(t, from, j) ==
  Cardinality({k \in from .. j : t[k] \in Opening})
    - Cardinality({k \in from .. j : t[k] \in Closing})

ContainerEnd(from) ==
  LET ends == {j \in from .. Len(text) : text[j] \in Closing /\ Depth(text, from, j) = 0}
  IN IF ends = {} THEN None ELSE Min(ends)

ValueStart(colon) ==
  LET starts == {j \in colon + 1 .. Len(text) : text[j] \notin Blank}
  IN IF starts = {} THEN None ELSE Min(starts)

(* Those backslashes go, and n becomes a newline (t and r, likewise, are left out). *)
Unquoted(raw) ==
  LET escapes == Escapes(raw)
      out[j \in 0 .. Len(raw)] ==
        IF j = 0 THEN <<>>
        ELSE IF escapes[j] THEN out[j - 1]
        ELSE Append(out[j - 1], IF raw[j] = "n" /\ escapes[j - 1] THEN Newline ELSE raw[j])
  IN out[Len(raw)]

Trimmed(raw) ==
  LET kept == {j \in DOMAIN raw : raw[j] \notin Blank}
  IN IF kept = {} THEN <<>> ELSE SubSeq(raw, Min(kept), Max(kept))

With(v, key, value) == [k \in DOMAIN v \cup {key} |-> IF k = key THEN value ELSE v[k]]

-----------------------------------------------------------------------------
(* What is written: between quotes, no quote that nothing escapes; a word, or a container *)
(* that ends with its last bracket -- for the reader, if no string in it has one.          *)

IsText(s) ==
  LET quoted == Append(s, Quote)
  IN \A j \in DOMAIN quoted : quoted[j] = Quote => (Escapes(quoted)[j - 1] <=> j <= Len(s))

IsWord(s) == s # <<>> /\ \A j \in DOMAIN s : s[j] \notin Blank \cup Opening \cup Closing \cup {Quote, Comma}

IsContainer(s) ==
  /\ Len(s) >= 2 /\ s[1] \in Opening /\ s[Len(s)] \in Closing /\ Depth(s, 1, Len(s)) = 0
  /\ \A j \in 1 .. Len(s) - 1 : s[j] \in Closing => Depth(s, 1, j) # 0

Member == [key : Seq(Char), kind : {"string", "scalar", "container"}, value : Seq(Char),
           bracketed : BOOLEAN]

IsMember(m) ==
  /\ m \in Member /\ IsText(m.key)
  /\ m.kind = "string" => IsText(m.value)
  /\ m.kind = "scalar" => IsWord(m.value)
  /\ m.kind = "container" /\ ~m.bracketed => IsContainer(m.value)

ASSUME FlatJsonAssumption ==
  /\ {Quote, Colon, Comma, Newline, " ", "{", "}"} \subseteq Char
  /\ Documents \subseteq Seq(Member)
  /\ \A d \in Documents : \A n \in DOMAIN d : IsMember(d[n])

-----------------------------------------------------------------------------
Init ==
  /\ doc \in Documents /\ text \in Prefixes(Whole(doc))
  /\ i = 1 /\ values = <<>> /\ turn = 0 /\ at = "reading"

(* The key that the next turn finds, and where it looks for the value. *)
KeyQuote == First(i, {Quote})
KeyEnd   == StringEnd(KeyQuote + 1)
Key      == Unquoted(SubSeq(text, KeyQuote + 1, KeyEnd - 1))
AfterKey == IF KeyEnd = None THEN i ELSE KeyEnd + 1

ValueOfFirst == IF KeyQuote = None THEN None ELSE ValueStart(First(1, {Colon}))   \* a mutant

Value == IF KeyQuote = None THEN None ELSE ValueStart(First(AfterKey, {Colon}))

KeepFirst(value) ==      \* a mutant: emplace instead of assignment
  values' = IF Key = <<>> \/ Key \in DOMAIN values THEN values ELSE With(values, Key, value)

Keep(value) == values' = IF Key = <<>> THEN values ELSE With(values, Key, value)

GoOn(position) == i' = position /\ turn' = 1 - turn /\ UNCHANGED <<doc, text, at>>

Return ==
  /\ at = "reading" /\ Value = None
  /\ at' = "done" /\ UNCHANGED <<doc, text, i, values, turn>>

(* A value whose closing quote is missing is taken to the end of the text, and the   *)
(* position stays behind the key.                                                    *)
ReadString ==
  /\ at = "reading" /\ Value < None /\ text[Value] = Quote
  /\ LET end == StringEnd(Value + 1) IN
       /\ Keep(Unquoted(SubSeq(text, Value + 1, end - 1)))
       /\ GoOn(IF end = None THEN AfterKey ELSE end + 1)

SkipContainer ==
  /\ at = "reading" /\ Value < None /\ text[Value] \in Opening
  /\ LET end == ContainerEnd(Value) IN GoOn(IF end = None THEN AfterKey ELSE end + 1)
  /\ UNCHANGED values

ReadToComma ==           \* a mutant: only a comma ends a number or word
  /\ at = "reading" /\ Value < None /\ text[Value] \notin Opening \cup {Quote}
  /\ LET end == First(Value, {Comma}) IN
       /\ Keep(Trimmed(SubSeq(text, Value, end - 1)))
       /\ GoOn(IF end = None THEN None ELSE end + 1)

ReadPastEnd ==           \* a mutant: npos is not told from a position
  /\ at = "reading" /\ Value < None /\ text[Value] \notin Opening \cup {Quote}
  /\ LET end == First(Value, {Comma, "}", Newline}) IN
       /\ Keep(Trimmed(SubSeq(text, Value, end - 1)))
       /\ GoOn(end + 1)

ReadScalar ==
  /\ at = "reading" /\ Value < None /\ text[Value] \notin Opening \cup {Quote}
  /\ LET end == First(Value, {Comma, "}", Newline}) IN
       /\ Keep(Trimmed(SubSeq(text, Value, end - 1)))
       /\ GoOn(IF end = None THEN None ELSE end + 1)

Turn == Return \/ ReadString \/ SkipContainer \/ ReadScalar

Done == at = "done" /\ UNCHANGED vars

Next == Turn \/ Done

Spec == Init /\ [][Next]_vars

-----------------------------------------------------------------------------
(* Keys and values are characters, and the position never runs past the text by more *)
(* than one, where find would still be defined.                                      *)
TypeOK ==
  /\ text \in Seq(Char) /\ i \in 1 .. Len(text) + 1
  /\ \A k \in DOMAIN values : k \in Seq(Char) /\ values[k] \in Seq(Char)
  /\ turn \in {0, 1} /\ at \in {"reading", "done"}

(* What the first n members of the document say; of two with one key, the later. *)
Meant(d, n) ==
  LET meant[k \in 0 .. Len(d)] ==
        IF k = 0 THEN <<>>
        ELSE IF d[k].kind = "container" \/ d[k].key = <<>> THEN meant[k - 1]
        ELSE With(meant[k - 1], Unquoted(d[k].key),
                  IF d[k].kind = "string" THEN Unquoted(d[k].value) ELSE d[k].value)
  IN meant[n]

(* No container holds a string with a bracket in it. *)
Plain == \A n \in DOMAIN doc : ~doc[n].bracketed

(* Strings, numbers and words only, and no key with a colon in it. *)
Flat(d) == \A n \in DOMAIN d : d[n].kind # "container" /\ ~Contains(d[n].key, Colon)

(* A whole document is read as it was meant: strings with their escapes, the later of *)
(* two members of one name, and "nested objects/arrays are skipped, not interpreted"  *)
(* (mini_json.h:7) -- as long as no string inside of them holds a bracket.            *)
WholeIsRead == at = "done" /\ text = Whole(doc) /\ Plain => values = Meant(doc, Len(doc))

Arrived == CHOOSE n \in 0 .. Len(doc) :
             /\ n > 0 => Len(Joined(doc, n)) < Len(text)
             /\ n < Len(doc) => Len(Joined(doc, n + 1)) >= Len(text)

(* A reader that returns from a flat document which ends early has what had arrived   *)
(* before, exactly, and at most a part of the value after that: no member is invented *)
(* and none takes another's value -- as long as no key holds a colon.                  *)
CutIsPrefix ==
  at = "done" /\ Flat(doc) =>
    \/ values = Meant(doc, Arrived)
    \/ /\ Arrived < Len(doc)
       /\ LET m == doc[Arrived + 1] IN
            \E p \in Prefixes(m.value) :
              values = With(Meant(doc, Arrived), Unquoted(m.key),
                            IF m.kind = "string" THEN Unquoted(p) ELSE p)

(* The text ends in the value of a string, behind its first quote and before its last. *)
EndsInString ==
  \E n \in DOMAIN doc :
    /\ doc[n].kind = "string"
    /\ Len(Joined(doc, n)) - Len(doc[n].value) - 1 <= Len(text)
    /\ Len(text) < Len(Joined(doc, n))

Advances == i' > i \/ at' = "done"

(* A turn depends on the text and the position only, so one that does not advance is   *)
(* repeated for ever.  There is none in a whole document, nor in a flat one that is    *)
(* cut short, unless the cut is in the value of a string.                              *)
EveryTurnAdvances ==
  [][(text = Whole(doc) /\ Plain) \/ (Flat(doc) /\ ~EndsInString) => Advances]_vars

=============================================================================
