----------------------------- MODULE GuestString -----------------------------
(***************************************************************************)
(* The std::string objects of BDS that inject_entry reads and fills        *)
(* (plugin/src/abi_string.h): detect, which works out where libc++ keeps   *)
(* length, text and pointer from two strings of its own, and read,         *)
(* is_empty and assign, which act on 24 bytes of somebody else's object.   *)
(*                                                                         *)
(* An object is its bytes and the eight bytes of the member behind it.  A  *)
(* word of eight bytes is a small number, Pointer (the one address that is *)
(* readable) or anything else.  How a library lays a string out is         *)
(* external: it is what the code takes it to be, in either of its two      *)
(* arrangements, or a third in which the discriminator is the highest bit. *)
(***************************************************************************)
EXTENDS Integers, Sequences, FiniteSetsExt

CONSTANTS
  Builds,     \* the layouts that the libc++ may have been built with
  Fill,       \* what unused bytes may hold
  Caps,       \* what the flag byte of a long string may hold, with its low bit set
  Pointer,    \* the eight bytes of the address of a heap buffer
  Texts,      \* what BDS may put into a string
  Xuids,      \* what may have been staged
  Garbled     \* the text of bytes that are no string

Byte    == 0 .. 255
Offset  == 0 .. 23
Object  == 0 .. 31          \* the string and the member behind it
Beyond  == 170              \* what that member's bytes are
Layout  == [flag : Offset, data : Offset, size : {0, 8, 16}, heap : {0, 8, 16}]
Undetected == <<>>          \* valid is false
Small   == <<120, 117, 105, 100, 102, 111, 114, 119, 97, 114, 100>>   \* "xuidforward"
Large   == [i \in 1 .. 40 |-> 122]

(* The layouts there are: the flag in front of the text, or behind it, and there it is *)
(* the lowest bit of its byte or the highest.                                         *)
Libcxx ==
  {[flag |-> 0, data |-> 1, size |-> 8, heap |-> 16, low |-> TRUE],
   [flag |-> 23, data |-> 0, size |-> 8, heap |-> 0, low |-> TRUE],
   [flag |-> 23, data |-> 0, size |-> 8, heap |-> 0, low |-> FALSE]}

(* A length is one byte here, so a text of BDS has no more than 255 characters. *)
ASSUME GuestStringAssumption ==
  /\ Builds \subseteq Libcxx
  /\ Fill \subseteq Byte /\ Caps \subseteq {c \in Byte : c % 2 = 1}
  /\ Pointer \in [1 .. 8 -> Byte] /\ \E i \in 2 .. 8 : Pointer[i] # 0
  /\ Texts \subseteq Seq(Byte) /\ Xuids \subseteq Seq(Byte)
  /\ \A t \in Texts : Len(t) \in Byte

VARIABLES
  build,    \* the library that BDS and the shim are both built with
  layout,   \* what detect made of it
  object,   \* a field of the auth result
  heap,     \* what can be read at Pointer
  text,     \* what the field holds, for the library
  last      \* the last method and what it came to

vars == <<build, layout, object, heap, text, last>>

-----------------------------------------------------------------------------
(* How the library lays out a string. *)

ShortForm(b, t, fill) ==
  [i \in Object |->
     IF i \notin Offset THEN Beyond
     ELSE IF i = b.flag THEN (IF b.low THEN 2 * Len(t) ELSE Len(t))
     ELSE IF i - b.data + 1 \in DOMAIN t THEN t[i - b.data + 1]
     ELSE IF i = b.data + Len(t) THEN 0 ELSE fill]

LongForm(b, t, cap) ==
  [i \in Object |->
     IF i \notin Offset THEN Beyond
     ELSE IF i = b.flag THEN (IF b.low THEN cap ELSE 128)
     ELSE IF i = b.size THEN Len(t)
     ELSE IF i - b.heap \in 0 .. 7 THEN Pointer[i - b.heap + 1] ELSE 0]

(* A buffer that can be read further than the text in it reaches. *)
Buffer(t, fill) == t \o <<0>> \o [i \in 1 .. 70 |-> fill]

-----------------------------------------------------------------------------
At(o, offset, n) == [i \in 1 .. n |-> o[offset + i - 1]]

(* load_u64, of a number below 256; 256 stands for all others. *)
Number(o, offset) == IF At(o, offset + 1, 7) = [i \in 1 .. 7 |-> 0] THEN o[offset] ELSE 256

(* dereference: the slot holds an address from which n bytes can be read. *)
Dereferences(o, offset, h, n) == At(o, offset, 8) = Pointer /\ n <= Len(h)

(* detect: what each of its loops accepts, for the short string s and the long one l. *)
InlineAt(s, flag) == {o \in 0 .. 24 - Len(Small) : o # flag /\ At(s, o, Len(Small)) = Small}

SizeAt(l) == {o \in {0, 8, 16} : Number(l, o) = Len(Large)}

HeapAt(l, h, size) ==
  {o \in {0, 8, 16} \ {size} :
     Dereferences(l, o, h, Len(Large)) /\ SubSeq(h, 1, Len(Large)) = Large}

FlagByParity(s, l) == {f \in Offset : s[f] % 2 = 0 /\ l[f] % 2 = 1}
                           \* a mutant: the length in the flag byte is not compared

FlagAt(s, l) == {f \in Offset : s[f] % 2 = 0 /\ l[f] % 2 = 1 /\ s[f] \div 2 = Len(Small)}

Detected(s, l, h) ==
  LET flags == {f \in FlagAt(s, l) : /\ InlineAt(s, f) # {} /\ SizeAt(l) # {}
                                     /\ HeapAt(l, h, Min(SizeAt(l))) # {}}
  IN  IF flags = {} THEN Undetected
      ELSE [flag |-> Min(flags), data |-> Min(InlineAt(s, Min(flags))),
            size |-> Min(SizeAt(l)), heap |-> Min(HeapAt(l, h, Min(SizeAt(l))))]

-----------------------------------------------------------------------------
(* read; <<>> when it refuses. *)

Unlimited(o) ==           \* a mutant: a long string is read to its end
  LET short == o[layout.flag] \div 2
      long  == Number(o, layout.size)
  IN  IF o[layout.flag] % 2 = 1
        THEN IF Dereferences(o, layout.heap, heap, long) THEN SubSeq(heap, 1, long) ELSE <<>>
        ELSE IF short + layout.data <= 24 THEN At(o, layout.data, short) ELSE <<>>

Bytes(o) ==
  LET short == o[layout.flag] \div 2
      long  == Number(o, layout.size)
  IN  IF o[layout.flag] % 2 = 1
        THEN IF long \in 1 .. 64 /\ Dereferences(o, layout.heap, heap, long)
               THEN SubSeq(heap, 1, long) ELSE <<>>
        ELSE IF short \in 1 .. 24 /\ short + layout.data <= 24
               THEN At(o, layout.data, short) ELSE <<>>

Printable(t) == \A i \in DOMAIN t : t[i] \in 32 .. 126

ReadUnchecked(o) == Bytes(o)    \* a mutant: any character will do

ReadString(o) == IF Printable(Bytes(o)) THEN Bytes(o) ELSE <<>>

(* is_empty *)
EmptyByLength(o) == o[layout.flag] \div 2 = 0     \* a mutant: of a long string, too

IsEmpty(o) == o[layout.flag] = 0

(* assign: what it accepts, and what it makes of the bytes. *)
AssignsAny(o, x) == x # <<>>        \* a mutant: of any length

Assigns(o, x) ==
  /\ o[layout.flag] % 2 = 0
  /\ x # <<>> /\ Len(x) <= 22 /\ layout.data + Len(x) <= 24

AssignedOpen(o, x) ==        \* a mutant: no zero after the text
  [i \in Object |-> IF i = layout.flag THEN (2 * Len(x)) % 256
                    ELSE IF i - layout.data + 1 \in DOMAIN x THEN x[i - layout.data + 1]
                    ELSE o[i]]

Assigned(o, x) ==
  [i \in Object |-> IF i = layout.flag THEN (2 * Len(x)) % 256
                    ELSE IF i = layout.data + Len(x) THEN 0
                    ELSE IF i - layout.data + 1 \in DOMAIN x THEN x[i - layout.data + 1]
                    ELSE o[i]]

-----------------------------------------------------------------------------
Unmade == [i \in Object |-> Beyond]

Idle == [method |-> "none", ok |-> TRUE, value |-> <<>>]

Init ==
  /\ build \in Builds /\ layout = Undetected
  /\ object = Unmade /\ heap = <<>>
  /\ text = Garbled /\ last = Idle

(* xf_install probes strings of its own; if detect fails it installs nothing. *)
Detect ==
  /\ layout = Undetected
  /\ \E fill \in Fill, cap \in Caps :
       layout' = Detected(ShortForm(build, Small, fill), LongForm(build, Large, cap),
                          Buffer(Large, fill))
  /\ UNCHANGED <<build, object, heap, text, last>>

(* BDS makes its auth result: in the short form what fits it, in the long form *)
(* anything, since a long string stays long when it shrinks.                   *)
Make(t, fill, cap) ==
  /\ layout # Undetected /\ object = Unmade
  /\ \/ /\ Len(t) <= 22
        /\ object' = ShortForm(build, t, fill) /\ UNCHANGED heap
     \/ /\ object' = LongForm(build, t, cap) /\ heap' = Buffer(t, fill)
  /\ text' = t /\ last' = Idle
  /\ UNCHANGED <<build, layout>>

(* The profile's offsets lead to something else. *)
Elsewhere(flag, fill) ==
  /\ layout # Undetected /\ object = Unmade
  /\ object' = [i \in Object |-> IF i \notin Offset THEN Beyond
                                 ELSE IF i = layout.flag THEN flag ELSE fill]
  /\ text' = Garbled /\ last' = Idle
  /\ UNCHANGED <<build, layout, heap>>

Read ==
  /\ object # Unmade
  /\ last' = [method |-> "read", ok |-> ReadString(object) # <<>>, value |-> ReadString(object)]
  /\ UNCHANGED <<build, layout, object, heap, text>>

CheckEmpty ==
  /\ object # Unmade
  /\ last' = [method |-> "is_empty", ok |-> IsEmpty(object), value |-> <<>>]
  /\ UNCHANGED <<build, layout, object, heap, text>>

(* inject_entry assigns only to a field that it has just found empty. *)
Assign(x) ==
  /\ last.method = "is_empty" /\ last.ok
  /\ last' = [method |-> "assign", ok |-> Assigns(object, x), value |-> x]
  /\ \/ /\ Assigns(object, x)
        /\ object' = Assigned(object, x) /\ text' = x
     \/ /\ ~Assigns(object, x)
        /\ UNCHANGED <<object, text>>
  /\ UNCHANGED <<build, layout, heap>>

Next ==
  \/ Detect
  \/ \E t \in Texts, fill \in Fill, cap \in Caps : Make(t, fill, cap)
  \/ \E flag \in Byte, fill \in Fill : Elsewhere(flag, fill)
  \/ Read \/ CheckEmpty
  \/ \E x \in Xuids : Assign(x)

Spec == Init /\ [][Next]_vars

-----------------------------------------------------------------------------
(* The bytes stay bytes; what read hands out is at most 64 characters long, and what  *)
(* detect settles on are offsets in a string.                                         *)
TypeOK ==
  /\ build \in Builds /\ layout \in Layout \cup {Undetected}
  /\ object \in [Object -> Byte] /\ heap \in Seq(Byte)
  /\ text \in Texts \cup Xuids \cup {Garbled}
  /\ last.method \in {"none", "read", "is_empty", "assign"} /\ last.ok \in BOOLEAN
  /\ last.method = "read" => Len(last.value) <= 64
  /\ last.ok /\ last.method = "assign" => Len(last.value) <= 22

(* "Returns false if no layout explains both probes" (abi_string.h:139): detect finds *)
(* the layout of the library it runs with, whatever the unused bytes hold, or none.   *)
DetectIsExact ==
  layout # Undetected =>
    build.low /\ layout = [flag |-> build.flag, data |-> build.data,
                           size |-> build.size, heap |-> build.heap]

(* The library's own view of the field. *)
Holds(t) ==
  LET b == build
  IN  IF IF b.low THEN object[b.flag] % 2 = 1 ELSE object[b.flag] >= 128
        THEN /\ Number(object, b.size) = Len(t) /\ At(object, b.heap, 8) = Pointer
             /\ SubSeq(heap, 1, Len(t)) = t
        ELSE /\ object[b.flag] = 2 * Len(t) /\ At(object, b.data, Len(t)) = t
             /\ object[b.data + Len(t)] = 0

(* After assign BDS finds in the field the XUID, all of it, ended by a zero, and not  *)
(* a trace of what was there; after a refused assign it finds what it put there.      *)
FieldHoldsText == text # Garbled => Holds(text)

(* read gives what the library holds, and gives it for every printable text of 1 to   *)
(* 64 characters: a name is never cut, padded or missed because of its form.          *)
ReadIsText ==
  last.method = "read" /\ text # Garbled =>
    /\ last.ok <=> Len(text) \in 1 .. 64 /\ Printable(text)
    /\ last.ok => last.value = text

(* A field that is not blank for the library is never taken to be (abi_string.h:252), *)
(* and in one that is, every XUID of up to 22 characters lands (abi_string.h:20).     *)
BlankIsFilled ==
  /\ last.method = "is_empty" /\ last.ok /\ text # Garbled => text = <<>>
  /\ last.method = "assign" => (last.ok <=> Len(last.value) \in 1 .. 22)

(* No write goes beyond the 24 bytes of the string, whatever was in them. *)
NextMemberUntouched ==
  \A i \in Object \ Offset : object[i] = Beyond

=============================================================================
