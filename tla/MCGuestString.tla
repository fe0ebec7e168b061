--------------------------- MODULE MCGuestString ---------------------------
(***************************************************************************)
(* The lengths around every limit of the code, with a last character at    *)
(* and beside the limits of printable ASCII; unused bytes that are zero,   *)
(* that look like the length of the probe, and that are all ones.  The     *)
(* pointer is one of a heap, with odd and even bytes.                      *)
(***************************************************************************)
EXTENDS GuestString

MCFill    == {0, 22, 255}
MCPointer == <<16, 33, 98, 127, 85, 86, 0, 0>>
MCTexts   ==
  {<<>>} \cup {[i \in 1 .. n |-> IF i = n THEN last_ ELSE 97] :
                 n \in {1, 16, 21, 22, 23, 24, 40, 63, 64, 65}, last_ \in {31, 32, 126, 127}}
MCXuids   == {[i \in 1 .. n |-> 49] : n \in {0, 1, 16, 21, 22, 23, 24, 30}}
=============================================================================
