---------------------------- MODULE MCTextTransfer ----------------------------
(***************************************************************************)
(* Characters of one, two and three bytes, and line ends.                  *)
(***************************************************************************)
EXTENDS TextTransferInv

AllChars == {"cr", "lf", "a", "two", "three"}
UnixChars == AllChars \ {"cr"}

Utf8Width == [c \in Chars |-> CASE c = "two" -> 2 [] c = "three" -> 3 [] OTHER -> 1]
=============================================================================
