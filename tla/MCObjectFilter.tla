--------------------------- MODULE MCObjectFilter ----------------------------
(***************************************************************************)
(* ObjectFilter for TLC: package types of up to four characters drawn    *)
(* from a plain letter, the quote and the backslash, the two characters   *)
(* JSON gives a meaning inside a string.                                   *)
(***************************************************************************)
EXTENDS ObjectFilter

MCChars == {"A", "\"", "\\"}
MCMaxTypeLen == 4
=============================================================================
