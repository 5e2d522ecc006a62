-------------------------- MODULE MCLocationObject ---------------------------
(***************************************************************************)
(* LocationObject for TLC: two locations, so that a result can belong to   *)
(* the wrong one; two names, so that name and long name can differ.       *)
(***************************************************************************)
EXTENDS LocationObject

MCLocationIds == {1, 2}
MCNames == {"dal05", "Dallas 5"}
\* One success, one status error; the status boundaries are ServiceCall's.
MCStatusCodes == {200, 500}
=============================================================================
