--------------------------- MODULE MCProductPackage ---------------------------
(***************************************************************************)
(* ProductPackage for TLC: two packages, so that order, "first" and one   *)
(* package being an outlet while the other is not all happen; two types,  *)
(* so that the server filter matters; a name or description with the      *)
(* marker and one without; one item, so that the item set of a package    *)
(* can change between the two requests of GetItemsByType.                 *)
(***************************************************************************)
EXTENDS ProductPackage

MCPackageIds == {1, 2}
\* Two type key names, spelled out as strings of characters.
MCTypes == {<<"C", "P", "U">>, <<"C", "O", "R", "E">>}

\* Package types for the filter injection: one plain, one the backslash;
\* callers ask for the type spelled with two backslashes.
MCInjectionTypes == {<<"C">>, <<"\\">>}
MCInjectionQueryTypes == {<<"\\", "\\">>}
MCTexts == {"Dual Xeon", "OUTLET Dual Xeon"}
MCOutletTexts == {"OUTLET Dual Xeon"}
MCItems == {"ram_8gb"}
\* One success, one status error; the status boundaries are ServiceCall's.
MCStatusCodes == {200, 500}
=============================================================================
