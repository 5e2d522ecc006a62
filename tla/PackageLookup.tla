---------------------------- MODULE PackageLookup ----------------------------
(***************************************************************************)
(* What the package lookups of SoftLayer_Product_Package promise (spec     *)
(* 4.1, 4.2): against the remote catalog as it is when the call is served, *)
(*   - GetPackagesByType(t) returns the packages of type t whose name and  *)
(*     description do not contain "OUTLET", in the server's order;         *)
(*   - GetOnePackageByType(t) returns the first of them, and "no packages  *)
(*     available" only when there is none;                                 *)
(*   - GetItemsByType(t) returns the items of that first package;          *)
(* or an error of one of the failure classes with a zero value, never a    *)
(* partial result.  Other clients may change the catalog at any time.      *)
(* GetItemsByType makes two requests and the catalog may change between    *)
(* them, so it is two steps here too: Begin picks the package, End returns *)
(* its items as they are then.                                             *)
(***************************************************************************)
EXTENDS Integers, SequencesExt

CONSTANTS
    PackageIds,     \* ids of the packages in the remote catalog
    Types,          \* package type key names, strings as sequences of characters
    Texts,          \* names and descriptions a package can have
    OutletTexts,    \* those of Texts containing "OUTLET" (case-sensitive)
    Items           \* product items a package can list

VARIABLES
    catalog,        \* the remote catalog: id -> [type, name, description, items]
    pending,        \* GetItemsByType between its two requests, or NoPending
    ret             \* what the last call returned: op, argument, value, error class

vars == <<catalog, pending, ret>>

PackageRecords == [type : Types, name : Texts, description : Texts, items : SUBSET Items]

\* A package as the masked response carries it (id, name, description, type.keyName).
View(p) == [id |-> p, name |-> catalog[p].name, description |-> catalog[p].description,
            type |-> catalog[p].type]

ZeroPackage == [id |-> 0, name |-> "", description |-> "", type |-> <<>>]

NoPending == [type |-> <<>>, id |-> 0]

\* The failure classes a transport, a status or a body can cause at any call.
CallErrors == {"transport", "http", "decode"}

Promised(t) ==
    LET ids == SetToSortSeq({p \in PackageIds :
                               /\ catalog[p].type = t
                               /\ catalog[p].name \notin OutletTexts
                               /\ catalog[p].description \notin OutletTexts}, <)
    IN [i \in 1..Len(ids) |-> View(ids[i])]

NoReturn == [op |-> "none", arg |-> <<>>, err |-> "none",
             packages |-> <<>>, package |-> ZeroPackage, items |-> {}]

\* Return a value of one of the three result types; the other two stay zero.
Return(op, arg, field, value, err) ==
    ret' = [NoReturn EXCEPT !.op = op, !.arg = arg, !.err = err, ![field] = value]

Init ==
    /\ catalog \in [PackageIds -> PackageRecords]
    /\ pending = NoPending
    /\ ret = NoReturn

ChangeCatalog ==
    /\ \E p \in PackageIds, r \in PackageRecords : catalog' = [catalog EXCEPT ![p] = r]
    /\ UNCHANGED <<pending, ret>>

Lookup(t) ==
    /\ pending = NoPending
    /\ \/ Return("GetPackagesByType", t, "packages", Promised(t), "none")
       \/ \E e \in CallErrors : Return("GetPackagesByType", t, "packages", <<>>, e)
    /\ UNCHANGED <<catalog, pending>>

LookupOne(t) ==
    /\ pending = NoPending
    /\ \/ Promised(t) # <<>> /\ Return("GetOnePackageByType", t, "package", Head(Promised(t)), "none")
       \/ Promised(t) = <<>> /\ Return("GetOnePackageByType", t, "package", ZeroPackage, "notFound")
       \/ \E e \in CallErrors : Return("GetOnePackageByType", t, "package", ZeroPackage, e)
    /\ UNCHANGED <<catalog, pending>>

ItemsBegin(t) ==
    /\ pending = NoPending
    /\ \/ /\ Promised(t) # <<>>
          /\ pending' = [type |-> t, id |-> Head(Promised(t)).id]
          /\ UNCHANGED ret
       \/ /\ Promised(t) = <<>>
          /\ Return("GetItemsByType", t, "items", {}, "notFound")
          /\ UNCHANGED pending
       \/ /\ \E e \in CallErrors : Return("GetItemsByType", t, "items", {}, e)
          /\ UNCHANGED pending
    /\ UNCHANGED catalog

ItemsEnd ==
    /\ pending # NoPending
    /\ \/ Return("GetItemsByType", pending.type, "items", catalog[pending.id].items, "none")
       \/ \E e \in CallErrors : Return("GetItemsByType", pending.type, "items", {}, e)
    /\ pending' = NoPending
    /\ UNCHANGED catalog

Next ==
    \/ ChangeCatalog
    \/ \E t \in Types : Lookup(t) \/ LookupOne(t) \/ ItemsBegin(t)
    \/ ItemsEnd

Spec == Init /\ [][Next]_vars
=============================================================================
