---------------------------- MODULE ProductPackage ----------------------------
(***************************************************************************)
(* The package lookups of softLayer_Product_Package_Service               *)
(* (src/services/softlayer_product_package.go) against a remote catalog   *)
(* that other clients change:                                             *)
(*   GetPackagesByType(t)   one GET of getAllObjects with a type filter,  *)
(*                          decode into []*Package, drop OUTLET packages  *)
(*                          with filterProducts;                          *)
(*   GetOnePackageByType(t) GetPackagesByType, then the first or an error;*)
(*   GetItemsByType(t)      GetOnePackageByType, then a second GET,       *)
(*                          GetItems(id, "").                             *)
(* The two requests of GetItemsByType are two steps (Lookup, Fetch): the  *)
(* catalog can change while the second request is on its way.             *)
(***************************************************************************)
EXTENDS SoftLayerHttp, SequencesExt

CONSTANTS
    PackageIds, Types, Texts, OutletTexts, Items,
    QueryTypes,             \* the type key names callers pass to the lookups
    NullElementsPossible,   \* whether the server may answer a JSON list holding null
    NullBodyPossible        \* whether the server may answer the JSON literal null

ASSUME NullElementsPossible \in BOOLEAN /\ NullBodyPossible \in BOOLEAN

VARIABLES catalog, pending, ret

vars == <<catalog, pending, ret>>

PackageRecords == [type : Types, name : Texts, description : Texts, items : SUBSET Items]

(***************************************************************************)
(* The object mask GetPackagesByType sends.  The server returns only the   *)
(* masked fields; a field left out decodes to "" in the Go struct.         *)
(***************************************************************************)
PackagesMask == {"id", "name", "description", "isActive", "type.keyName"}

\* Package p as a response masked by mask carries it (isActive is not modelled).
MaskedView(p, mask) ==
    [id          |-> IF "id" \in mask THEN p ELSE 0,
     name        |-> IF "name" \in mask THEN catalog[p].name ELSE "",
     description |-> IF "description" \in mask THEN catalog[p].description ELSE "",
     type        |-> IF "type.keyName" \in mask THEN catalog[p].type ELSE <<>>]

ZeroPackage == [id |-> 0, name |-> "", description |-> "", type |-> <<>>]

NoPending == [type |-> <<>>, id |-> 0]

\* A nil *Softlayer_Product_Package in the decoded slice (no package has id -1).
Null == [ZeroPackage EXCEPT !.id = -1]

(***************************************************************************)
(* The object filter sent for type t (ObjectFilter) and the type the       *)
(* server reads back from it: t itself for a type without a quote or a    *)
(* backslash, another string or no well-formed filter at all otherwise.   *)
(***************************************************************************)
Filter == INSTANCE ObjectFilter WITH Chars <- {}, MaxTypeLen <- 0, packageType <- <<>>

FilterRead(t) == Filter!ServerReads(Filter!FilterObject(t))

FilterWellFormed(t) == FilterRead(t).ok /\ FilterRead(t).rest = Filter!Close

(***************************************************************************)
(* The server's answer to getAllObjects with filter                       *)
(* {"type":{"keyName":{"operation":t}}} and the id/name/description/type   *)
(* mask: the packages of the type it reads from the filter, in id order.   *)
(* A "nullElement" body is that list with a null in front; a "null" body  *)
(* decodes to a nil slice.                                                 *)
(***************************************************************************)
ServerList(t) ==
    LET ids == SetToSortSeq({p \in PackageIds : catalog[p].type = FilterRead(t).value}, <)
    IN [i \in 1..Len(ids) |-> MaskedView(ids[i], PackagesMask)]

ListBodies == {"valid", "syntax", "mismatch"}
                \cup (IF NullElementsPossible THEN {"nullElement"} ELSE {})
                \cup (IF NullBodyPossible THEN {"null"} ELSE {})

ItemBodies == {"valid", "syntax", "mismatch"} \cup (IF NullBodyPossible THEN {"null"} ELSE {})

ResponsesWith(bodies) ==
    {NoResponse} \cup [transportErr : {FALSE}, code : StatusCodes, body : bodies]

\* The answers to getAllObjects: a filter that is not well-formed JSON is refused with an error status.
ListResponses(t) ==
    IF FilterWellFormed(t) THEN ResponsesWith(ListBodies)
    ELSE {NoResponse} \cup [transportErr : {FALSE},
                            code : {c \in StatusCodes : IsHttpErrorCode(c)}, body : ListBodies]

\* strings.Contains(s, OUTLET_PACKAGE)
ContainsOutlet(s) == s \in OutletTexts

\* A plausible slip: keeping a package unless BOTH fields carry the marker.
nonOutletBoth(pkg) ==
    ~(ContainsOutlet(pkg.description) /\ ContainsOutlet(pkg.name))

\* The predicate GetPackagesByType passes to filterProducts.
nonOutlet(pkg) ==
    ~ContainsOutlet(pkg.description) /\ ~ContainsOutlet(pkg.name)

(***************************************************************************)
(* filterProducts: range over the slice, append *element when the          *)
(* predicate holds.  The predicate reads element.Description first, so a   *)
(* nil element panics: the result says whether the loop panicked and what  *)
(* it had kept.                                                            *)
(***************************************************************************)
RECURSIVE filterProducts(_)
filterProducts(array) ==
    IF array = <<>> THEN [panicked |-> FALSE, kept |-> <<>>]
    ELSE IF Head(array) = Null THEN [panicked |-> TRUE, kept |-> <<>>]
    ELSE LET rest == filterProducts(Tail(array)) IN
         IF nonOutlet(Head(array)) /\ ~rest.panicked
         THEN [rest EXCEPT !.kept = <<Head(array)>> \o rest.kept]
         ELSE rest

Fail(err, zero) == [value |-> zero, err |-> err]

(***************************************************************************)
(* GetPackagesByType after the transport answered r: transport error, then *)
(* status, then the decode (json's own error, returned unwrapped), then    *)
(* the filter.                                                             *)
(***************************************************************************)
PackagesByType(t, r) ==
    CASE r.transportErr              -> Fail("transport", <<>>)
      [] IsHttpErrorCode(r.code)     -> Fail("http", <<>>)
      [] r.body \in {"syntax", "mismatch"} -> Fail("decode", <<>>)
      [] OTHER ->
           LET decoded == CASE r.body = "nullElement" -> <<Null>> \o ServerList(t)
                                [] r.body = "null"        -> <<>>
                                [] OTHER                  -> ServerList(t)
               kept == filterProducts(decoded)
           IN IF kept.panicked THEN Fail("panic", <<>>)
                                ELSE [value |-> kept.kept, err |-> "none"]

\* GetOnePackageByType: the error of GetPackagesByType, "No packages available", or the first.
OnePackageByType(t, r) ==
    LET all == PackagesByType(t, r) IN
    CASE all.err # "none"  -> Fail(all.err, ZeroPackage)
      [] all.value = <<>>  -> Fail("notFound", ZeroPackage)
      [] OTHER             -> [value |-> Head(all.value), err |-> "none"]

\* GetItems(packageId, "") after the transport answered r: the items the server lists now.
ItemsOf(id, r) ==
    CASE r.transportErr              -> Fail("transport", {})
      [] IsHttpErrorCode(r.code)     -> Fail("http", {})
      [] r.body \in {"syntax", "mismatch"} -> Fail("decode", {})
      [] r.body = "null"             -> [value |-> {}, err |-> "none"]
      [] OTHER                       -> [value |-> catalog[id].items, err |-> "none"]

\* A returned value goes in the field of its Go type; the other two stay zero.
NoReturn == [op |-> "none", arg |-> <<>>, err |-> "none",
             packages |-> <<>>, package |-> ZeroPackage, items |-> {}]

Return(op, arg, field, out) ==
    ret' = [NoReturn EXCEPT !.op = op, !.arg = arg, !.err = out.err, ![field] = out.value]

Init ==
    /\ catalog \in [PackageIds -> PackageRecords]
    /\ pending = NoPending
    /\ ret = NoReturn

\* Another client of the API changes one package.
ChangeCatalog ==
    /\ \E p \in PackageIds, rec \in PackageRecords : catalog' = [catalog EXCEPT ![p] = rec]
    /\ UNCHANGED <<pending, ret>>

GetPackagesByType(t) ==
    /\ pending = NoPending
    /\ \E r \in ListResponses(t) : Return("GetPackagesByType", t, "packages", PackagesByType(t, r))
    /\ UNCHANGED <<catalog, pending>>

GetOnePackageByType(t) ==
    /\ pending = NoPending
    /\ \E r \in ListResponses(t) :
           Return("GetOnePackageByType", t, "package", OnePackageByType(t, r))
    /\ UNCHANGED <<catalog, pending>>

\* A plausible slip: GetItems called without checking GetOnePackageByType's error.
GetItemsByTypeLookupNoErrCheck(t) ==
    /\ pending = NoPending
    /\ \E r \in ListResponses(t) :
         pending' = [type |-> t, id |-> OnePackageByType(t, r).value.id]
    /\ UNCHANGED <<catalog, ret>>

\* GetItemsByType up to its first return: the lookup, and its error if any.
GetItemsByTypeLookup(t) ==
    /\ pending = NoPending
    /\ \E r \in ListResponses(t) :
         LET one == OnePackageByType(t, r) IN
         IF one.err = "none"
         THEN pending' = [type |-> t, id |-> one.value.id] /\ UNCHANGED ret
         ELSE Return("GetItemsByType", t, "items", Fail(one.err, {})) /\ UNCHANGED pending
    /\ UNCHANGED catalog

\* return slpp.GetItems(productPackage.Id, "")
GetItemsByTypeFetch ==
    /\ pending # NoPending
    /\ \E r \in ResponsesWith(ItemBodies) :
           Return("GetItemsByType", pending.type, "items", ItemsOf(pending.id, r))
    /\ pending' = NoPending
    /\ UNCHANGED catalog

Next ==
    \/ ChangeCatalog
    \/ \E t \in QueryTypes :
          \/ GetPackagesByType(t)
          \/ GetOnePackageByType(t)
          \/ GetItemsByTypeLookup(t)
    \/ GetItemsByTypeFetch

Spec == Init /\ [][Next]_vars

-----------------------------------------------------------------------------
ErrorKinds == {"none", "transport", "http", "decode", "notFound", "panic"}

TypeOK ==
    /\ catalog \in [PackageIds -> PackageRecords]
    /\ pending \in {NoPending} \cup [type : QueryTypes, id : PackageIds]
    /\ ret.err \in ErrorKinds
    /\ ret.items \subseteq Items

(***************************************************************************)
(* The lookups implement what spec 4.1/4.2 promise (PackageLookup): the    *)
(* server's type filter and the client's OUTLET filter together give the   *)
(* non-outlet packages of the type in order; GetOnePackageByType takes the *)
(* first and says "none" only when there is none; GetItemsByType returns   *)
(* the items of the package its lookup chose, as they are when the second  *)
(* request is served; every error comes with a zero value.                 *)
(***************************************************************************)
Abstract == INSTANCE PackageLookup
                WITH catalog <- catalog, pending <- pending, ret <- ret

ImplementsPackageLookup == Abstract!Spec

(***************************************************************************)
(* Spec 8: a body the decoder accepts yields a result or a decode error,   *)
(* "not a panic".  The server may send a list holding null.                *)
(***************************************************************************)
NoPanic == ret.err # "panic"

(***************************************************************************)
(* Spec 4.2: GetPackagesByType(t) returns packages "of type t", and        *)
(* GetOnePackageByType(t) one of them.  The client never checks the type   *)
(* of what it decoded: it relies on the filter it pasted together.         *)
(***************************************************************************)
ReturnedPackagesOfType ==
    /\ \A i \in 1..Len(ret.packages) : ret.packages[i].type = ret.arg
    /\ ret.package # ZeroPackage => ret.package.type = ret.arg
=============================================================================
