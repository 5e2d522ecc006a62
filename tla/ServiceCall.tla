----------------------------- MODULE ServiceCall -----------------------------
(***************************************************************************)
(* The request/decode round trip that every plain service method of       *)
(* softlayer-go performs (src/services/*.go): build the resource path,    *)
(* send one GET through the shared HTTP client (with an object mask, and  *)
(* for GetItems/GetItemPrices an object filter when one is given), then   *)
(*   1. return the transport error as it is;                              *)
(*   2. else return an error naming resource, operation and status when   *)
(*      common.IsHttpErrorCode(status);                                   *)
(*   3. else json.Unmarshal the body and return the value or the error.   *)
(* The methods differ only in the data their table row records.  A        *)
(* service keeps nothing between calls, so the state is the last call.    *)
(***************************************************************************)
EXTENDS SoftLayerHttp

VARIABLE last   \* the last call: method, request sent, response, returned value and error

vars == <<last>>

(***************************************************************************)
(* A method: its service (GetName()), the SDK method's name spelled as   *)
(* the API spells an operation, the operation in its path, whether       *)
(* the path carries the object id, whether an object mask is sent,        *)
(* the filters arguments it can send ("" for none; a non-empty one       *)
(* switches to the filtered request),                                     *)
(* what value goes back with a decode error ("fresh": a new zero value,   *)
(* "decoded": the variable Unmarshal wrote into) and the operation its    *)
(* HTTP-error message names.                                              *)
(***************************************************************************)
Row(svc, name, op, id, mask, filters, onDecodeErr, msgOp) ==
    [svc |-> svc, name |-> name, op |-> op, id |-> id, mask |-> mask,
     filters |-> filters, onDecodeErr |-> onDecodeErr, msgOp |-> msgOp]

\* GetName() of each service: the resource its paths and messages start with.
LocationName == "SoftLayer_Location"
RegionalName == "SoftLayer_Location_Group_Regional"
PackageServerName == "SoftLayer_Product_Package_Server"
PackageName == "SoftLayer_Product_Package"

Location_GetObject ==
    Row(LocationName, "getObject", "getObject", TRUE, TRUE, {""}, "fresh", "getObject")
Location_GetDatacenters ==
    Row(LocationName, "getDatacenters", "getDatacenters", FALSE, FALSE, {""}, "decoded",
        "getDatacenters")
Location_GetLocationStatus ==
    Row(LocationName, "getLocationStatus", "getLocationStatus", TRUE, FALSE, {""}, "fresh",
        "getLocationStatus")
Location_GetAvailableObjectStorageDatacenters ==
    Row(LocationName, "getAvailableObjectStorageDatacenters", "getObjectStorageDatacenters",
        FALSE, FALSE, {""}, "fresh", "getObjectStorageDatacenters")
Location_GetPriceGroups ==
    Row(LocationName, "getPriceGroups", "getPriceGroups", TRUE, FALSE, {""}, "fresh",
        "getPriceGroups")
Location_GetRegions ==
    Row(LocationName, "getRegions", "getRegions", TRUE, FALSE, {""}, "fresh", "getRegions")

\* The methods of the SoftLayer_Location_Service interface.
LocationMethods ==
    { Location_GetObject, Location_GetDatacenters, Location_GetAvailableObjectStorageDatacenters,
      Location_GetLocationStatus, Location_GetPriceGroups, Location_GetRegions }

Regional_GetAllObjects ==
    Row(RegionalName, "getAllObjects", "getAllObjects", FALSE, FALSE, {""}, "fresh", "getAllObjects")
Regional_GetDatacenters ==
    Row(RegionalName, "getDatacenters", "getDatacenters", TRUE, FALSE, {""}, "fresh",
        "getDatacenters")

\* A plausible slip: GetLocations copied from GetDatacenters with the old message kept.
Regional_GetLocationsCopied ==
    Row(RegionalName, "getLocations", "getLocations", TRUE, FALSE, {""}, "fresh", "getDatacenters")

Regional_GetLocations ==
    Row(RegionalName, "getLocations", "getLocations", TRUE, FALSE, {""}, "fresh", "getLocations")
Regional_GetObject ==
    Row(RegionalName, "getObject", "getObject", TRUE, FALSE, {""}, "fresh", "getObject")
Regional_GetPreferredDatacenter ==
    Row(RegionalName, "getPreferredDatacenter", "getPreferredDatacenter", TRUE, FALSE, {""},
        "fresh", "getPreferredDatacenter")
Regional_GetLocationGroupType ==
    Row(RegionalName, "getLocationGroupType", "getLocationGroupType", TRUE, FALSE, {""},
        "fresh", "getLocationGroupType")

\* The methods of the SoftLayer_Location_Group_Regional_Service interface.
RegionalMethods ==
    { Regional_GetAllObjects, Regional_GetDatacenters, Regional_GetLocations,
      Regional_GetObject, Regional_GetPreferredDatacenter, Regional_GetLocationGroupType }

PackageServer_GetAllObjects ==
    Row(PackageServerName, "getAllObjects", "getAllObjects", FALSE, FALSE, {""}, "fresh",
        "getAllObjects")
PackageServer_GetObject ==
    Row(PackageServerName, "getObject", "getObject", TRUE, FALSE, {""}, "fresh", "getObject")

\* The methods of the SoftLayer_Product_Package_Server_Service interface.
PackageServerMethods == { PackageServer_GetAllObjects, PackageServer_GetObject }

\* GetItemPrices and GetItems: masked, and filtered when the filters argument is non-empty.
ItemMethods ==
  { Row(PackageName, "getItemPrices", "getItemPrices", TRUE, TRUE, {"", "typeFilter"}, "fresh",
        "getItemPrices"),
    Row(PackageName, "getItems", "getItems", TRUE, TRUE, {"", "typeFilter"}, "fresh", "getItems") }

ConfigurationMethod ==
    Row(PackageName, "getConfiguration", "getConfiguration", TRUE, FALSE, {""}, "fresh",
        "getConfiguration")

(***************************************************************************)
(* GetPackagesByType up to its decode: getAllObjects with its mask and     *)
(* always the type filter; a decode error is json's own, with a fresh      *)
(* value; the status message is written for "getPackagesByType".  What it *)
(* does after the decode (the OUTLET filter) is ProductPackage's.          *)
(***************************************************************************)
Package_GetPackagesByType ==
    Row(PackageName, "getPackagesByType", "getAllObjects", FALSE, TRUE, {"typeFilter"}, "fresh",
        "getPackagesByType")

Methods ==
    LocationMethods \cup RegionalMethods \cup PackageServerMethods
      \cup ItemMethods \cup {ConfigurationMethod, Package_GetPackagesByType}

(***************************************************************************)
(* The request: path "{svc}/{id}/{op}.json" or "{svc}/{op}.json", with a   *)
(* mask when the method sends one, with the filter when len(filters) > 0. *)
(***************************************************************************)
Request(m, filters) ==
    [svc |-> m.svc, op |-> m.op, id |-> m.id, mask |-> m.mask, filter |-> filters]

NoError == [kind |-> "none", svc |-> "none", op |-> "none", code |-> 0]

(***************************************************************************)
(* The handler after the transport answers r: the three checks in the     *)
(* order the code makes them.  The transport error is passed through; the *)
(* status error names service, operation and code; the decode error is    *)
(* either json's own error or "failed to decode JSON response, error      *)
(* message ..." and names neither.                                        *)
(***************************************************************************)
\* A plausible slip: the body decoded before the status is looked at.
HandleDecodeFirst(m, r) ==
    LET dec == Unmarshal(r.body) IN
    CASE r.transportErr ->
            [value |-> "zero", err |-> [NoError EXCEPT !.kind = "transport"]]
      [] dec.err ->
            [value |-> "zero", err |-> [NoError EXCEPT !.kind = "decode"]]
      [] IsHttpErrorCode(r.code) ->
            [value |-> "zero",
             err |-> [kind |-> "http", svc |-> m.svc, op |-> m.msgOp, code |-> r.code]]
      [] OTHER ->
            [value |-> dec.value, err |-> NoError]

Handle(m, r) ==
    LET dec == Unmarshal(r.body) IN
    CASE r.transportErr ->
            [value |-> "zero", err |-> [NoError EXCEPT !.kind = "transport"]]
      [] IsHttpErrorCode(r.code) ->
            [value |-> "zero",
             err |-> [kind |-> "http", svc |-> m.svc, op |-> m.msgOp, code |-> r.code]]
      [] dec.err ->
            [value |-> IF m.onDecodeErr = "decoded" THEN dec.value ELSE "zero",
             err |-> [NoError EXCEPT !.kind = "decode"]]
      [] OTHER ->
            [value |-> dec.value, err |-> NoError]

\* Before any call: a placeholder method that no path is built from.
NoMethod == Row("none", "none", "none", FALSE, FALSE, {""}, "fresh", "none")

NoCall == [method |-> NoMethod, req |-> Request(NoMethod, ""), resp |-> NoResponse,
           value |-> "zero", err |-> NoError]

Init == last = NoCall

\* One call of method m, whole: request, the transport's answer, the checks.
Call(m) ==
    \E filters \in m.filters, r \in Responses :
        LET out == Handle(m, r) IN
        last' = [method |-> m, req |-> Request(m, filters), resp |-> r,
                 value |-> out.value, err |-> out.err]

Next == \E m \in Methods : Call(m)

Spec == Init /\ [][Next]_vars

-----------------------------------------------------------------------------
(***************************************************************************)
(* Spec 4.1 and 7: the failure class follows the response, in the order   *)
(* transport error, HTTP status, decode; a status error carries the code   *)
(* it saw; success means a 2xx/other status and a body that decodes.  A    *)
(* status check made after the decode would let an error page that         *)
(* happens to be valid JSON through as a result.                           *)
(***************************************************************************)
ContractOutcome ==
    last # NoCall =>
      LET r == last.resp
          statusErr == ~r.transportErr /\ IsHttpErrorCode(r.code)
          decodeErr == ~r.transportErr /\ ~IsHttpErrorCode(r.code) /\ Unmarshal(r.body).err
      IN /\ (last.err.kind = "transport") <=> r.transportErr
         /\ (last.err.kind = "http") <=> statusErr
         /\ (last.err.kind = "decode") <=> decodeErr
         /\ statusErr => last.err.code = r.code
         /\ last.err.kind = "none" => last.value = Unmarshal(r.body).value

(***************************************************************************)
(* Spec 4.1(b): an HTTP-status error names the resource and an operation  *)
(* of the failed call: the one in the request's path, or the SDK method   *)
(* the caller called (a domain getter such as getPackagesByType, which    *)
(* sends getAllObjects).  Each method spells its message out by hand, so  *)
(* a copied method can name its neighbour's operation.                    *)
(***************************************************************************)
HttpErrorNamesRequest ==
    last.err.kind = "http" =>
        /\ last.err.svc = last.req.svc
        /\ last.err.op \in {last.req.op, last.method.name}

(***************************************************************************)
(* Spec 4.1 and 7: "any of the three failure classes yields a zero-value   *)
(* result plus an error"; "no partial results are ever returned alongside  *)
(* an error".                                                              *)
(***************************************************************************)
NoPartialResultOnError ==
    last.err.kind # "none" => last.value = "zero"

(***************************************************************************)
(* Spec 4.1(c) and 7: a malformed or mismatched body is "surfaced as a     *)
(* decode error naming the operation".                                     *)
(***************************************************************************)
DecodeErrorNamesOperation ==
    last.err.kind = "decode" => last.err.op = last.req.op
=============================================================================
