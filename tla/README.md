# TLA+ models of softlayer-go

A verification development for the SoftLayer SDK in `src/`: what the code does on every
answer the remote API and the transport can give, checked with TLC.

## 1. Inventory

### Components

| Component | Source | State | Operations |
|---|---|---|---|
| `SoftLayer_Location` service | `services/softlayer_location.go`, `softlayer/softlayer_location_service.go` | none (holds the shared client) | GetObject, GetDatacenters, GetLocationStatus, GetAvailableObjectStorageDatacenters, GetPriceGroups, GetRegions |
| `SoftLayer_Location_Group_Regional` service | `services/softlayer_location_group_regional.go` | none | GetAllObjects, GetDatacenters, GetLocations, GetObject, GetPreferredDatacenter, GetLocationGroupType |
| `SoftLayer_Product_Package_Server` service | `services/softlayer_product_package_server.go` | none | GetAllObjects, GetObject |
| `SoftLayer_Product_Package` service | `services/softlayer_product_package.go` | none | GetItemPrices, GetItems (optional filter), GetConfiguration, GetPackagesByType (server type filter + client OUTLET filter), GetOnePackageByType, GetItemsByType (two requests) |
| Data types | `data_types/*.go` | plain structs | none |
| HTTP client, `common.IsHttpErrorCode`, `encoding/json` | not in `src/` | the transport's connection | DoRawHttpRequest[WithObjectMask / WithObjectFilterAndObjectMask] |

### How they interact

A caller calls a service method; the method builds `"{Service}/{id}/{op}.json"` (or without
id), sends one GET through the shared client, and then (1) returns a transport error as it is,
(2) else returns an error naming service, operation and code if the status is 4xx/5xx,
(3) else `json.Unmarshal`s the body and returns the value or the decode error. The services keep
no state between calls. The only state that matters is outside the SDK: the remote catalog,
which other API clients change at any time. The one method with logic of its own is the
package lookup: `GetPackagesByType` sends a type filter, decodes into `[]*Package` and drops
packages whose name or description contains `OUTLET`; `GetOnePackageByType` takes the first;
`GetItemsByType` then sends a second request for that package's items.

### What is hard

No threads, locks or callbacks exist in `src/`, so there is no interleaving inside the SDK.
What a unit test reaches badly is the space of answers: every status on both sides of the
4xx/5xx boundary crossed with every kind of body (valid, `null`, not JSON, JSON of the wrong
shape), the failure of one of GetItemsByType's two requests, the catalog changing between
them, and bodies no fixture holds (a list containing `null`). PROJECT.json lists these hazards
at their lines.

### What makes each component correct

* Every method: the failure class follows the answer in the order transport, status, decode;
  a status error names the resource and the request's operation or the SDK method called; every error comes with a zero
  value (spec 4.1, 7).
* Package lookup: the result is exactly the non-outlet packages of the type in server order;
  "No packages available" only when there is none; the items of GetItemsByType are those of
  the package its lookup chose; no body makes it panic (spec 4.2, 8).

## 2. Modules

| Module | Models | State | Actions |
|---|---|---|---|
| `SoftLayerHttp` | transport answers, IsHttpErrorCode (from the spec: 4xx/5xx), json.Unmarshal (full / zero / partial value, error) | – | – |
| `ServiceCall` | the 17 plain methods, and the request half of GetPackagesByType, as rows of a table (service, operation, id in path, mask, the filters arguments it can send, what is returned with a decode error, operation the status message names; `name` is the SDK method spelled as the API spells an operation) | `last`: method, request, response, value, error | `Call(m)`: the whole method for one transport answer |
| `PackageLookup` | abstract: what the package lookups promise | `catalog`, `pending`, `ret` | ChangeCatalog, Lookup, LookupOne, ItemsBegin, ItemsEnd |
| `ProductPackage` | GetPackagesByType (its object mask, server type filter, decode, OUTLET filter), GetOnePackageByType, GetItemsByType against a changing catalog; `filterProducts` as a RECURSIVE operator (its nil-element panic is the `NoPanic` finding) | `catalog` (remote), `pending` (GetItemsByType between its requests), `ret` | ChangeCatalog, GetPackagesByType(t), GetOnePackageByType(t), GetItemsByTypeLookup(t), GetItemsByTypeFetch |
| `ObjectFilter` | the type filter GetPackagesByType pastes together (`{"type":{"keyName":{"operation":"` + type + `"}}}`) as a sequence of characters, and `ReadString`, a JSON reader of the string in it (RECURSIVE) | `packageType`: the argument | none (the type is an input) |
| `LocationObject` | SoftLayer_Location GetObject field by field: its mask, the server's masked JSON object, json.Unmarshal into `data_types.SoftLayer_Location` | `locations` (server), `last` | GetObject(id) |
| `MCServiceCall`, `MCProductPackage`, `MCLocationObject`, `MCObjectFilter` | constants for TLC | | |

In ServiceCall each method is one named row (`Location_GetObject`, `Regional_GetLocations`,
...), translating that method's function; `LocationMethods`, `RegionalMethods` and
`PackageServerMethods` are the method sets of the interfaces in `softlayer/`, and
`LocationName` etc. the services' GetName().

`ProductPackage` instantiates `ObjectFilter` to build the filter for the type a caller
asks for. The server in ProductPackage selects the packages whose type is the string it
reads from that filter, and refuses a filter that is not well-formed JSON with an error
status. Package types are therefore strings of characters (`<<"C","P","U">>`).

`ProductPackage` instantiates `PackageLookup` with the identity refinement mapping (the
variables mean the same thing in both) and checks `ImplementsPackageLookup == Abstract!Spec`.
GetItemsByType is two steps because it makes two remote requests and the catalog is changed
by other clients in between; every other method is one step, since it runs synchronously with
one request and nothing else the model tracks can change while it runs.

The server's answer under an object mask carries only the masked fields (`MaskedView`,
`Sent`); json.Unmarshal fills the struct fields whose tag is a key of the object and leaves
the rest zero (`DecodeLocation`). So the OUTLET filter, which reads Name and Description, is
only right because GetPackagesByType's mask names both, and GetObject only returns a whole
location because its mask names every field of `SoftLayer_Location`.

Data is abstracted: in ServiceCall a decoded value is `full`, `zero` or `partial`; a package
is its id, name, description and type; `strings.Contains(s, "OUTLET")` is membership in
`OutletTexts`.

## 3. Runs

| Run | Checks | Result |
|---|---|---|
| `service_contract` (ServiceCall.cfg) | ContractOutcome, HttpErrorNamesRequest | pass, 821 states |
| `service_partial_result` (ServiceCall_partial.cfg) | NoPartialResultOnError | violation: Location.GetDatacenters returns the half-decoded slice with the error |
| `service_decode_message` (ServiceCall_decodemsg.cfg) | DecodeErrorNamesOperation | violation: no decode error names its operation |
| `package_lookup` (ProductPackage.cfg) | TypeOK, ImplementsPackageLookup | pass, 49 920 states, about 45 s |
| `package_lookup_null_element` (ProductPackage_null.cfg) | NoPanic | violation: `[null, ...]` panics GetPackagesByType |
| `package_lookup_filter_injection` (ProductPackage_injection.cfg) | ReturnedPackagesOfType | violation: GetPackagesByType of the type spelled `\\` returns the packages of type `\` |
| `object_filter_exact` (ObjectFilter_plain.cfg) | FilterExactIffPlain | pass, 121 types: the filter is exact if and only if the type holds neither a quote nor a backslash |
| `location_object` (LocationObject.cfg) | GetObjectReturnsLocation | pass, 176 states (a `null` answer among them) |

Each passing property has a mutant in PROJECT.json (a plausible slip in the code: status
checked after decode, a copied error message, the
lookup error not checked, the OUTLET test needing both fields, a
GetObject mask without `longName`, the filter's closing quote left out) under which TLC finds it violated.

A `null` answer is valid JSON and decodes without error to a zero struct or a nil slice;
the methods then return that as a success. The spec asks for "the decoded struct", so this
is not held against the code: `location_object` admits the zero struct for a `null` answer.
The `package_lookup` runs keep `NullBodyPossible = FALSE`, since PackageLookup states the
result against the catalog and a `null` answer says nothing about the catalog.
A status message that names the SDK method (GetPackagesByType's `getPackagesByType`) rather
than the path's `getAllObjects` names an operation in the spec's sense, and
`HttpErrorNamesRequest` accepts either.

### Bounds

* ServiceCall: status codes 200, 304, 399, 400, 401, 499, 500, 501, 599, 600 (both sides of
  each boundary IsHttpErrorCode draws, and the codes the tests use), four body classes, all
  17 methods and GetPackagesByType's request, filter present or absent. The state is one call, so depth 1 covers everything.
* ProductPackage: two packages (order and "first" matter; one can be an outlet and the other
  not), two types (the server filter matters), two texts (with and without the marker), one
  item (a package's item set can change between the two requests), statuses 200 and 500 (the
  boundaries are ServiceCall's). Every catalog is an initial state, and ChangeCatalog can
  change any package at any step.
* ObjectFilter: every type of up to four characters from a letter, the quote and the
  backslash (121 types): the two characters JSON gives a meaning inside a string, alone,
  doubled and mixed.
* The injection run of ProductPackage: packages of type `C` or `\`; the caller asks for
  `\\`, the smallest type the server reads as a different, well-formed filter.
* LocationObject: two locations and two names (a result can belong to the wrong location,
  and name and long name can differ).

### Fairness

No property is a liveness property and no run assumes fairness. Every method is
straight-line code that makes its requests and returns; GetItemsByType's second request
follows the first with nothing to wait on, so "it returns" would follow from any fairness
assumed for that step rather than from the code. Deadlock is
checked in every run and cannot occur (a call or a catalog change is always enabled).

## 4. Not modelled

* The transport (connection handling, authentication, timeouts): outside `src/`; represented
  only by the answers it can return.
* What the remote API does with a malformed object filter beyond refusing it: the model
  assumes an error status. Filters that use JSON characters other than the quote and the
  backslash (a type that closes the string and adds keys) are not enumerated. The quote and
  the backslash already show that the filter can select another type.
* Concurrent callers: a service struct holds only the shared client and no field is written
  after construction, so calls from several goroutines share nothing the SDK keeps. One caller
  whose calls interleave with other clients' catalog changes covers it.
* The structs other than SoftLayer_Location, field by field
  (`SoftLayer_Location_Status`, `_Group`, `_Region`, `_Group_Type`, `_Group_Regional`,
  `SoftLayer_Product_Package_Server`). No other method sends a mask, so the server returns
  the object's fields and json.Unmarshal fills the fields whose tag it finds. Whether the
  tags match the server's key names cannot be checked from the repository: the server's
  schema is not in it. `omitempty` only affects encoding, which the SDK never does.
  ServiceCall abstracts these values to full/zero/partial.
* The constructors: they store the client and nothing else.

## 5. Plan

Done: the shared request contract of all 17 plain methods, one row per method, and of
GetPackagesByType's request (ServiceCall); the package lookups with their refinement of
PackageLookup, the mask they depend on; GetObject field by field, `null` answer included; the object filter as
text, composed with the lookups.

What is left cannot be modelled faithfully from this repository (section 4): the item
structs of GetItems and GetItemPrices and the server's key names are not under `src/`,
and the transport is outside it. Everything in `src/` that changes what a caller gets is an
action or an operator of a module.
