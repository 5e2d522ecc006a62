---------------------------- MODULE LocationObject ----------------------------
(***************************************************************************)
(* SoftLayer_Location GetObject (src/services/softlayer_location.go) at    *)
(* the level of fields: the object mask it sends, the JSON object the      *)
(* server answers with (only the masked fields of the stored location),   *)
(* and json.Unmarshal of that object into data_types.SoftLayer_Location,  *)
(* which fills the struct fields whose tag is a key of the object and      *)
(* leaves the others zero.  The locations are server state no call        *)
(* changes.                                                                *)
(***************************************************************************)
EXTENDS SoftLayerHttp

CONSTANTS
    LocationIds,        \* ids of the locations the server holds
    Names,              \* names and long names a location can have
    NullBodyPossible    \* whether the server may answer the JSON literal null

ASSUME NullBodyPossible \in BOOLEAN

VARIABLES
    locations,          \* the server's locations: id -> [longName, name]
    last                \* the last GetObject: argument, returned location, error class

vars == <<locations, last>>

\* The json tags of data_types.SoftLayer_Location.
SoftLayer_Location == {"id", "longName", "name"}

ZeroLocation == [f \in SoftLayer_Location |-> IF f = "id" THEN 0 ELSE ""]

\* A plausible slip: a mask that leaves out a field the struct decodes.
GetObjectMaskNoLongName == {"id", "name"}

\* The object mask GetObject sends.
GetObjectMask == {"id", "longName", "name"}

\* The location the server stores under id, as a JSON object.
Stored(id) == [id |-> id, longName |-> locations[id].longName, name |-> locations[id].name]

\* What the server answers getObject with under mask: only the masked keys.
Sent(id, mask) == [f \in mask \cap DOMAIN Stored(id) |-> Stored(id)[f]]

\* json.Unmarshal(obj, &location) into a fresh SoftLayer_Location.
DecodeLocation(obj) ==
    [f \in SoftLayer_Location |-> IF f \in DOMAIN obj THEN obj[f] ELSE ZeroLocation[f]]

GetObjectBodies == {"valid", "syntax", "mismatch"} \cup (IF NullBodyPossible THEN {"null"} ELSE {})

LocationResponses == {NoResponse} \cup [transportErr : {FALSE}, code : StatusCodes, body : GetObjectBodies]

(***************************************************************************)
(* GetObject after the transport answered r: the transport error; the      *)
(* status error; a decode error with a fresh zero location; else the       *)
(* decoded location.  A null body leaves the fresh location as it is and   *)
(* Unmarshal returns no error.                                             *)
(***************************************************************************)
HandleGetObject(id, r) ==
    CASE r.transportErr          -> [value |-> ZeroLocation, err |-> "transport"]
      [] IsHttpErrorCode(r.code) -> [value |-> ZeroLocation, err |-> "http"]
      [] Unmarshal(r.body).err   -> [value |-> ZeroLocation, err |-> "decode"]
      [] r.body = "null"         -> [value |-> ZeroLocation, err |-> "none"]
      [] OTHER                   -> [value |-> DecodeLocation(Sent(id, GetObjectMask)),
                                     err |-> "none"]

NoCall == [arg |-> 0, value |-> ZeroLocation, err |-> "none"]

Init ==
    /\ locations \in [LocationIds -> [longName : Names, name : Names]]
    /\ last = NoCall

GetObject(locationId) ==
    /\ \E r \in LocationResponses :
           LET out == HandleGetObject(locationId, r)
           IN last' = [arg |-> locationId, value |-> out.value, err |-> out.err]
    /\ UNCHANGED locations

Next == \E id \in LocationIds : GetObject(id)

Spec == Init /\ [][Next]_vars

-----------------------------------------------------------------------------
(***************************************************************************)
(* Spec 4.1: on success GetObject(id) returns "the decoded struct": the    *)
(* location the server holds under id, every field of SoftLayer_Location  *)
(* filled, or, when the server answered null (nothing), the zero struct.  *)
(* It needs the mask to name every field the struct decodes, and the      *)
(* result to be built from the location asked for.                        *)
(***************************************************************************)
GetObjectReturnsLocation ==
    last # NoCall /\ last.err = "none" => last.value \in {Stored(last.arg), ZeroLocation}
=============================================================================
