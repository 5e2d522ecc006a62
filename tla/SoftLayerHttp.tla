---------------------------- MODULE SoftLayerHttp ----------------------------
(***************************************************************************)
(* What every service method of softlayer-go relies on and does not       *)
(* implement itself: the transport's answer to one raw request, the       *)
(* common.IsHttpErrorCode test and encoding/json.Unmarshal.  None of this *)
(* is under src/, so it is written from the spec (section 4.1, 6) and     *)
(* from the documented behaviour of encoding/json.                        *)
(***************************************************************************)
EXTENDS Integers

CONSTANT StatusCodes          \* the HTTP status codes the server may send

(***************************************************************************)
(* A response body, abstracted to what json.Unmarshal tells apart:         *)
(*   "valid"    - JSON of the declared result shape;                       *)
(*   "null"     - the JSON literal null;                                   *)
(*   "syntax"   - not JSON at all (empty body, HTML error page, truncated);*)
(*   "mismatch" - JSON whose values do not fit the fields (e.g. a string   *)
(*                where an int is declared).                               *)
(***************************************************************************)
Bodies == {"valid", "null", "syntax", "mismatch"}

(***************************************************************************)
(* One transport answer: (body, status code, error).  When the transport  *)
(* fails, code and body are meaningless and the callers never read them.  *)
(***************************************************************************)
NoResponse == [transportErr |-> TRUE, code |-> 0, body |-> "none"]

Responses ==
    {NoResponse} \cup [transportErr : {FALSE}, code : StatusCodes, body : Bodies]

\* common.IsHttpErrorCode: a client (4xx) or server (5xx) error status.
IsHttpErrorCode(code) == code >= 400 /\ code <= 599

(***************************************************************************)
(* json.Unmarshal(body, &target) into a freshly zeroed target.             *)
(*   value: "full" (every field set), "zero" (target untouched or set to   *)
(*          nil) or "partial" (some fields set before a type error);       *)
(*   err:   whether Unmarshal returned an error.                           *)
(* A syntax error is found by the validity scan before anything is         *)
(* written; a type mismatch is recorded and decoding goes on, so the       *)
(* target is left half filled; null leaves a struct as it is and sets a    *)
(* slice to nil, without an error.                                         *)
(***************************************************************************)
Unmarshal(body) ==
    CASE body = "valid"    -> [value |-> "full",    err |-> FALSE]
      [] body = "null"     -> [value |-> "zero",    err |-> FALSE]
      [] body = "syntax"   -> [value |-> "zero",    err |-> TRUE]
      [] body = "mismatch" -> [value |-> "partial", err |-> TRUE]
=============================================================================
