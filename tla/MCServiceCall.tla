---------------------------- MODULE MCServiceCall ----------------------------
(***************************************************************************)
(* ServiceCall for TLC: status codes on both sides of every boundary      *)
(* IsHttpErrorCode draws (1xx/2xx/3xx against 4xx, 5xx against 6xx), and  *)
(* the ones the tests use (400, 401, 499, 500, 501, 599).                  *)
(***************************************************************************)
EXTENDS ServiceCall

MCStatusCodes == {200, 304, 399, 400, 401, 499, 500, 501, 599, 600}
=============================================================================
