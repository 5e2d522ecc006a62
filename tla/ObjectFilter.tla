----------------------------- MODULE ObjectFilter -----------------------------
(***************************************************************************)
(* The object filter GetPackagesByType sends                               *)
(* (src/services/softlayer_product_package.go):                            *)
(*     `{"type":{"keyName":{"operation":"` + packageType + `"}}}`           *)
(* and how a JSON reader on the server reads it back.  A text is a         *)
(* sequence of one-character strings.  Everything before the type is      *)
(* fixed, so it is one token, Open, standing for the text up to and        *)
(* including the quote that opens the operation's string; the server       *)
(* reads that string and then expects the three closing braces.            *)
(***************************************************************************)
EXTENDS Naturals, SequencesExt

CONSTANTS
    Chars,          \* the characters a package type is made of
    MaxTypeLen      \* the longest package type enumerated

VARIABLE packageType    \* the argument of GetPackagesByType, a string

Quote == "\""
Backslash == "\\"
Open == "{\"type\":{\"keyName\":{\"operation\":\""
Close == <<"}", "}", "}">>

\* A plausible slip in hand-written JSON: the quote closing the type left out.
FilterObjectNoClosingQuote(t) == <<Open>> \o t \o Close

\* filterObject: the fixed text, the type pasted in unescaped, the fixed end.
FilterObject(t) == <<Open>> \o t \o <<Quote>> \o Close

(***************************************************************************)
(* A JSON string literal read from its first character on: up to the      *)
(* first unescaped quote; a backslash takes the next character literally  *)
(* when that is a quote, a backslash or a slash, and is an error          *)
(* otherwise; the text ending first is an error.  The result says whether *)
(* the literal was well formed, its value and the text after it.          *)
(***************************************************************************)
RECURSIVE ReadString(_)
ReadString(s) ==
    LET bad == [ok |-> FALSE, value |-> <<>>, rest |-> <<>>] IN
    CASE s = <<>> -> bad
      [] Head(s) = Quote -> [ok |-> TRUE, value |-> <<>>, rest |-> Tail(s)]
      [] Head(s) = Backslash ->
           IF Len(s) >= 2 /\ s[2] \in {Quote, Backslash, "/"}
           THEN LET r == ReadString(Tail(Tail(s))) IN [r EXCEPT !.value = <<s[2]>> \o @]
           ELSE bad
      [] OTHER -> LET r == ReadString(Tail(s)) IN [r EXCEPT !.value = <<Head(s)>> \o @]

\* The server reads the filter: the fixed start, the operation's string, the rest.
ServerReads(text) == ReadString(Tail(text))

Init == packageType \in BoundedSeq(Chars, MaxTypeLen)

\* The type is an input: nothing changes it.
Next == UNCHANGED packageType

Spec == Init /\ [][Next]_packageType

(***************************************************************************)
(* What the pasted filter does guarantee: the server reads back exactly    *)
(* the type asked for, and the end of the object, if and only if the type *)
(* holds neither a quote nor a backslash.  Every other type is read as a   *)
(* malformed filter or as a filter on another string.                      *)
(***************************************************************************)
FilterExactIffPlain ==
    LET r == ServerReads(FilterObject(packageType)) IN
    (r.ok /\ r.value = packageType /\ r.rest = Close)
        <=> \A i \in 1..Len(packageType) : packageType[i] \notin {Quote, Backslash}
=============================================================================
