------------------------------- MODULE Errors -------------------------------
(***************************************************************************)
(* core/errorx and its two edges: the HTTP error middleware and the gRPC   *)
(* error interceptor.  Code builds errors step by step, from new ones,     *)
(* copies (With...) and wrappers; copies share the Params map of their     *)
(* original.  An error is known by its place in errs, in order of          *)
(* creation, so what it wraps is before it.  A Params map holds one key.   *)
(***************************************************************************)
EXTENDS Naturals, Sequences

CONSTANT MaxErrs     \* bound: errors built

VARIABLES
  errs,         \* the errors: kind, type, code, subject, pm, inner, and root, seen (history)
  maps          \* the Params maps: the value of the key

vars == <<errs, maps>>

ErrorType == {"BAD_REQUEST", "NOT_FOUND", "BUSINESS", "UNAUTHORIZED", "FORBIDDEN", "INTERNAL"}

Ids == 1 .. Len(errs)
New == Len(errs) + 1
Typed(e) == errs[e].kind = "typed"
Params(pm) == IF pm = 0 THEN 0 ELSE maps[pm]

\* e and everything it wraps (Unwrap).
Chain == [e \in 0 .. Len(errs) |->
           IF e = 0 THEN {} ELSE {x \in 1 .. e : x = e \/ x \in errs[e].reach}]

Init == errs = <<>> /\ maps = <<>>

-----------------------------------------------------------------------------
\* An error that is not of errorx: a plain one, a gRPC status, a context error,
\* or a wrapper (%w) of i.
Foreign(kind, i) ==
  /\ Len(errs) < MaxErrs
  /\ errs' = Append(errs, [kind |-> kind, type |-> "", code |-> 0, subject |-> "",
                           pm |-> 0, inner |-> i, root |-> 0, seen |-> 0,
                           reach |-> Chain[i]])
  /\ UNCHANGED maps

\* Key-value arguments: none, a key without a value, which is dropped, a pair.
KeyVals == {"none", "trailing", "pair"}

NewError(t, s, kv) ==
  /\ Len(errs) < MaxErrs
  /\ maps' = IF kv = "pair" THEN Append(maps, New) ELSE maps
  /\ errs' = Append(errs, [kind |-> "typed", type |-> t, code |-> 0, subject |-> s,
                           pm |-> IF kv = "pair" THEN Len(maps) + 1 ELSE 0, inner |-> 0,
                           root |-> IF s = "General" THEN New ELSE 0,
                           seen |-> IF kv = "pair" THEN New ELSE 0, reach |-> {}])

\* A shallow copy of e with one field replaced.
Copy(e, n) == Len(errs) < MaxErrs /\ Typed(e) /\ errs' = Append(errs, n)

WithSubject(e, s) == Copy(e, [errs[e] EXCEPT !.subject = s]) /\ UNCHANGED maps
WithCode(e, c) == Copy(e, [errs[e] EXCEPT !.code = c]) /\ UNCHANGED maps
WithInner(e, i) ==
  Copy(e, [errs[e] EXCEPT !.inner = i, !.reach = Chain[i]]) /\ UNCHANGED maps

\* A fault of WithParams: the pair is put into the map there is.
WithParamsInPlace(e, kv) ==
  IF kv = "pair" /\ errs[e].pm # 0
  THEN /\ Copy(e, [errs[e] EXCEPT !.seen = New])
       /\ maps' = [maps EXCEPT ![errs[e].pm] = New]
  ELSE /\ Copy(e, [errs[e] EXCEPT !.pm = IF kv = "pair" THEN Len(maps) + 1 ELSE @,
                                  !.seen = IF kv = "pair" THEN New ELSE @])
       /\ maps' = IF kv = "pair" THEN Append(maps, New) ELSE maps

\* WithParams, and WithMessage, whose message is of no interest here.
WithParams(e, kv) ==
  LET v == IF kv = "pair" THEN New ELSE Params(errs[e].pm) IN
  /\ Copy(e, [errs[e] EXCEPT !.pm = IF v = 0 THEN 0 ELSE Len(maps) + 1, !.seen = v])
  /\ maps' = IF v = 0 THEN maps ELSE Append(maps, v)

Next ==
  \/ \E k \in {"plain", "status", "canceled"} : Foreign(k, 0)
  \/ \E t \in ErrorType, s \in {"General", "orders"}, kv \in KeyVals : NewError(t, s, kv)
  \/ \E e \in Ids :
       \/ Foreign("wrapper", e)
       \/ WithSubject(e, "orders") \/ WithCode(e, 7)
       \/ \E i \in Ids : WithInner(e, i)
       \/ \E kv \in KeyVals : WithParams(e, kv)

Spec == Init /\ [][Next]_vars

-----------------------------------------------------------------------------
(* errors.As, errors.Is and the edges.                                      *)

\* GetError: the outermost error of errorx in e, or 0.
GetError(e) ==
  LET T == {x \in Chain[e] : Typed(x)}
  IN IF T = {} THEN 0 ELSE CHOOSE x \in T : \A y \in T : y <= x

Kinds(e) == {errs[x].kind : x \in Chain[e]}

\* The method Is of e, for a target t.
Matches(e, t) ==
  /\ errs[t].type = errs[e].type
  /\ errs[t].code \in {0, errs[e].code}
  /\ errs[t].subject \in {"", "General", errs[e].subject}

\* errors.Is(e, t)
Is(e, t) == \E x \in Chain[e] : x = t \/ (Typed(x) /\ Typed(t) /\ Matches(x, t))

HTTPStatus(e) ==
  LET v == GetError(e) IN
  IF v = 0 THEN 500
  ELSE CASE errs[v].type = "NOT_FOUND"    -> 404
         [] errs[v].type = "BAD_REQUEST"  -> 400
         [] errs[v].type = "BUSINESS"     -> 409
         [] errs[v].type = "UNAUTHORIZED" -> 401
         [] errs[v].type = "FORBIDDEN"    -> 403
         [] OTHER                         -> 500

\* Whose message the HTTP response shows when debug is off; 0 is the generic one.
HTTPMessage(e) == IF HTTPStatus(e) = 500 THEN 0 ELSE GetError(e)

\* The level e is logged at: Warn or Error.
errorLevel(e) ==
  IF GetError(e) # 0 /\ errs[GetError(e)].type \in ErrorType \ {"INTERNAL"}
  THEN "Warn" ELSE "Error"

codeForType(t) ==
  CASE t = "BAD_REQUEST"  -> "InvalidArgument"
    [] t = "NOT_FOUND"    -> "NotFound"
    [] t = "BUSINESS"     -> "FailedPrecondition"
    [] t = "UNAUTHORIZED" -> "Unauthenticated"
    [] t = "FORBIDDEN"    -> "PermissionDenied"
    [] OTHER              -> "Internal"

\* The gRPC code of e; "status" is the code that e carries already.
TranslateError(e) ==
  CASE GetError(e) # 0              -> codeForType(errs[GetError(e)].type)
    [] "status" \in Kinds(e)        -> "status"
    [] "canceled" \in Kinds(e)      -> "Canceled"
    [] OTHER                        -> "Internal"

\* Whose message the gRPC status shows when debug is off; 0 is the generic one.
GRPCMessage(e) == IF TranslateError(e) = "Internal" THEN 0 ELSE GetError(e)

-----------------------------------------------------------------------------
(* No Params map is empty: JSON leaves params out. *)
TypeOK ==
  /\ Len(errs) <= MaxErrs
  /\ \A e \in Ids : errs[e].inner \in 0 .. e - 1 /\ errs[e].pm \in 0 .. Len(maps)
  /\ \A m \in 1 .. Len(maps) : maps[m] \in Ids

(* Errors are values: whatever is derived from an error later, by With... calls  *)
(* on it or on a copy that shares its map, its params stay what they were.       *)
Immutable == \A e \in Ids : Params(errs[e].pm) = errs[e].seen

(* errors.Is finds the sentinel: an error built by any With... calls from one of *)
(* the general subject matches it, however deep it is wrapped.                   *)
SentinelKept ==
  \A e \in Ids : \A x \in Chain[e] : errs[x].root # 0 => Is(e, errs[x].root)

(* The switches of the HTTP response, the log level and the gRPC status agree    *)
(* on whether an error is the client's fault or the server's, but for a gRPC     *)
(* status, which passes as it is.                                                *)
SameVerdict ==
  \A e \in Ids :
    /\ (HTTPStatus(e) = 500) = (errorLevel(e) = "Error")
    /\ TranslateError(e) # "status"
       => (HTTPStatus(e) = 500) = (TranslateError(e) \in {"Internal", "Canceled"})

(* With debug off both edges show the same message, the generic one or that of   *)
(* the same error in the chain; a gRPC status and a context error have their own. *)
SameMessage ==
  \A e \in Ids : TranslateError(e) \notin {"status", "Canceled"} => HTTPMessage(e) = GRPCMessage(e)

(* Wrapping an error with context on its way up changes neither edge's answer.   *)
WrapKeepsAnswer ==
  \A e \in Ids : errs[e].kind = "wrapper" =>
    /\ HTTPStatus(e) = HTTPStatus(errs[e].inner)
    /\ TranslateError(e) = TranslateError(errs[e].inner)
=============================================================================
