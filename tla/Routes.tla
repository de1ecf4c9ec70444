------------------------------- MODULE Routes -------------------------------
(***************************************************************************)
(* Which requests stay in the enclave (passthrough.mjs).  A request target *)
(* is a form, a path and what follows the path; a path is a sequence of    *)
(* tokens: a slash, a name, a dot segment, the escaped or upper-case       *)
(* spelling of one, and a name with a malformed escape in it.              *)
(***************************************************************************)
EXTENDS Naturals, Sequences, SequencesExt

CONSTANTS
    EnclaveRoutes,  \* ENCLAVE_ROUTES: [path, methods]
    Names           \* path names, in lower case

\* A token: how it is spelled (twice: the escape of its escape; bad: with an escape that
\* does not decode, such as %zz), and what.  Only a name has an upper case or is bad.
Token ==
    ({"plain", "escape", "twice"} \X (Names \cup {"/", ".", ".."})) \cup ({"upper", "bad"} \X Names)

Tok(x) == <<"plain", x>>

-----------------------------------------------------------------------------
\* One pass of decodeURIComponent over a token that is well formed.
Decoded(t) ==
    IF t[1] = "escape" THEN Tok(t[2]) ELSE IF t[1] = "twice" THEN <<"escape", t[2]>> ELSE t

\* decodeURIComponent throws on such a path.
Malformed(p) == \E i \in DOMAIN p : p[i][1] = "bad"

\* Mutant of DecodedPath: the catch gives the empty path.
DecodedPathEmpty(p) == IF Malformed(p) THEN <<>> ELSE [i \in DOMAIN p |-> Decoded(p[i])]

\* One pass over a path; the catch keeps one that does not decode as it was typed, its
\* other escapes too.
DecodedPath(p) == IF Malformed(p) THEN p ELSE [i \in DOMAIN p |-> Decoded(p[i])]

\* toLowerCase.
Lowered(t) == IF t[1] = "upper" THEN Tok(t[2]) ELSE t

\* What the loop over the segments does with one: an empty and a dot segment go, a double
\* dot takes the segment before it.
Resolve(out, seg) ==
    IF seg \in {<<>>, <<Tok(".")>>} THEN out
    ELSE IF seg # <<Tok("..")>> THEN Append(out, seg)
    ELSE IF out = <<>> THEN out ELSE Front(out)

\* split('/') and the loop, token by token: a slash ends a segment.
Walk(w, t) ==
    IF t = Tok("/") THEN [out |-> Resolve(w.out, w.seg), seg |-> <<>>]
    ELSE [out |-> w.out, seg |-> Append(w.seg, t)]
Resolved(p) ==
    LET at[i \in 0..Len(p)] == IF i = 0 THEN [out |-> <<>>, seg |-> <<>>] ELSE Walk(at[i - 1], p[i])
    IN  Resolve(at[Len(p)].out, at[Len(p)].seg)

\* Mutant of canonicalPath: the path is split before its escapes are decoded.
canonicalDecodesLast(u) ==
    LET out == Resolved(u.path)
    IN  [i \in DOMAIN out |-> [j \in DOMAIN out[i] |-> Lowered(Decoded(out[i][j]))]]

\* Absolute form, query and fragment are cut off, then: decode, collapse, resolve,
\* fold the case.  The value is the sequence of segments.
canonicalPath(u) ==
    LET out == Resolved(DecodedPath(u.path))
    IN  [i \in DOMAIN out |-> [j \in DOMAIN out[i] |-> Lowered(out[i][j])]]

\* pathOf: what comes before the query, as it was typed.  A fragment and an absolute
\* form stay in it, so no route is spelled with one.
Literal(u, route) == u.form = "origin" /\ u.tail \in {"none", "query"} /\ u.path = route.path

isEnclaveRoute(method, u) ==
    \E route \in EnclaveRoutes : Literal(u, route) /\ method \in route.methods \cup {"OPTIONS"}

Canonical(route) == canonicalPath([form |-> "origin", path |-> route.path, tail |-> "none"])

\* A key of ENCLAVE_ROUTES is a slash before each of its names, in lower case, which is its
\* canonical path as well; no path has two keys.
ASSUME RoutesAssumption ==
    /\ Names \cap {"/", ".", ".."} = {}
    /\ \A route \in EnclaveRoutes :
          /\ route.path \in Seq(Token)
          /\ \A i \in DOMAIN route.path :
                route.path[i] \in IF i % 2 = 1 THEN {Tok("/")} ELSE {Tok(n) : n \in Names}
    /\ \A a, b \in EnclaveRoutes : Canonical(a) = Canonical(b) => a = b

isEnclaveRouteNearMiss(u) ==
    /\ \A route \in EnclaveRoutes : ~Literal(u, route)
    /\ \E route \in EnclaveRoutes : canonicalPath(u) = Canonical(route)

routeDecision(method, u) ==
    IF isEnclaveRoute(method, u) THEN "enclave"
    ELSE IF isEnclaveRouteNearMiss(u) THEN "refuse" ELSE "proxy"

-----------------------------------------------------------------------------
(* External: the spellings horse-power's router reads as one route, as the *)
(* comment of canonicalPath lists them.                                    *)

\* Segments a double dot takes back.
Passed == {"plain", "bad"} \X Names

\* The target with ts in the place of a token.
Put(u, i, ts) == [u EXCEPT !.path = SubSeq(@, 1, i - 1) \o ts \o SubSeq(@, i + 1, Len(@))]

Respelled(u) ==
    LET plain   == {i \in DOMAIN u.path : u.path[i][1] = "plain"}
        slashes == {i \in DOMAIN u.path : u.path[i] \in {Tok("/"), <<"escape", "/">>}}
    IN  {Put(u, i, << <<"escape", u.path[i][2]>> >>) : i \in plain \ {1}}
        \cup {Put(u, i, << <<"upper", u.path[i][2]>> >>) : i \in {j \in plain : u.path[j][2] \in Names}}
        \cup {Put(u, i, <<Tok("/"), u.path[i]>>) : i \in slashes}
        \cup {Put(u, i, <<Tok("/"), Tok("."), u.path[i]>>) : i \in slashes}
        \cup {Put(u, i, <<Tok("/"), t, Tok("/"), Tok(".."), u.path[i]>>) : i \in slashes, t \in Passed}
        \cup {[u EXCEPT !.path = Append(@, Tok("/"))], [u EXCEPT !.form = "absolute"]}
        \cup {[u EXCEPT !.tail = t] : t \in {"query", "fragment"}}

\* No path has both a malformed escape and another: the comment at the catch says that such
\* a path cannot have spelled a route, that is, that this router reads it as typed too.
ReadAsOne(p) == Malformed(p) => \A i \in DOMAIN p : p[i][1] \notin {"escape", "twice"}

\* Spelled within k changes.
Spellings(u, k) ==
    LET within[i \in 0..k] == IF i = 0 THEN {u}
                              ELSE within[i - 1] \cup UNION {Respelled(v) : v \in within[i - 1]}
    IN  {v \in within[k] : ReadAsOne(v.path)}
=============================================================================
