-------------------------------- MODULE Edge --------------------------------
(***************************************************************************)
(* The edge of a worker: connections of both ports, the request router's   *)
(* first decision and the transparent proxy behind it.  Requests of one    *)
(* connection are decided one by one; what stays in the enclave is served  *)
(* by the handlers (ChatRequest, Handlers).                                *)
(***************************************************************************)
EXTENDS ProxyListener, Routes, Passthrough

CONSTANTS
    Foreign,        \* request targets that are horse-power's
    Methods,        \* request methods
    MaxRespell      \* bound: changes to the spelling of a request target

ASSUME EdgeAssumption == MaxRespell \in Nat /\ "none" \notin Conns

VARIABLES
    on,         \* on[r]: the connection a request came on, "none" before it came
    ours        \* ours[r]: a spelling of one of the enclave's routes, with its method

vars == <<listener, passthrough, on, ours>>

Init ==
    /\ ListenerInit /\ PassthroughInit
    /\ on = [r \in Requests |-> "none"]
    /\ ours = [r \in Requests |-> FALSE]

\* What may be asked, and what the router decides of it.
Decided ==
    {[to |-> routeDecision(m, u), ours |-> FALSE] : m \in Methods, u \in Foreign}
    \cup UNION {{[to |-> routeDecision(m, u), ours |-> TRUE] :
                    m \in route.methods,
                    u \in Spellings([form |-> "origin", path |-> route.path, tail |-> "none"], MaxRespell)}
                : route \in EnclaveRoutes}

-----------------------------------------------------------------------------
Comes(r, c) == on[r] = "none" /\ link[c] = "secure" /\ on' = [on EXCEPT ![r] = c]

\* Mutant of MayProxy: the port a connection came on is not asked about.
MayProxyAny(c) == TRUE

\* The gate of requestRouter and of the upgrade hook.
MayProxy(c) == c \in via

\* requestRouter: refused or served here, or handed to the proxy.
Request(r, c) ==
    /\ Comes(r, c)
    /\ \E d \in Decided :
          /\ ours' = [ours EXCEPT ![r] = d.ours]
          /\ IF MayProxy(c) /\ d.to = "proxy"
             THEN handle(r)
             ELSE UNCHANGED passthrough
    /\ UNCHANGED listener

\* The upgrade hook: any path goes to the proxy, or the socket is destroyed.
Upgrade(r, c) ==
    /\ Comes(r, c)
    /\ IF MayProxy(c)
       THEN upgrade(r) /\ UNCHANGED listener
       ELSE Close(c) /\ UNCHANGED passthrough
    /\ UNCHANGED ours

\* A connection closes after the clients of its open requests have.
Closes(c) ==
    /\ \A r \in Requests : on[r] = c => ~held[r]
    /\ Close(c)

Links(c) ==
    \/ Open(c, "plain") \/ Open(c, "api") \/ Receive(c) \/ Read(c) \/ GiveUp(c)
    \/ Secure(c) \/ Closes(c)

Next ==
    \/ \E c \in Conns : Links(c) /\ UNCHANGED <<passthrough, on, ours>>
    \/ \E r \in Requests, c \in Conns : Request(r, c) \/ Upgrade(r, c)
    \/ \E r \in Requests : Step(r) /\ UNCHANGED <<listener, on, ours>>

\* The connect timer is armed for every attempt until it is answered, and destroy ends in
\* an 'error'.
Fairness ==
    \A r \in Requests :
        WF_vars(up[r] \in Unanswered /\ Errors(r) /\ UNCHANGED <<listener, on, ours>>)

Spec == Init /\ [][Next]_vars /\ Fairness

-----------------------------------------------------------------------------
\* README: "no proxied request leaves without a client address horse-power can
\* rate-limit and geo-block by", and it is the address of that connection's own
\* header; no ordinary request horse-power's router would read as one of the enclave's
\* leaves, however its target is spelled (what that router reads as one: Spellings, with
\* ReadAsOne) and whatever the connection carried before.
LeavesAsItShould ==
    /\ HeaderTakenExactly /\ ViaHasOwnAddress
    /\ \A r \in Requests :
          held[r] =>
              /\ clientIp[on[r]] # "none"
              /\ clientIp[on[r]] = header[on[r]].ip
              /\ (kind[r] = "handle" => ~ours[r])
=============================================================================
