----------------------------- MODULE EdgeProofs -----------------------------
(***************************************************************************)
(* What the edge of a worker promises, for any connections, headers,       *)
(* requests and cap: the proxy's slots are counted exactly, horse-power    *)
(* runs a request twice only if that is harmless, the PROXY header is read *)
(* to the byte, and what leaves bears the address of its own connection.   *)
(***************************************************************************)
EXTENDS Edge, Lists, FiniteSetTheorems, TLAPS

-----------------------------------------------------------------------------
(* The transparent proxy.                                                  *)

Open4 == {"open", "ran", "answered", "spliced"}

\* The types of the proxy's state.
PassTypes ==
    /\ kind \in [Requests -> {"none", "handle", "upgrade"}]
    /\ safe \in [Requests -> BOOLEAN]
    /\ held \in [Requests -> BOOLEAN]
    /\ up \in [Requests -> {"none", "doomed", "over"} \cup Open4]
    /\ reused \in [Requests -> BOOLEAN]
    /\ attempts \in [Requests -> 0..2]
    /\ responded \in [Requests -> BOOLEAN]
    /\ gone \in [Requests -> BOOLEAN]
    /\ runs \in [Requests -> Nat]

\* What the events of one request leave of it: horse-power has not yet run its current
\* attempt while that is open, a second attempt is a safe one on a new connection, a
\* doomed request's client has left and an answered one is known to be.
RequestSound(r) ==
    /\ held[r] <=> up[r] \in Open4
    /\ up[r] = "none" => attempts[r] = 0 /\ runs[r] = 0
    /\ up[r] = "doomed" => gone[r]
    /\ up[r] = "answered" => responded[r]
    /\ up[r] \in Open4 \cup {"doomed"} => attempts[r] >= 1 /\ kind[r] # "none"
    /\ runs[r] <= attempts[r]
    /\ up[r] = "open" => runs[r] < attempts[r]
    /\ attempts[r] = 2 => safe[r] /\ kind[r] = "handle"

Slots == {r \in Requests : held[r]}

PassInv ==
    /\ PassTypes
    /\ inflight = Cardinality(Slots) /\ inflight <= MaxInflight
    /\ \A r \in Requests : RequestSound(r)

\* No slot is taken at the start.
LEMMA PassStarts == PassthroughInit => PassInv
<1> SUFFICES ASSUME PassthroughInit PROVE PassInv
  OBVIOUS
<1>1. Slots = {}
  BY DEF PassthroughInit, Slots
<1> QED
  BY <1>1, FS_EmptySet, PassthroughAssumption DEF PassthroughInit, PassInv, PassTypes, RequestSound, Open4

\* The slots are finitely many; taking one adds one, returning one takes one off.
LEMMA SlotCount ==
    ASSUME NEW r \in Requests, held \in [Requests -> BOOLEAN]
    PROVE  /\ IsFiniteSet(Slots) /\ Cardinality(Slots) \in Nat
           /\ held' = [held EXCEPT ![r] = TRUE] =>
                 Cardinality(Slots') = IF held[r] THEN Cardinality(Slots) ELSE Cardinality(Slots) + 1
           /\ held' = [held EXCEPT ![r] = FALSE] =>
                 Cardinality(Slots') = IF held[r] THEN Cardinality(Slots) - 1 ELSE Cardinality(Slots)
           /\ held' = held => Slots' = Slots
<1>1. Slots \in SUBSET Requests /\ (held[r] <=> r \in Slots)
  BY DEF Slots
<1>2. IsFiniteSet(Slots)
  BY <1>1, PassthroughAssumption, FS_Subset
<1>3. Cardinality(Slots) \in Nat
  BY <1>2, FS_CardinalityType
<1>4. ASSUME held' = [held EXCEPT ![r] = TRUE] PROVE Slots' = Slots \cup {r}
  BY <1>4 DEF Slots
<1>5. ASSUME held' = [held EXCEPT ![r] = FALSE] PROVE Slots' = Slots \ {r}
  BY <1>5 DEF Slots
<1>6. held' = held => Slots' = Slots
  BY DEF Slots
<1> QED
  BY <1>1, <1>2, <1>3, <1>4, <1>5, <1>6, FS_AddElement, FS_RemoveElement

\* A step that leaves the slot alone.
LEMMA SlotKept ==
    ASSUME PassInv, NEW r \in Requests, PassTypes', UNCHANGED <<held, inflight>>, RequestSound(r)',
           \A q \in Requests \ {r} : RequestSound(q)'
    PROVE  PassInv'
  BY SlotCount DEF PassInv, PassTypes

\* A step that runs finish.
LEMMA SlotFinished ==
    ASSUME PassInv, NEW r \in Requests, PassTypes', finish(r), RequestSound(r)',
           \A q \in Requests \ {r} : RequestSound(q)'
    PROVE  PassInv'
<1>1. /\ inflight = Cardinality(Slots) /\ inflight <= MaxInflight /\ MaxInflight \in Nat
      /\ held \in [Requests -> BOOLEAN] /\ inflight \in Nat
  BY PassthroughAssumption, SlotCount DEF PassInv, PassTypes
<1>2. held' = [held EXCEPT ![r] = FALSE] /\ inflight' = IF held[r] THEN inflight - 1 ELSE inflight
  BY DEF finish
<1>3. inflight' = Cardinality(Slots')
  BY <1>1, <1>2, SlotCount
<1>4. inflight' <= MaxInflight
  BY <1>1, <1>2
<1> QED
  BY <1>3, <1>4 DEF PassInv

\* A step of one request leaves the others sound.
LEMMA OthersSound ==
    ASSUME PassInv, NEW r \in Requests, NEW q \in Requests, q # r,
           held'[q] = held[q], up'[q] = up[q], attempts'[q] = attempts[q], runs'[q] = runs[q],
           gone'[q] = gone[q], responded'[q] = responded[q], kind'[q] = kind[q], safe'[q] = safe[q]
    PROVE  RequestSound(q)'
  BY DEF PassInv, RequestSound

\* Refused at the cap, or admitted below it.
LEMMA AdmissionKept ==
    ASSUME PassInv, NEW r \in Requests, handle(r) \/ upgrade(r) PROVE PassInv'
<1> USE DEF PassTypes
<1>0. /\ PassTypes /\ RequestSound(r) /\ inflight = Cardinality(Slots) /\ inflight \in Nat
      /\ MaxInflight \in Nat
  BY PassthroughAssumption, SlotCount DEF PassInv
<1>1. ASSUME NEW k \in {"handle", "upgrade"}, Overloaded(r, k) PROVE PassInv'
  <2>1. PassTypes' /\ UNCHANGED <<held, inflight>>
    BY <1>0, <1>1 DEF Overloaded
  <2>2. RequestSound(r)'
    BY <1>0, <1>1 DEF Overloaded, RequestSound, Open4
  <2>3. \A q \in Requests \ {r} : RequestSound(q)'
    BY <1>0, <1>1, OthersSound DEF Overloaded
  <2> QED
    BY <2>1, <2>2, <2>3, SlotKept
<1>2. ASSUME NEW k \in {"handle", "upgrade"}, NEW pooled \in BOOLEAN, NEW retryable \in BOOLEAN,
             Admit(r, k, pooled, retryable)
      PROVE  PassInv'
  <2>1. PassTypes'
    BY <1>0, <1>2 DEF Admit, Open4
  <2>2. RequestSound(r)'
    BY <1>0, <1>2 DEF Admit, RequestSound, Open4
  <2>3. \A q \in Requests \ {r} : RequestSound(q)'
    BY <1>0, <1>2, OthersSound DEF Admit
  <2>4. ~held[r] /\ held' = [held EXCEPT ![r] = TRUE] /\ inflight' = inflight + 1 /\ inflight < MaxInflight
    BY <1>0, <1>2 DEF Admit, RequestSound, Open4
  <2>5. inflight' = Cardinality(Slots') /\ inflight' <= MaxInflight
    <3>1. held \in [Requests -> BOOLEAN]
      BY <1>0
    <3>2. Cardinality(Slots') = Cardinality(Slots) + 1
      BY <2>4, <3>1, SlotCount
    <3> QED
      BY <1>0, <2>4, <3>2
  <2> QED
    BY <2>1, <2>2, <2>3, <2>5 DEF PassInv
<1> QED
  BY <1>1, <1>2 DEF handle, upgrade

\* The events of an open request.
LEMMA StepKept ==
    ASSUME PassInv, NEW r \in Requests, Step(r) PROVE PassInv'
<1> USE DEF PassTypes
<1>0. PassTypes /\ RequestSound(r)
  BY DEF PassInv
<1>1. CASE HpRuns(r)
  <2>1. PassTypes' /\ UNCHANGED <<held, inflight>>
    BY <1>0, <1>1 DEF HpRuns, Open4
  <2>2. RequestSound(r)'
    BY <1>0, <1>1 DEF HpRuns, RequestSound, Open4
  <2>3. \A q \in Requests \ {r} : RequestSound(q)'
    BY <1>0, <1>1, OthersSound DEF HpRuns
  <2> QED
    BY <2>1, <2>2, <2>3, SlotKept
<1>2. ASSUME NEW s \in {"answered", "spliced"}, up[r] = "ran", Responds(r, s) PROVE PassInv'
  <2>1. PassTypes' /\ UNCHANGED <<held, inflight>>
    BY <1>0, <1>2 DEF Responds, Open4
  <2>2. RequestSound(r)'
    BY <1>0, <1>2 DEF Responds, RequestSound, Open4
  <2>3. \A q \in Requests \ {r} : RequestSound(q)'
    BY <1>0, <1>2, OthersSound DEF Responds
  <2> QED
    BY <2>1, <2>2, <2>3, SlotKept
<1>3. ASSUME Over(r) PROVE PassInv'
  <2>1. PassTypes'
    BY <1>0, <1>3 DEF Over, finish
  <2>2. RequestSound(r)'
    BY <1>0, <1>3 DEF Over, finish, RequestSound, Open4
  <2>3. \A q \in Requests \ {r} : RequestSound(q)'
    BY <1>0, <1>3, OthersSound DEF Over, finish
  <2> QED
    BY <1>3, <2>1, <2>2, <2>3, SlotFinished DEF Over
<1>4. ASSUME kind[r] = "handle", up[r] \in Unanswered \cup {"answered"}, ~responded[r], MayRetry(r), Retry(r),
             UNCHANGED <<inflight, kind, safe, held, responded, gone, reported, runs>>
      PROVE  PassInv'
  <2>1. PassTypes'
    BY <1>0, <1>4 DEF Retry, Open4
  <2>2. up[r] \in {"open", "ran"} /\ safe[r] /\ attempts[r] = 1 /\ held[r]
    BY <1>0, <1>4 DEF MayRetry, RequestSound, Unanswered, Open4
  <2>3. up'[r] = "open" /\ attempts'[r] = 2 /\ UNCHANGED <<held, kind, safe, responded, gone, runs>>
    BY <1>0, <1>4 DEF Retry
  <2>4. RequestSound(r)'
    BY <1>0, <1>4, <2>2, <2>3 DEF RequestSound, Open4
  <2>5. \A q \in Requests \ {r} : RequestSound(q)'
    BY <1>0, <1>4, OthersSound DEF Retry
  <2> QED
    BY <1>4, <2>1, <2>4, <2>5, SlotKept
<1>5. ASSUME ClientCloses(r) PROVE PassInv'
  <2>1. PassTypes'
    BY <1>0, <1>5 DEF ClientCloses, finish
  <2>2. RequestSound(r)'
    BY <1>0, <1>5 DEF ClientCloses, finish, RequestSound, Open4, Unanswered
  <2>3. \A q \in Requests \ {r} : RequestSound(q)'
    BY <1>0, <1>5, OthersSound DEF ClientCloses, finish
  <2> QED
    BY <1>5, <2>1, <2>2, <2>3, SlotFinished DEF ClientCloses
<1> QED
  BY <1>1, <1>2, <1>3, <1>4, <1>5 DEF Step, Errors, UpError, UpgradeError, Response, ResponseOver,
     HandleClose, Spliced, Drops, Declined, DeclineOver, Cancel

\* A step that is none of the proxy's.
LEMMA PassUnchanged == PassInv /\ UNCHANGED passthrough => PassInv'
<1> SUFFICES ASSUME PassInv, UNCHANGED passthrough PROVE PassInv'
  OBVIOUS
<1>1. Slots' = Slots
  BY DEF Slots, passthrough
<1> QED
  BY <1>1 DEF PassInv, PassTypes, RequestSound, passthrough

\* What the proxy's invariant says of its slots.
LEMMA PassSound == PassInv => SlotsExact
  BY DEF PassInv, PassTypes, RequestSound, Slots, SlotsExact, Open4

\* Every step of the edge keeps the proxy's invariant.
LEMMA PassStays == PassInv /\ [Next]_vars => PassInv'
<1> SUFFICES ASSUME PassInv, [Next]_vars PROVE PassInv'
  OBVIOUS
<1>1. ASSUME NEW r \in Requests, NEW c \in Conns, Request(r, c) \/ Upgrade(r, c) PROVE PassInv'
  BY <1>1, AdmissionKept, PassUnchanged DEF Request, Upgrade
<1>2. ASSUME NEW r \in Requests, Step(r) PROVE PassInv'
  BY <1>2, StepKept
<1>3. CASE UNCHANGED passthrough
  BY <1>3, PassUnchanged
<1> QED
  BY <1>1, <1>2, <1>3 DEF Next, vars

\* passthrough.mjs, inflight and finish: the counter is the number of requests that hold
\* a slot, never above the cap, whatever order the events that end a request come in;
\* for any number of requests and any cap.
THEOREM SlotsStayExact == Spec => []SlotsExact
<1>1. Init => PassInv
  BY PassStarts DEF Init
<1> QED
  BY <1>1, PassStays, PassSound, PTL DEF Spec

\* What sends a request again: the 'error' of an unanswered one whose client is there.
SentAgainSafely(r) ==
    attempts[r] > 0 /\ attempts'[r] # attempts[r] =>
        safe[r] /\ kind[r] = "handle" /\ ~responded[r] /\ ~gone[r]

\* Every step of the edge sends a request again only so.
LEMMA SentAgain ==
    ASSUME PassInv, [Next]_vars, NEW q \in Requests PROVE SentAgainSafely(q)
<1>0. PassTypes /\ \A r \in Requests : RequestSound(r)
  BY DEF PassInv
<1>1. ASSUME NEW r \in Requests, handle(r) \/ upgrade(r) PROVE SentAgainSafely(q)
  <2>1. up[r] = "none" /\ (UNCHANGED attempts \/ attempts' = [attempts EXCEPT ![r] = 1])
    BY <1>1 DEF handle, upgrade, Overloaded, Admit
  <2>2. attempts[r] = 0
    BY <1>0, <2>1 DEF RequestSound
  <2> QED
    BY <1>0, <2>1, <2>2 DEF SentAgainSafely, PassTypes
<1>2. ASSUME NEW r \in Requests, Step(r) PROVE SentAgainSafely(q)
  <2>1. \/ UNCHANGED attempts
        \/ /\ attempts' = [attempts EXCEPT ![r] = 2]
           /\ kind[r] = "handle" /\ ~responded[r] /\ MayRetry(r)
    BY <1>2 DEF Step, Errors, UpError, UpgradeError, Response, ResponseOver, HandleClose, Spliced,
       Drops, Declined, DeclineOver, Cancel, HpRuns, Responds, Over, ClientCloses, Retry
  <2> QED
    BY <1>0, <2>1 DEF SentAgainSafely, PassTypes, MayRetry
<1>3. CASE UNCHANGED passthrough
  BY <1>3 DEF SentAgainSafely, passthrough
<1> QED
  BY <1>1, <1>2, <1>3 DEF Next, vars, Request, Upgrade

\* passthrough.mjs, the retry on a fresh connection: horse-power is sent a request twice
\* only where method and body allow it and before it has answered or the client has left,
\* runs it no more often than that, and never a third time.
THEOREM RunsAgainSafely == Spec => RunAgainOnlyIfSafe
<1>1. Init => PassInv
  BY PassStarts DEF Init
<1>2. ASSUME PassInv, PassInv', [Next]_vars
      PROVE  \A r \in Requests :
                /\ runs'[r] <= attempts'[r] /\ attempts'[r] <= 2
                /\ attempts[r] > 0 /\ attempts'[r] # attempts[r] =>
                      safe[r] /\ kind[r] = "handle" /\ ~responded[r] /\ ~gone[r]
  BY <1>2, SentAgain DEF SentAgainSafely, PassInv, PassTypes, RequestSound
<1> QED
  BY <1>1, <1>2, PassStays, PTL DEF Spec, RunAgainOnlyIfSafe

-----------------------------------------------------------------------------
(* The listener.                                                           *)

\* The types of what the listener keeps of its connections.
LinkTypes ==
    /\ port \in [Conns -> {"none", "plain", "api"}]
    /\ header \in [Conns -> Headers \cup {NoHeader}]
    /\ taken \in [Conns -> Nat]
    /\ link \in [Conns -> {"new", "reading", "handed", "secure", "closed"}]
    /\ DOMAIN why = Conns /\ DOMAIN byRaw = Conns /\ DOMAIN clientIp = Conns
    /\ viaRaw \subseteq Conns /\ via \subseteq viaRaw

\* While a header is read, what was taken falls short of it and does not prove it wrong;
\* once the socket is handed over, exactly the header was taken.
ReadSound(c) ==
    /\ link[c] = "new" => header[c] = NoHeader /\ taken[c] = 0
    /\ link[c] = "reading" =>
          /\ port[c] = "api" /\ header[c] \in Headers
          /\ \/ taken[c] = 0
             \/ /\ header[c].grammar # "other" /\ taken[c] < header[c].length
                /\ header[c].bad = 0 \/ taken[c] < header[c].bad
    /\ port[c] = "api" /\ link[c] \in {"handed", "secure"} =>
          taken[c] = header[c].length /\ header[c].bad = 0
    /\ link[c] # "closed" => why[c] = "none"
    /\ why[c] \in {"invalid", "past"} => header[c].bad # 0

\* A raw socket that came with an address keeps its header's, and its TLS socket too.
AddressSound(c) ==
    /\ c \in viaRaw =>
          /\ link[c] \in {"handed", "secure"} /\ port[c] = "api"
          /\ byRaw[c] = header[c].ip /\ header[c].ip # "none"
    /\ c \in via => clientIp[c] = byRaw[c] /\ link[c] = "secure"

ListenerInv == LinkTypes /\ \A c \in Conns : ReadSound(c) /\ AddressSound(c)

\* No connection is open at the start.
LEMMA ListenerStarts == ListenerInit => ListenerInv
  BY DEF ListenerInit, ListenerInv, LinkTypes, ReadSound, AddressSound

\* The parser never asks past the end of a header: a read ends at most there, what it
\* calls sound is sound and complete, and what it calls wrong is wrong.
LEMMA ReadsWithin ==
    ASSUME ListenerInv, NEW c \in Conns, link[c] = "reading"
    PROVE  LET n == taken[c] + Want(c)
               r == parseProxyHeader(header[c], n)
           IN  /\ n \in Nat \ {0}
               /\ r.status \in {"invalid", "incomplete", "ok"}
               /\ r.status = "invalid" => header[c].bad # 0
               /\ r.status = "ok" => n = header[c].length /\ header[c].bad = 0
               /\ r.status = "incomplete" =>
                     /\ header[c].grammar # "other" /\ n < header[c].length
                     /\ header[c].bad = 0 \/ n < header[c].bad
<1> DEFINE h == header[c]
           t == taken[c]
<1>1. /\ h \in Headers /\ t \in Nat
      /\ \/ t = 0
         \/ h.grammar # "other" /\ t < h.length /\ (h.bad = 0 \/ t < h.bad)
  BY DEF ListenerInv, LinkTypes, ReadSound
<1>2. /\ FirstRead \in Nat \ {0} /\ HeaderFixed \in Nat /\ FirstRead < HeaderFixed
      /\ h.grammar \in {"v1", "v2", "other"} /\ h.length \in Nat /\ h.bad \in Nat
      /\ h.grammar = "v1" => h.length > FirstRead /\ h.bad <= h.length
      /\ h.grammar = "v2" => h.length >= HeaderFixed /\ h.bad <= HeaderFixed
      /\ h.grammar = "other" => h.bad = 1
  BY <1>1, HeaderAssumption
<1> DEFINE n == t + Want(c)
<1>3. CASE h.grammar = "v1"
  <2>1. n = IF t = 0 THEN FirstRead ELSE t + 1
    BY <1>1, <1>2, <1>3 DEF Want, parseProxyHeader, parseProxyV1, ProvedWrong, Told
  <2>2. n \in Nat \ {0} /\ n <= h.length
    BY <1>1, <1>2, <1>3, <2>1
  <2> QED
    BY <1>2, <1>3, <2>2 DEF parseProxyHeader, parseProxyV1, ProvedWrong, Told
<1>4. CASE h.grammar = "v2"
  <2>1. n = IF t = 0 THEN FirstRead ELSE IF t < HeaderFixed THEN HeaderFixed ELSE h.length
    BY <1>1, <1>2, <1>4 DEF Want, parseProxyHeader, parseProxyV2, ProvedWrong, Told
  <2>2. n \in Nat \ {0} /\ n <= h.length
    BY <1>1, <1>2, <1>4, <2>1
  <2> QED
    BY <1>2, <1>4, <2>2 DEF parseProxyHeader, parseProxyV2, ProvedWrong, Told
<1>5. CASE h.grammar = "other"
  <2>1. n = FirstRead
    BY <1>1, <1>2, <1>5 DEF Want
  <2> HIDE DEF n
  <2>2. parseProxyHeader(h, n) = Told("invalid", 0)
    BY <1>2, <1>5, <2>1 DEF parseProxyHeader
  <2> QED
    BY <1>2, <1>5, <2>1, <2>2 DEF Told, n
<1> QED
  BY <1>2, <1>3, <1>4, <1>5

\* A step of one connection leaves the others sound.
LEMMA OtherLinksSound ==
    ASSUME ListenerInv, NEW d \in Conns,
           port'[d] = port[d], header'[d] = header[d], taken'[d] = taken[d], link'[d] = link[d],
           why'[d] = why[d], byRaw'[d] = byRaw[d], clientIp'[d] = clientIp[d],
           d \in viaRaw' <=> d \in viaRaw, d \in via' <=> d \in via
    PROVE  ReadSound(d)' /\ AddressSound(d)'
<1>1. NoHeader' = NoHeader /\ ReadSound(d) /\ AddressSound(d)
  BY DEF ListenerInv, NoHeader
<1> QED
  BY <1>1 DEF ReadSound, AddressSound

\* A connection opens: nothing was read of it.
LEMMA OpenKept ==
    ASSUME ListenerInv, NEW c \in Conns, NEW p \in {"plain", "api"}, Open(c, p) PROVE ListenerInv'
<1>0. LinkTypes /\ ReadSound(c) /\ AddressSound(c) /\ NoHeader' = NoHeader
  BY DEF ListenerInv, NoHeader
<1>1. PICK h \in Headers \cup {NoHeader} :
         header' = [header EXCEPT ![c] = h] /\ (p = "api" => h \in Headers)
  BY DEF Open
<1>2. LinkTypes'
  BY <1>0, <1>1 DEF LinkTypes, Open
<1>3. c \notin viaRaw /\ c \notin via /\ why[c] = "none"
  BY <1>0 DEF Open, AddressSound, ReadSound, LinkTypes
<1>4. AddressSound(c)'
  BY <1>3 DEF Open, AddressSound
<1>5. ReadSound(c)'
  <2>1. /\ link'[c] = IF p = "api" THEN "reading" ELSE "handed"
        /\ port'[c] = p /\ header'[c] = h /\ taken'[c] = 0 /\ why'[c] = "none"
    BY <1>0, <1>1, <1>3 DEF Open, LinkTypes, ReadSound
  <2> QED
    BY <1>0, <1>1, <2>1 DEF ReadSound
<1>6. ASSUME NEW d \in Conns, d # c PROVE ReadSound(d)' /\ AddressSound(d)'
  BY <1>0, <1>1, <1>6, OtherLinksSound DEF Open, LinkTypes
<1> QED
  BY <1>2, <1>4, <1>5, <1>6 DEF ListenerInv

\* accept drops a connection it is reading.
LEMMA DropKept ==
    ASSUME ListenerInv, NEW c \in Conns, link[c] = "reading", NEW reason \in {"invalid", "incomplete"},
           reason = "invalid" => header[c].bad # 0, Drop(c, reason),
           taken' \in [Conns -> Nat], \A d \in Conns \ {c} : taken'[d] = taken[d],
           UNCHANGED <<port, header, clientIp, via>>
    PROVE  ListenerInv'
<1>0. LinkTypes /\ ReadSound(c) /\ AddressSound(c) /\ NoHeader' = NoHeader
  BY DEF ListenerInv, NoHeader
<1>1. LinkTypes'
  BY <1>0 DEF LinkTypes, Drop
<1>2. link'[c] = "closed" /\ why'[c] = reason /\ c \notin viaRaw' /\ c \notin via'
  BY <1>0 DEF LinkTypes, Drop, AddressSound
<1>3. ReadSound(c)' /\ AddressSound(c)'
  BY <1>2 DEF ReadSound, AddressSound
<1>4. ASSUME NEW d \in Conns, d # c PROVE ReadSound(d)' /\ AddressSound(d)'
  BY <1>0, <1>4, OtherLinksSound DEF Drop, LinkTypes
<1> QED
  BY <1>1, <1>3, <1>4 DEF ListenerInv

\* One read of accept: wrong, short, or exactly the header.
LEMMA ReadKept ==
    ASSUME ListenerInv, NEW c \in Conns, Read(c) PROVE ListenerInv'
<1>0. LinkTypes /\ ReadSound(c) /\ AddressSound(c) /\ NoHeader' = NoHeader /\ link[c] = "reading"
  BY DEF ListenerInv, NoHeader, Read
<1> DEFINE n == taken[c] + Want(c)
           r == parseProxyHeader(header[c], n)
<1>1. /\ n \in Nat \ {0}
      /\ r.status \in {"invalid", "incomplete", "ok"}
      /\ r.status = "invalid" => header[c].bad # 0
      /\ r.status = "ok" => n = header[c].length /\ header[c].bad = 0
      /\ r.status = "incomplete" =>
            /\ header[c].grammar # "other" /\ n < header[c].length
            /\ header[c].bad = 0 \/ n < header[c].bad
  BY <1>0, ReadsWithin
<1> HIDE DEF n
<1>2. taken' = [taken EXCEPT ![c] = n] /\ UNCHANGED <<port, peer, header, clientIp, via>>
  BY DEF Read, n
<1>3. taken' \in [Conns -> Nat] /\ taken'[c] = n /\ \A d \in Conns \ {c} : taken'[d] = taken[d]
  BY <1>0, <1>1, <1>2 DEF LinkTypes
<1>4. \/ r.status = "invalid" /\ Drop(c, "invalid")
      \/ r.status = "incomplete" /\ UNCHANGED <<arrived, link, why, byRaw, byPeer, viaRaw>>
      \/ r.status = "ok" /\ n # header[c].length /\ Drop(c, "past")
      \/ r.status = "ok" /\ n = header[c].length /\ HandOver(c)
  BY <1>3 DEF Read
<1> HIDE DEF r
<1>5. CASE r.status = "invalid" /\ Drop(c, "invalid")
  BY <1>0, <1>1, <1>2, <1>3, <1>5, DropKept
<1>6. CASE r.status = "incomplete" /\ UNCHANGED <<arrived, link, why, byRaw, byPeer, viaRaw>>
  <2>1. LinkTypes'
    BY <1>0, <1>2, <1>3, <1>6 DEF LinkTypes
  <2>2. ReadSound(c)' /\ AddressSound(c)'
    BY <1>0, <1>1, <1>2, <1>3, <1>6 DEF ReadSound, AddressSound
  <2>3. ASSUME NEW d \in Conns, d # c PROVE ReadSound(d)' /\ AddressSound(d)'
    BY <1>2, <1>3, <1>6, <2>3, OtherLinksSound
  <2> QED
    BY <2>1, <2>2, <2>3 DEF ListenerInv
<1>7. CASE r.status = "ok" /\ n = header[c].length /\ HandOver(c)
  <2>1. LinkTypes'
    BY <1>0, <1>2, <1>3, <1>7 DEF LinkTypes, HandOver
  <2>2. link'[c] = "handed" /\ why'[c] = why[c] /\ c \notin viaRaw /\ c \notin via
    BY <1>0, <1>2, <1>7 DEF HandOver, LinkTypes, AddressSound
  <2>3. ReadSound(c)'
    BY <1>0, <1>1, <1>2, <1>3, <1>7, <2>2 DEF ReadSound
  <2>4. AddressSound(c)'
    <3>1. CASE header[c].ip = "none"
      BY <1>2, <1>7, <2>2, <3>1 DEF HandOver, AddressSound
    <3>2. CASE header[c].ip # "none"
      <4>1. byRaw'[c] = header[c].ip /\ port[c] = "api"
        BY <1>0, <1>7, <3>2 DEF HandOver, LinkTypes, ReadSound
      <4> QED
        BY <1>2, <2>2, <3>2, <4>1 DEF AddressSound
    <3> QED
      BY <3>1, <3>2
  <2>5. ASSUME NEW d \in Conns, d # c PROVE ReadSound(d)' /\ AddressSound(d)'
    BY <1>0, <1>2, <1>3, <1>7, <2>5, OtherLinksSound DEF HandOver, LinkTypes
  <2> QED
    BY <2>1, <2>3, <2>4, <2>5 DEF ListenerInv
<1> QED
  BY <1>1, <1>4, <1>5, <1>6, <1>7

\* The prepended secureConnection listener gives the connection its address.
LEMMA SecureKept ==
    ASSUME ListenerInv, NEW c \in Conns, Secure(c) PROVE ListenerInv'
<1>0. LinkTypes /\ ReadSound(c) /\ AddressSound(c) /\ NoHeader' = NoHeader
  BY DEF ListenerInv, NoHeader
<1>1. LinkTypes'
  BY <1>0 DEF LinkTypes, Secure
<1>2. /\ link[c] = "handed" /\ link'[c] = "secure" /\ clientIp'[c] = AddressOf(c)
      /\ c \in via' <=> c \in viaRaw
      /\ UNCHANGED <<port, header, taken, why, byRaw, viaRaw>>
  BY <1>0 DEF LinkTypes, Secure
<1>3. ReadSound(c)'
  BY <1>0, <1>2 DEF ReadSound
<1>4. AddressSound(c)'
  BY <1>0, <1>2 DEF AddressSound, AddressOf
<1>5. ASSUME NEW d \in Conns, d # c PROVE ReadSound(d)' /\ AddressSound(d)'
  BY <1>0, <1>5, OtherLinksSound DEF Secure, LinkTypes
<1> QED
  BY <1>1, <1>3, <1>4, <1>5 DEF ListenerInv

\* A raw socket closes, and everything noted of it goes.
LEMMA CloseKept ==
    ASSUME ListenerInv, NEW c \in Conns, Close(c) PROVE ListenerInv'
<1>0. LinkTypes /\ ReadSound(c) /\ AddressSound(c) /\ NoHeader' = NoHeader
  BY DEF ListenerInv, NoHeader
<1>1. LinkTypes'
  BY <1>0 DEF LinkTypes, Close
<1>2. link'[c] = "closed" /\ why'[c] = "none" /\ c \notin viaRaw' /\ c \notin via'
  BY <1>0 DEF LinkTypes, Close, ReadSound
<1>3. ReadSound(c)' /\ AddressSound(c)'
  BY <1>2 DEF ReadSound, AddressSound
<1>4. ASSUME NEW d \in Conns, d # c PROVE ReadSound(d)' /\ AddressSound(d)'
  BY <1>0, <1>4, OtherLinksSound DEF Close, LinkTypes
<1> QED
  BY <1>1, <1>3, <1>4 DEF ListenerInv

\* Nothing happens to the listener.
LEMMA ListenerUnchanged == ListenerInv /\ UNCHANGED listener => ListenerInv'
  BY DEF ListenerInv, LinkTypes, ReadSound, AddressSound, listener, NoHeader

\* Every step of a connection keeps the listener's invariant.
LEMMA LinksKept ==
    ASSUME ListenerInv, NEW c \in Conns, Links(c) PROVE ListenerInv'
<1>1. CASE Receive(c)
  BY <1>1 DEF Receive, ListenerInv, LinkTypes, ReadSound, AddressSound, NoHeader
<1>2. CASE GiveUp(c)
  <2>1. taken' \in [Conns -> Nat] /\ \A d \in Conns \ {c} : taken'[d] = taken[d]
    BY <1>2 DEF GiveUp, ListenerInv, LinkTypes
  <2> QED
    BY <1>2, <2>1, DropKept DEF GiveUp
<1> QED
  BY <1>1, <1>2, OpenKept, ReadKept, SecureKept, CloseKept DEF Links, Closes

-----------------------------------------------------------------------------
(* The edge: connections, the router and the proxy together.               *)

\* A request that holds a slot came on a connection that may be proxied and is open.
HeldOnVia ==
    /\ on \in [Requests -> Conns \cup {"none"}]
    /\ \A r \in Requests : held[r] => on[r] \in via

\* An ordinary request that holds a slot is none of the enclave's.
HeldIsForeign == ours \in [Requests -> BOOLEAN] /\ \A r \in Requests : held[r] /\ kind[r] = "handle" => ~ours[r]

EdgeInv == PassInv /\ ListenerInv /\ HeldOnVia

\* Nothing has come at the start.
LEMMA EdgeStarts == Init => EdgeInv /\ HeldIsForeign
<1> SUFFICES ASSUME Init PROVE EdgeInv /\ HeldIsForeign
  OBVIOUS
<1>1. PassInv /\ ListenerInv
  BY PassStarts, ListenerStarts DEF Init
<1> QED
  BY <1>1 DEF Init, EdgeInv, HeldOnVia, HeldIsForeign, PassthroughInit

\* The events of a request take no slot and do not change what kind it is.
LEMMA StepTakesNoSlot ==
    ASSUME PassInv, NEW r \in Requests, Step(r)
    PROVE  kind' = kind /\ \A q \in Requests : held'[q] => held[q]
  BY DEF PassInv, PassTypes, Step, HpRuns, Errors, UpError, UpgradeError, Over, finish, Retry, Response, ResponseOver,
     HandleClose, ClientCloses, Spliced, Drops, Declined, DeclineOver, Cancel, Responds

\* An admission touches one request only.
LEMMA AdmissionOfOne ==
    ASSUME PassInv, NEW r \in Requests, handle(r) \/ upgrade(r)
    PROVE  \A q \in Requests : q # r => held'[q] = held[q] /\ kind'[q] = kind[q]
  BY DEF PassInv, PassTypes, handle, upgrade, Overloaded, Admit

\* A connection's steps leave every other connection, and every request that holds a
\* slot, where they are.
LEMMA LinksKeepVia ==
    ASSUME EdgeInv, NEW c \in Conns, Links(c), NEW r \in Requests, held[r]
    PROVE  on[r] \in via'
<1>1. on[r] \in via
  BY DEF EdgeInv, HeldOnVia
<1>2. CASE Closes(c)
  BY <1>1, <1>2 DEF Closes, Close
<1> QED
  BY <1>1, <1>2 DEF Links, Open, Receive, Read, GiveUp, Secure

\* A slot is held only for a connection that may be proxied, at every step.
LEMMA EdgeKept == EdgeInv /\ [Next]_vars => EdgeInv'
<1> SUFFICES ASSUME EdgeInv, [Next]_vars PROVE EdgeInv'
  OBVIOUS
<1>0. PassInv /\ ListenerInv /\ HeldOnVia /\ PassInv'
  BY PassStays DEF EdgeInv
<1>1. ASSUME NEW c \in Conns, Links(c), UNCHANGED <<passthrough, on, ours>> PROVE EdgeInv'
  <2>1. ListenerInv'
    BY <1>0, <1>1, LinksKept
  <2>2. HeldOnVia'
    BY <1>0, <1>1, LinksKeepVia DEF HeldOnVia, passthrough
  <2> QED
    BY <1>0, <2>1, <2>2 DEF EdgeInv
<1>2. ASSUME NEW r \in Requests, NEW c \in Conns, Request(r, c) \/ Upgrade(r, c) PROVE EdgeInv'
  <2>1. on[r] = "none" /\ link[c] = "secure" /\ on' = [on EXCEPT ![r] = c]
    BY <1>2 DEF Request, Upgrade, Comes
  <2>2. ~held[r]
    BY <1>0, <2>1, EdgeAssumption DEF HeldOnVia, ListenerInv, LinkTypes
  <2>3. CASE UNCHANGED listener /\ UNCHANGED passthrough
    <3>1. ListenerInv'
      BY <1>0, <2>3, ListenerUnchanged
    <3>2. HeldOnVia'
      BY <1>0, <2>1, <2>2, <2>3 DEF HeldOnVia, passthrough, listener
    <3> QED
      BY <1>0, <3>1, <3>2 DEF EdgeInv
  <2>4. CASE UNCHANGED listener /\ c \in via /\ (handle(r) \/ upgrade(r))
    <3>1. ListenerInv'
      BY <1>0, <2>4, ListenerUnchanged
    <3>2. \A q \in Requests : q # r => held'[q] = held[q]
      BY <1>0, <2>4, AdmissionOfOne
    <3>3. HeldOnVia'
      BY <1>0, <2>1, <2>4, <3>2 DEF HeldOnVia, listener
    <3> QED
      BY <1>0, <3>1, <3>3 DEF EdgeInv
  <2>5. CASE c \notin via /\ Close(c) /\ UNCHANGED passthrough
    <3>1. ListenerInv'
      BY <1>0, <2>5, CloseKept
    <3>2. via' = via
      BY <2>5 DEF Close
    <3>3. HeldOnVia'
      BY <1>0, <2>1, <2>2, <2>5, <3>2 DEF HeldOnVia, passthrough
    <3> QED
      BY <1>0, <3>1, <3>3 DEF EdgeInv
  <2> QED
    BY <1>2, <2>3, <2>4, <2>5 DEF Request, Upgrade, MayProxy
<1>3. ASSUME NEW r \in Requests, Step(r), UNCHANGED <<listener, on, ours>> PROVE EdgeInv'
  <2>1. ListenerInv'
    BY <1>0, <1>3, ListenerUnchanged
  <2>2. HeldOnVia'
    BY <1>0, <1>3, StepTakesNoSlot DEF HeldOnVia, listener
  <2> QED
    BY <1>0, <2>1, <2>2 DEF EdgeInv
<1>4. CASE UNCHANGED vars
  <2>1. ListenerInv'
    BY <1>0, <1>4, ListenerUnchanged DEF vars
  <2> QED
    BY <1>0, <1>4, <2>1 DEF EdgeInv, HeldOnVia, vars, passthrough, listener
<1> QED
  BY <1>1, <1>2, <1>3, <1>4 DEF Next

\* Every request that holds a slot is of a connection that has its own header's address.
OwnAddress ==
    \A r \in Requests : held[r] => clientIp[on[r]] # "none" /\ clientIp[on[r]] = header[on[r]].ip

\* proxyListener.mjs and the gate of requestRouter: however the bytes of a header are
\* cut, exactly the header is read before TLS; a connection that may be proxied bears the
\* address of its own header whatever shares its peer tuple; and nothing is being proxied
\* without that address.
THEOREM ProxiedWithOwnAddress == Spec => [](HeaderTakenExactly /\ ViaHasOwnAddress /\ OwnAddress)
<1>1. EdgeInv => HeaderTakenExactly /\ ViaHasOwnAddress /\ OwnAddress
  <2> SUFFICES ASSUME EdgeInv PROVE HeaderTakenExactly /\ ViaHasOwnAddress /\ OwnAddress
    OBVIOUS
  <2>1. HeaderTakenExactly
    BY DEF EdgeInv, ListenerInv, ReadSound, HeaderTakenExactly
  <2>2. ViaHasOwnAddress
    BY DEF EdgeInv, ListenerInv, LinkTypes, AddressSound, ViaHasOwnAddress
  <2>3. OwnAddress
    BY <2>2 DEF EdgeInv, HeldOnVia, ViaHasOwnAddress, OwnAddress
  <2> QED
    BY <2>1, <2>2, <2>3
<1> QED
  BY <1>1, EdgeStarts, EdgeKept, PTL DEF Spec

-----------------------------------------------------------------------------
(* The router: what every spelling of a route resolves to.  The loop over  *)
(* the path's segments is a walk over its tokens; a change of the spelling *)
(* leaves what the walk ends with, so the spellings of a route have its    *)
(* canonical path and are refused or served, never passed on.              *)

\* A walk over p: what the loop has at each token.
Start == [out |-> <<>>, seg |-> <<>>]
Walking == [out : Seq(Seq(Token)), seg : Seq(Token)]
Walks(f, p) ==
    /\ f \in [0..Len(p) -> Walking]
    /\ f[0] = Start
    /\ \A i \in 1..Len(p) : f[i] = Walk(f[i - 1], p[i])

\* A step of the walk has segments again.
LEMMA WalkType ==
    ASSUME NEW w \in Walking, NEW t \in Token
    PROVE  Walk(w, t) \in Walking /\ Resolve(w.out, w.seg) \in Seq(Seq(Token))
  BY DEF Walking, Walk, Resolve, Front

\* The recursion of Resolved defines a walk: there is one over every path.
LEMMA ResolvedWalks ==
    ASSUME NEW p \in Seq(Token)
    PROVE  \E f : Walks(f, p) /\ Resolved(p) = Resolve(f[Len(p)].out, f[Len(p)].seg)
<1> DEFINE F == [i \in 1..Len(p) |-> [w \in Walking |-> Walk(w, p[i])]]
           at == CHOOSE at : at = [i \in 0..Len(p) |-> IF i = 0 THEN Start ELSE Walk(at[i - 1], p[i])]
<1>1. Len(p) \in Nat /\ Start \in Walking /\ \A i \in 1..Len(p) : p[i] \in Token
  BY DEF Start, Walking
<1>2. F \in Rounds(Len(p), Walking)
  BY <1>1, WalkType DEF Rounds
<1>3. PICK f : Makes(f, Len(p), Walking, F, Start)
  BY <1>1, <1>2, Loop
<1>4. ASSUME NEW i \in 1..Len(p) PROVE f[i] = Walk(f[i - 1], p[i])
  <2>1. f[i - 1] \in Walking
    BY <1>1, <1>3 DEF Makes
  <2> QED
    BY <1>3, <2>1 DEF Makes
<1>5. f = [i \in 0..Len(p) |-> IF i = 0 THEN Start ELSE Walk(f[i - 1], p[i])]
  <2>1. \A i \in 0..Len(p) : f[i] = IF i = 0 THEN Start ELSE Walk(f[i - 1], p[i])
    <3> HIDE DEF F
    <3> QED
      BY <1>1, <1>3, <1>4 DEF Makes
  <2>2. f = [i \in 0..Len(p) |-> f[i]]
    BY <1>3 DEF Makes
  <2> QED
    BY <2>1, <2>2, Zenon
<1>6. at = [i \in 0..Len(p) |-> IF i = 0 THEN Start ELSE Walk(at[i - 1], p[i])]
  <2>1. \E g : g = [i \in 0..Len(p) |-> IF i = 0 THEN Start ELSE Walk(g[i - 1], p[i])]
    BY <1>5, Zenon
  <2> QED
    BY <2>1, Zenon
<1>7. Resolved(p) = Resolve(at[Len(p)].out, at[Len(p)].seg)
  BY DEF Resolved, Start
<1> HIDE DEF at, F
<1>8. \A i \in 0..Len(p) : at[i] = IF i = 0 THEN Start ELSE Walk(at[i - 1], p[i])
  BY <1>6
<1>9. at = f
  <2> DEFINE E == {i \in Nat : i <= Len(p) => at[i] = f[i]}
  <2>1. 0 \in E
    BY <1>1, <1>3, <1>8 DEF Makes
  <2>2. ASSUME NEW i \in E PROVE i + 1 \in E
    BY <1>1, <1>4, <1>8
  <2>3. E = Nat
    <3> HIDE DEF E
    <3>1. E \in SUBSET Nat
      BY DEF E
    <3> QED
      BY <2>1, <2>2, <3>1, Induction
  <2>4. \A i \in 0..Len(p) : at[i] = f[i]
    BY <1>1, <2>3
  <2>5. at = [i \in 0..Len(p) |-> at[i]] /\ f = [i \in 0..Len(p) |-> f[i]]
    BY <1>3, <1>6 DEF Makes
  <2> QED
    BY <2>4, <2>5, Zenon
<1>10. Walks(f, p)
  BY <1>3, <1>4 DEF Walks, Makes
<1> QED
  BY <1>7, <1>9, <1>10

\* The lower case of a segment, of a list of segments and of what the walk has.
LowSeg(s) == [j \in DOMAIN s |-> Lowered(s[j])]
LowOut(out) == [i \in DOMAIN out |-> LowSeg(out[i])]
LowWalk(w) == [out |-> LowOut(w.out), seg |-> LowSeg(w.seg)]

\* Folding the case of a token, or decoding it, gives a token; no other one becomes a slash
\* or a dot when its case is folded.
LEMMA LowTokens ==
    ASSUME NEW t \in Token
    PROVE  /\ Lowered(t) \in Token /\ Decoded(t) \in Token
           /\ \A x \in {"/", ".", ".."} : Lowered(t) = Tok(x) <=> t = Tok(x)
<1>1. Names \cap {"/", ".", ".."} = {}
  BY RoutesAssumption
<1>2. CASE t \in {"upper", "bad"} \X Names
  <2>1. PICK h \in {"upper", "bad"}, n \in Names : t = <<h, n>>
    BY <1>2
  <2> QED
    BY <1>1, <2>1 DEF Token, Lowered, Decoded, Tok
<1>3. CASE t \in {"plain", "escape", "twice"} \X (Names \cup {"/", ".", ".."})
  <2>1. PICK h \in {"plain", "escape", "twice"}, n \in Names \cup {"/", ".", ".."} : t = <<h, n>>
    BY <1>3
  <2> QED
    BY <2>1 DEF Token, Lowered, Decoded, Tok
<1> QED
  BY <1>2, <1>3 DEF Token

\* Folding the case leaves a segment as long as it was, and a dot segment one.
LEMMA LowSegments ==
    ASSUME NEW s \in Seq(Token)
    PROVE  /\ LowSeg(s) \in Seq(Token)
           /\ LowSeg(s) = <<>> <=> s = <<>>
           /\ \A x \in {"/", ".", ".."} : LowSeg(s) = <<Tok(x)>> <=> s = <<Tok(x)>>
           /\ \A t \in Token : LowSeg(Append(s, t)) = Append(LowSeg(s), Lowered(t))
<1>1. /\ LowSeg(s) \in Seq(Token) /\ Len(LowSeg(s)) = Len(s) /\ Len(s) \in Nat
      /\ \A i \in 1..Len(s) : LowSeg(s)[i] = Lowered(s[i]) /\ s[i] \in Token
  BY LowTokens DEF LowSeg
<1>2. LowSeg(s) = <<>> <=> s = <<>>
  BY <1>1
<1>3. ASSUME NEW x \in {"/", ".", ".."} PROVE LowSeg(s) = <<Tok(x)>> <=> s = <<Tok(x)>>
  <2>0. Tok(x) \in Token
    BY DEF Tok, Token
  <2>1. LowSeg(s) = <<Tok(x)>> <=> Len(LowSeg(s)) = 1 /\ LowSeg(s)[1] = Tok(x)
    <3>1. PICK l \in Seq(Token) : l = LowSeg(s)
      BY <1>1
    <3>2. l = <<Tok(x)>> <=> Len(l) = 1 /\ l[1] = Tok(x)
      BY <2>0, OneElement
    <3> QED
      BY <3>1, <3>2
  <2>2. s = <<Tok(x)>> <=> Len(s) = 1 /\ s[1] = Tok(x)
    BY <2>0, OneElement
  <2> QED
    BY <1>1, <2>1, <2>2, LowTokens
<1>4. ASSUME NEW t \in Token PROVE LowSeg(Append(s, t)) = Append(LowSeg(s), Lowered(t))
  <2>1. Lowered(t) \in Token
    BY LowTokens
  <2>2. \A i \in 1..Len(s) + 1 : LowSeg(Append(s, t))[i] = Append(LowSeg(s), Lowered(t))[i]
    BY <1>1, <2>1 DEF LowSeg
  <2>3. LowSeg(Append(s, t)) \in Seq(Token) /\ Len(LowSeg(Append(s, t))) = Len(s) + 1
    BY <1>1, LowTokens DEF LowSeg
  <2>4. Append(LowSeg(s), Lowered(t)) \in Seq(Token) /\ Len(Append(LowSeg(s), Lowered(t))) = Len(s) + 1
    BY <1>1, <2>1
  <2> QED
    BY <2>2, <2>3, <2>4
<1> QED
  BY <1>1, <1>2, <1>3, <1>4

\* Folding the case of the segments and resolving one more go in either order.
LEMMA LowResolve ==
    ASSUME NEW out \in Seq(Seq(Token)), NEW seg \in Seq(Token)
    PROVE  LowOut(out) \in Seq(Seq(Token)) /\ LowOut(Resolve(out, seg)) = Resolve(LowOut(out), LowSeg(seg))
<1>1. /\ LowOut(out) \in Seq(Seq(Token)) /\ Len(LowOut(out)) = Len(out) /\ Len(out) \in Nat
      /\ \A i \in 1..Len(out) : LowOut(out)[i] = LowSeg(out[i]) /\ LowSeg(out[i]) \in Seq(Token)
  <2>1. Len(out) \in Nat /\ DOMAIN out = 1..Len(out) /\ \A i \in 1..Len(out) : out[i] \in Seq(Token)
    OBVIOUS
  <2>2. \A i \in 1..Len(out) : LowSeg(out[i]) \in Seq(Token)
    BY <2>1, LowSegments
  <2> QED
    BY <2>1, <2>2 DEF LowOut
<1>2. CASE seg \in {<<>>, <<Tok(".")>>}
  BY <1>1, <1>2, LowSegments DEF Resolve
<1>3. CASE seg \notin {<<>>, <<Tok(".")>>, <<Tok("..")>>}
  <2>1. LowSeg(seg) \in Seq(Token) /\ LowSeg(seg) \notin {<<>>, <<Tok(".")>>, <<Tok("..")>>}
    BY <1>3, LowSegments
  <2>2. Resolve(out, seg) = Append(out, seg) /\ Resolve(LowOut(out), LowSeg(seg)) = Append(LowOut(out), LowSeg(seg))
    BY <1>3, <2>1 DEF Resolve
  <2>3. /\ LowOut(Append(out, seg)) \in Seq(Seq(Token)) /\ Len(LowOut(Append(out, seg))) = Len(out) + 1
        /\ \A i \in 1..Len(out) + 1 : LowOut(Append(out, seg))[i] = Append(LowOut(out), LowSeg(seg))[i]
    BY <1>1, <2>1 DEF LowOut
  <2>4. Append(LowOut(out), LowSeg(seg)) \in Seq(Seq(Token)) /\ Len(Append(LowOut(out), LowSeg(seg))) = Len(out) + 1
    BY <1>1, <2>1
  <2>5. LowOut(Append(out, seg)) = Append(LowOut(out), LowSeg(seg))
    BY <2>3, <2>4, SameSeq
  <2> QED
    BY <1>1, <2>2, <2>5
<1>4. CASE seg = <<Tok("..")>>
  <2>1. LowSeg(seg) = <<Tok("..")>> /\ seg \notin {<<>>, <<Tok(".")>>}
    BY <1>4, LowSegments DEF Tok
  <2>2. CASE out = <<>>
    <3>1. LowOut(out) = <<>>
      BY <1>1, <2>2
    <3> QED
      BY <1>1, <1>4, <2>1, <2>2, <3>1 DEF Resolve
  <2>3. CASE out # <<>>
    <3>1. LowOut(out) # <<>> /\ Len(out) # 0
      BY <1>1, <2>3
    <3>2. /\ Resolve(out, seg) = SubSeq(out, 1, Len(out) - 1)
          /\ Resolve(LowOut(out), LowSeg(seg)) = SubSeq(LowOut(out), 1, Len(out) - 1)
      BY <1>1, <1>4, <2>1, <2>3, <3>1 DEF Resolve, Front
    <3>3. /\ LowOut(SubSeq(out, 1, Len(out) - 1)) \in Seq(Seq(Token))
          /\ Len(LowOut(SubSeq(out, 1, Len(out) - 1))) = Len(out) - 1
          /\ \A i \in 1..Len(out) - 1 :
                LowOut(SubSeq(out, 1, Len(out) - 1))[i] = SubSeq(LowOut(out), 1, Len(out) - 1)[i]
      BY <1>1, <3>1 DEF LowOut
    <3>4. /\ SubSeq(LowOut(out), 1, Len(out) - 1) \in Seq(Seq(Token))
          /\ Len(SubSeq(LowOut(out), 1, Len(out) - 1)) = Len(out) - 1
      BY <1>1, <3>1
    <3>5. LowOut(SubSeq(out, 1, Len(out) - 1)) = SubSeq(LowOut(out), 1, Len(out) - 1)
      BY <3>3, <3>4, SameSeq
    <3> QED
      BY <1>1, <3>2, <3>5
  <2> QED
    BY <2>2, <2>3
<1> QED
  BY <1>2, <1>3, <1>4

\* So do folding the case and a step of the walk.
LEMMA LowStep ==
    ASSUME NEW w \in Walking, NEW t \in Token PROVE LowWalk(Walk(w, t)) = Walk(LowWalk(w), Lowered(t))
<1>1. w.out \in Seq(Seq(Token)) /\ w.seg \in Seq(Token)
  BY DEF Walking
<1>2. CASE t = Tok("/")
  <2>1. Lowered(t) = Tok("/") /\ LowSeg(<<>>) = <<>>
    BY <1>2, LowTokens DEF LowSeg
  <2> QED
    BY <1>1, <1>2, <2>1, LowResolve DEF Walk, LowWalk
<1>3. CASE t # Tok("/")
  <2>1. Lowered(t) # Tok("/") /\ LowSeg(Append(w.seg, t)) = Append(LowSeg(w.seg), Lowered(t))
    BY <1>1, <1>3, LowTokens, LowSegments
  <2> QED
    BY <1>3, <2>1 DEF Walk, LowWalk
<1> QED
  BY <1>2, <1>3

\* The path as it is compared: decoded, in lower case.
Normal(p) == [i \in DOMAIN p |-> Lowered(Decoded(p[i]))]

\* Folding the case last is folding it first, and a path that is kept as it was typed
\* has nothing to decode.
LEMMA CanonicalIsResolved ==
    ASSUME NEW u, u.path \in Seq(Token), ReadAsOne(u.path)
    PROVE  Normal(u.path) \in Seq(Token) /\ canonicalPath(u) = Resolved(Normal(u.path))
<1> DEFINE p == u.path
           d == [i \in DOMAIN u.path |-> Decoded(u.path[i])]
           q == Normal(u.path)
<1>1. /\ d \in Seq(Token) /\ q \in Seq(Token) /\ Len(d) = Len(p) /\ Len(q) = Len(p) /\ Len(p) \in Nat
      /\ \A i \in 1..Len(p) : q[i] = Lowered(d[i]) /\ d[i] \in Token
  BY LowTokens DEF Normal
<1>2. canonicalPath(u) = LowOut(Resolved(d))
  <2>1. DecodedPath(p) = d
    <3>1. CASE Malformed(p)
      <4>1. p \in Seq(Token) /\ \A i \in 1..Len(p) : d[i] = p[i]
        BY <3>1 DEF ReadAsOne, Decoded
      <4>2. d = p
        <5> HIDE DEF d, p
        <5> QED
          BY <1>1, <4>1, SameSeq
      <4> QED
        BY <3>1, <4>2 DEF DecodedPath
    <3>2. CASE ~Malformed(p)
      BY <3>2 DEF DecodedPath
    <3> QED
      BY <3>1, <3>2
  <2> QED
    BY <2>1 DEF canonicalPath, LowOut, LowSeg
<1> HIDE DEF p, d, q
<1>3. PICK f : Walks(f, d) /\ Resolved(d) = Resolve(f[Len(d)].out, f[Len(d)].seg)
  BY <1>1, ResolvedWalks
<1>4. PICK g : Walks(g, q) /\ Resolved(q) = Resolve(g[Len(q)].out, g[Len(q)].seg)
  BY <1>1, ResolvedWalks
<1> DEFINE E == {i \in Nat : i <= Len(p) => g[i] = LowWalk(f[i])}
<1>5. 0 \in E
  <2>1. LowWalk(Start) = Start
    BY DEF LowWalk, LowOut, LowSeg, Start
  <2> QED
    BY <1>3, <1>4, <2>1 DEF Walks
<1>6. ASSUME NEW i \in E PROVE i + 1 \in E
  <2> SUFFICES ASSUME i + 1 <= Len(p) PROVE g[i + 1] = LowWalk(f[i + 1])
    OBVIOUS
  <2>1. i \in Nat /\ i \in 0..Len(p) /\ i + 1 \in 1..Len(p) /\ (i + 1) - 1 = i /\ g[i] = LowWalk(f[i])
    BY <1>1
  <2>2. f[i + 1] = Walk(f[i], d[i + 1]) /\ g[i + 1] = Walk(g[i], q[i + 1]) /\ f[i] \in Walking
    BY <1>1, <1>3, <1>4, <2>1 DEF Walks
  <2> QED
    BY <1>1, <2>1, <2>2, LowStep
<1>7. E = Nat
  <2>1. E \in SUBSET Nat
    OBVIOUS
  <2> HIDE DEF E
  <2> QED
    BY <1>5, <1>6, <2>1, Induction
<1>8. g[Len(q)] = LowWalk(f[Len(d)]) /\ f[Len(d)] \in Walking
  BY <1>1, <1>3, <1>7 DEF Walks
<1>9. f[Len(d)].out \in Seq(Seq(Token)) /\ f[Len(d)].seg \in Seq(Token)
  BY <1>8 DEF Walking
<1>10. LowOut(Resolved(d)) = Resolved(q)
  BY <1>3, <1>4, <1>8, <1>9, LowResolve DEF LowWalk
<1> QED
  BY <1>1, <1>2, <1>10 DEF q

\* A segment that is taken back is a token, no slash and no dot, and is compared as it is.
LEMMA PassedTokens ==
    ASSUME NEW t \in Passed
    PROVE  /\ t \in Token /\ t \notin {Tok("/"), Tok("."), Tok("..")}
           /\ Lowered(Decoded(t)) = t
<1>1. PICK h \in {"plain", "bad"}, n \in Names : t = <<h, n>>
  BY DEF Passed
<1>2. n \notin {"/", ".", ".."}
  BY RoutesAssumption
<1> QED
  BY <1>1, <1>2 DEF Tok, Token, Decoded, Lowered

\* What may be put before a slash without a trace: a slash, a dot segment, a name and the
\* double dot that takes it back.
LEMMA Traceless ==
    ASSUME NEW w \in Walking
    PROVE  LET s == Walk(w, Tok("/"))
           IN  /\ s \in Walking
               /\ Walk(s, Tok("/")) = s
               /\ Walk(Walk(s, Tok(".")), Tok("/")) = s
               /\ \A t \in Passed : Walk(Walk(Walk(Walk(s, t), Tok("/")), Tok("..")), Tok("/")) = s
<1>1. Tok("/") \in Token /\ Tok(".") # Tok("/") /\ Tok("..") \notin {Tok("/"), Tok(".")}
  BY DEF Tok, Token
<1> DEFINE R == Resolve(w.out, w.seg)
<1>2. R \in Seq(Seq(Token)) /\ Walk(w, Tok("/")) \in Walking
  BY <1>1, WalkType
<1>3. Walk(w, Tok("/")) = [out |-> R, seg |-> <<>>]
  BY DEF Walk
<1> HIDE DEF R
<1>4. \A t : t # Tok("/") => Walk([out |-> R, seg |-> <<>>], t) = [out |-> R, seg |-> <<t>>]
  BY DEF Walk
<1>5. Walk([out |-> R, seg |-> <<>>], Tok("/")) = [out |-> R, seg |-> <<>>]
  BY DEF Walk, Resolve
<1>6. Walk([out |-> R, seg |-> <<Tok(".")>>], Tok("/")) = [out |-> R, seg |-> <<>>]
  BY DEF Walk, Resolve
<1>7. ASSUME NEW t \in Passed
      PROVE  LET s == [out |-> R, seg |-> <<>>]
             IN  Walk(Walk(Walk(Walk(s, t), Tok("/")), Tok("..")), Tok("/")) = s
  <2>1. t \in Token /\ t \notin {Tok("/"), Tok("."), Tok("..")}
    BY PassedTokens
  <2>2. PICK one : one = <<t>>
    OBVIOUS
  <2>3. one \in Seq(Token) /\ one \notin {<<>>, <<Tok(".")>>, <<Tok("..")>>}
    BY <2>1, <2>2
  <2>4. PICK more : more = Append(R, one)
    OBVIOUS
  <2>5. more # <<>> /\ Len(more) - 1 = Len(R) /\ SubSeq(more, 1, Len(R)) = R
    <3>1. more # <<>> /\ Len(more) = Len(R) + 1 /\ Len(R) \in Nat /\ SubSeq(more, 1, Len(R)) = R
      BY <1>2, <2>3, <2>4, Appended
    <3> QED
      BY <3>1
  <2>6. Walk([out |-> R, seg |-> one], Tok("/")) = [out |-> more, seg |-> <<>>]
    BY <2>3, <2>4 DEF Walk, Resolve
  <2>7. Walk([out |-> more, seg |-> <<>>], Tok("..")) = [out |-> more, seg |-> <<Tok("..")>>]
    BY <1>1 DEF Walk
  <2>9. Walk([out |-> more, seg |-> <<Tok("..")>>], Tok("/")) = [out |-> R, seg |-> <<>>]
    <3>1. <<Tok("..")>> \notin {<<>>, <<Tok(".")>>}
      BY <1>1
    <3> QED
      BY <2>5, <3>1 DEF Walk, Resolve, Front
  <2> QED
    BY <1>4, <2>1, <2>2, <2>6, <2>7, <2>9
<1> QED
  BY <1>1, <1>2, <1>3, <1>4, <1>5, <1>6, <1>7

\* q is p with one of them put in before the slash at i, d tokens long.
HasPut(p, q, i, d) ==
    /\ i \in 1..Len(p) /\ d \in Nat
    /\ p[i] = Tok("/") /\ Len(q) = Len(p) + d
    /\ \A j \in 1..i - 1 : q[j] = p[j]
    /\ \A j \in i..Len(p) : q[j + d] = p[j]
    /\ q[i] = Tok("/")
    /\ \/ d = 1
       \/ d = 2 /\ q[i + 1] = Tok(".")
       \/ d = 4 /\ q[i + 1] \in Passed /\ q[i + 2] = Tok("/") /\ q[i + 3] = Tok("..")

\* Putting one of them in leaves what the walk makes of the path.
LEMMA PutIn ==
    ASSUME NEW p \in Seq(Token), NEW q \in Seq(Token), NEW i, NEW d, HasPut(p, q, i, d)
    PROVE  Resolved(q) = Resolved(p)
<1> USE DEF HasPut
<1>0. Len(p) \in Nat /\ Len(q) \in Nat /\ i \in Nat /\ i - 1 \in Nat /\ i + d \in 1..Len(q)
  OBVIOUS
<1>1. PICK f : Walks(f, p) /\ Resolved(p) = Resolve(f[Len(p)].out, f[Len(p)].seg)
  BY ResolvedWalks
<1>2. PICK g : Walks(g, q) /\ Resolved(q) = Resolve(g[Len(q)].out, g[Len(q)].seg)
  BY ResolvedWalks
<1>3. g[i - 1] = f[i - 1]
  <2> DEFINE E == {j \in Nat : j <= i - 1 => g[j] = f[j]}
  <2>1. 0 \in E
    BY <1>1, <1>2 DEF Walks
  <2>2. ASSUME NEW j \in E PROVE j + 1 \in E
    <3> SUFFICES ASSUME j + 1 <= i - 1 PROVE g[j + 1] = f[j + 1]
      OBVIOUS
    <3>1. j \in Nat /\ j <= i - 1 /\ j + 1 \in 1..Len(p) /\ j + 1 \in 1..Len(q) /\ j + 1 \in 1..i - 1 /\ (j + 1) - 1 = j
      BY <1>0
    <3> QED
      BY <1>1, <1>2, <3>1 DEF Walks
  <2>3. E \in SUBSET Nat
    OBVIOUS
  <2>4. E = Nat
    <3> HIDE DEF E
    <3> QED
      BY <2>1, <2>2, <2>3, Induction
  <2> QED
    BY <1>0, <2>4
<1>4. g[i + d] = f[i]
  <2> DEFINE w == f[i - 1]
  <2>1. w \in Walking /\ f[i] = Walk(w, Tok("/")) /\ g[i] = Walk(w, Tok("/")) /\ q[i + d] = Tok("/")
    <3>1. i \in 1..Len(q) /\ i \in i..Len(p) /\ i - 1 \in 0..Len(p)
      BY <1>0
    <3>2. f[i] = Walk(f[i - 1], p[i]) /\ g[i] = Walk(g[i - 1], q[i]) /\ f[i - 1] \in Walking
      BY <1>1, <1>2, <3>1 DEF Walks
    <3> QED
      BY <1>3, <3>1, <3>2
  <2> HIDE DEF w
  <2>2. \A j \in 1..Len(q) : g[j] = Walk(g[j - 1], q[j])
    BY <1>2 DEF Walks
  <2>3. CASE d = 1
    <3>1. i + 1 \in 1..Len(q) /\ (i + 1) - 1 = i
      BY <1>0, <2>3
    <3>2. g[i + 1] = Walk(Walk(w, Tok("/")), Tok("/"))
      BY <2>1, <2>2, <2>3, <3>1
    <3> QED
      BY <2>1, <2>3, <3>2, Traceless
  <2>4. CASE d = 2 /\ q[i + 1] = Tok(".")
    <3>1. i + 1 \in 1..Len(q) /\ (i + 1) - 1 = i /\ i + 2 \in 1..Len(q) /\ (i + 2) - 1 = i + 1
      BY <1>0, <2>4
    <3>2. g[i + 1] = Walk(g[i], Tok(".")) /\ g[i + 2] = Walk(g[i + 1], Tok("/"))
      BY <2>1, <2>2, <2>4, <3>1
    <3> QED
      BY <2>1, <2>4, <3>2, Traceless
  <2>5. CASE d = 4 /\ q[i + 1] \in Passed /\ q[i + 2] = Tok("/") /\ q[i + 3] = Tok("..")
    <3>0. PICK t \in Passed : q[i + 1] = t
      BY <2>5
    <3>1. /\ i + 1 \in 1..Len(q) /\ (i + 1) - 1 = i /\ i + 2 \in 1..Len(q) /\ (i + 2) - 1 = i + 1
          /\ i + 3 \in 1..Len(q) /\ (i + 3) - 1 = i + 2 /\ i + 4 \in 1..Len(q) /\ (i + 4) - 1 = i + 3
      BY <1>0, <2>5
    <3>2. /\ g[i + 1] = Walk(g[i], t) /\ g[i + 2] = Walk(g[i + 1], Tok("/"))
          /\ g[i + 3] = Walk(g[i + 2], Tok("..")) /\ g[i + 4] = Walk(g[i + 3], Tok("/"))
      BY <2>1, <2>2, <2>5, <3>0, <3>1
    <3> QED
      BY <2>1, <2>5, <3>2, Traceless
  <2> QED
    BY <2>3, <2>4, <2>5
<1>5. g[Len(q)] = f[Len(p)]
  <2> DEFINE E == {j \in Nat : i + j <= Len(p) => g[i + j + d] = f[i + j]}
  <2>1. 0 \in E
    BY <1>0, <1>4
  <2>2. ASSUME NEW j \in E PROVE j + 1 \in E
    <3> SUFFICES ASSUME i + (j + 1) <= Len(p) PROVE g[i + (j + 1) + d] = f[i + (j + 1)]
      OBVIOUS
    <3>1. j \in Nat /\ g[i + j + d] = f[i + j]
      BY <1>0
    <3>2. PICK k \in Nat : k = i + j + 1
      BY <1>0, <3>1
    <3>3. k \in 1..Len(p) /\ k \in i..Len(p) /\ k + d \in 1..Len(q) /\ k - 1 = i + j /\ (k + d) - 1 = i + j + d
          /\ k = i + (j + 1) /\ k + d = i + (j + 1) + d
      BY <1>0, <3>1, <3>2
    <3>4. f[k] = Walk(f[k - 1], p[k]) /\ g[k + d] = Walk(g[(k + d) - 1], q[k + d]) /\ q[k + d] = p[k]
      BY <1>1, <1>2, <3>3 DEF Walks
    <3> QED
      BY <3>1, <3>3, <3>4
  <2>3. E \in SUBSET Nat
    OBVIOUS
  <2>4. E = Nat
    <3> HIDE DEF E
    <3> QED
      BY <2>1, <2>2, <2>3, Induction
  <2>5. Len(p) - i \in Nat /\ i + (Len(p) - i) = Len(p) /\ i + (Len(p) - i) + d = Len(q)
    BY <1>0
  <2>6. Len(p) - i \in E
    BY <2>4, <2>5
  <2> QED
    BY <1>0, <2>5, <2>6
<1> QED
  BY <1>1, <1>2, <1>5

\* A slash at the end leaves it too.
LEMMA SlashAtEnd ==
    ASSUME NEW p \in Seq(Token) PROVE Resolved(Append(p, Tok("/"))) = Resolved(p)
<1>0. Tok("/") \in Token
  BY DEF Tok, Token
<1> DEFINE q == Append(p, Tok("/"))
<1>1. /\ q \in Seq(Token) /\ Len(q) = Len(p) + 1 /\ Len(p) \in Nat
      /\ q[Len(p) + 1] = Tok("/") /\ \A j \in 1..Len(p) : q[j] = p[j]
  BY <1>0
<1> HIDE DEF q
<1>2. PICK f : Walks(f, p) /\ Resolved(p) = Resolve(f[Len(p)].out, f[Len(p)].seg)
  BY ResolvedWalks
<1>3. PICK g : Walks(g, q) /\ Resolved(q) = Resolve(g[Len(q)].out, g[Len(q)].seg)
  BY <1>1, ResolvedWalks
<1> DEFINE E == {j \in Nat : j <= Len(p) => g[j] = f[j]}
<1>4. 0 \in E
  BY <1>2, <1>3 DEF Walks
<1>5. ASSUME NEW j \in E PROVE j + 1 \in E
  <2> SUFFICES ASSUME j + 1 <= Len(p) PROVE g[j + 1] = f[j + 1]
    OBVIOUS
  <2>1. j \in Nat /\ j <= Len(p) /\ j + 1 \in 1..Len(p) /\ j + 1 \in 1..Len(q) /\ (j + 1) - 1 = j
    BY <1>1
  <2> QED
    BY <1>1, <1>2, <1>3, <2>1 DEF Walks
<1>6. E \in SUBSET Nat
  OBVIOUS
<1>7. E = Nat
  <2> HIDE DEF E
  <2> QED
    BY <1>4, <1>5, <1>6, Induction
<1>8. g[Len(p)] = f[Len(p)]
  BY <1>1, <1>7
<1>9. Len(q) \in 1..Len(q) /\ Len(q) - 1 = Len(p) /\ q[Len(q)] = Tok("/")
  BY <1>1
<1>10. g[Len(q)] = Walk(f[Len(p)], Tok("/"))
  BY <1>3, <1>8, <1>9 DEF Walks
<1>11. Resolved(q) = Resolved(p)
  BY <1>2, <1>3, <1>10 DEF Walk, Resolve
<1> QED
  BY <1>11 DEF q

\* A sequence with ts in the place of its i-th element.
Placed(p, i, ts) == SubSeq(p, 1, i - 1) \o ts \o SubSeq(p, i + 1, Len(p))

\* q is that sequence, element by element.
IsPlaced(q, p, i, ts) ==
    /\ q \in Seq(Token)
    /\ Len(q) = (Len(p) + Len(ts)) - 1
    /\ \A j \in 1..i - 1 : q[j] = p[j]
    /\ \A j \in 1..Len(ts) : q[(i + j) - 1] = ts[j]
    /\ \A j \in i + 1..Len(p) : q[(j + Len(ts)) - 1] = p[j]

\* Where the elements of such a sequence come from.
LEMMA PlacedIs ==
    ASSUME NEW p \in Seq(Token), NEW i \in 1..Len(p), NEW ts \in Seq(Token)
    PROVE  IsPlaced(Placed(p, i, ts), p, i, ts)
<1>1. Len(p) \in Nat /\ Len(ts) \in Nat /\ i \in Nat /\ i # 0 /\ i <= Len(p)
  OBVIOUS
<1>2. PICK a \in Seq(Token) : a = SubSeq(p, 1, i - 1)
  <2>1. SubSeq(p, 1, i - 1) \in Seq(Token)
    BY <1>1
  <2> QED
    BY <2>1
<1>3. Len(a) = i - 1 /\ \A j \in 1..i - 1 : a[j] = p[j]
  BY <1>1, <1>2
<1>4. PICK b \in Seq(Token) : b = SubSeq(p, i + 1, Len(p))
  <2>1. SubSeq(p, i + 1, Len(p)) \in Seq(Token)
    BY <1>1
  <2> QED
    BY <2>1
<1>5. Len(b) = Len(p) - i /\ \A j \in 1..Len(p) - i : b[j] = p[i + j]
  BY <1>1, <1>4
<1>6. Placed(p, i, ts) = (a \o ts) \o b
  BY <1>2, <1>4 DEF Placed
<1>7. PICK c \in Seq(Token) : c = a \o ts
  <2>1. a \o ts \in Seq(Token)
    OBVIOUS
  <2> QED
    BY <2>1
<1>8. /\ Len(c) = (i - 1) + Len(ts) /\ \A j \in 1..i - 1 : c[j] = p[j]
      /\ \A j \in 1..Len(ts) : c[(i - 1) + j] = ts[j]
  <2>1. /\ Len(c) = Len(a) + Len(ts) /\ \A j \in 1..Len(a) : c[j] = a[j]
        /\ \A j \in 1..Len(ts) : c[Len(a) + j] = ts[j]
    BY <1>7
  <2> QED
    BY <1>1, <1>3, <2>1
<1>9. PICK r \in Seq(Token) : r = c \o b
  <2>1. c \o b \in Seq(Token)
    OBVIOUS
  <2> QED
    BY <2>1
<1>10. /\ Len(r) = Len(c) + Len(b)
       /\ \A j \in 1..Len(c) : r[j] = c[j]
       /\ \A j \in 1..Len(b) : r[Len(c) + j] = b[j]
  BY <1>9
<1>11. r = Placed(p, i, ts)
  BY <1>6, <1>7, <1>9
<1>12. Len(r) = (Len(p) + Len(ts)) - 1
  BY <1>1, <1>5, <1>8, <1>10
<1>13. \A j \in 1..i - 1 : r[j] = p[j]
  BY <1>1, <1>8, <1>10
<1>14. \A j \in 1..Len(ts) : r[(i + j) - 1] = ts[j]
  <2> SUFFICES ASSUME NEW j \in 1..Len(ts) PROVE r[(i + j) - 1] = ts[j]
    OBVIOUS
  <2>1. (i + j) - 1 = (i - 1) + j /\ (i - 1) + j \in 1..Len(c)
    BY <1>1, <1>8
  <2> QED
    BY <1>8, <1>10, <2>1
<1>15. \A j \in i + 1..Len(p) : r[(j + Len(ts)) - 1] = p[j]
  <2> SUFFICES ASSUME NEW j \in i + 1..Len(p) PROVE r[(j + Len(ts)) - 1] = p[j]
    OBVIOUS
  <2>1. PICK k \in Int : k = j - i
    BY <1>1
  <2>2. k \in 1..Len(b) /\ Len(c) + k = (j + Len(ts)) - 1 /\ i + k = j /\ k \in 1..Len(p) - i
    BY <1>1, <1>5, <1>8, <2>1
  <2> QED
    BY <1>5, <1>10, <2>2
<1> QED
  BY <1>11, <1>12, <1>13, <1>14, <1>15 DEF IsPlaced

\* Request targets.
Targets == [form : {"origin", "absolute"}, path : Seq(Token), tail : {"none", "query", "fragment"}]

\* The length and the tokens of the path as it is compared.
LEMMA NormalIs ==
    ASSUME NEW p \in Seq(Token)
    PROVE  /\ Normal(p) \in Seq(Token) /\ Len(Normal(p)) = Len(p) /\ Len(p) \in Nat
           /\ \A i \in 1..Len(p) : p[i] \in Token /\ Normal(p)[i] = Lowered(Decoded(p[i]))
  BY LowTokens DEF Normal

\* Another spelling of one token, the same when it is decoded and in lower case.
LEMMA SpelledOver ==
    ASSUME NEW p \in Seq(Token), NEW i \in 1..Len(p), NEW t \in Token,
           Lowered(Decoded(t)) = Lowered(Decoded(p[i]))
    PROVE  /\ Placed(p, i, <<t>>) \in Seq(Token)
           /\ Resolved(Normal(Placed(p, i, <<t>>))) = Resolved(Normal(p))
<1>1. PICK ts \in Seq(Token) : ts = <<t>>
  <2>1. <<t>> \in Seq(Token)
    OBVIOUS
  <2> QED
    BY <2>1
<1>2. Len(ts) = 1 /\ ts[1] = t
  BY <1>1
<1> DEFINE q == Placed(p, i, ts)
<1>3. /\ q \in Seq(Token) /\ Len(q) = (Len(p) + 1) - 1
      /\ \A j \in 1..i - 1 : q[j] = p[j]
      /\ \A j \in 1..1 : q[(i + j) - 1] = ts[j]
      /\ \A j \in i + 1..Len(p) : q[(j + 1) - 1] = p[j]
  <2>1. /\ q \in Seq(Token) /\ Len(q) = (Len(p) + Len(ts)) - 1
        /\ \A j \in 1..i - 1 : q[j] = p[j]
        /\ \A j \in 1..Len(ts) : q[(i + j) - 1] = ts[j]
        /\ \A j \in i + 1..Len(p) : q[(j + Len(ts)) - 1] = p[j]
    BY PlacedIs DEF IsPlaced
  <2> QED
    BY <1>2, <2>1
<1> HIDE DEF q
<1>4. /\ Len(p) \in Nat /\ Len(q) = Len(p) /\ q[i] = t
      /\ \A j \in 1..Len(p) : j # i => q[j] = p[j]
  <2>1. Len(p) \in Nat /\ i \in Nat /\ 1 \in 1..1 /\ (i + 1) - 1 = i
    OBVIOUS
  <2>2. \A j \in 1..Len(p) : (j + 1) - 1 = j /\ (j # i => j \in 1..i - 1 \/ j \in i + 1..Len(p))
    BY <2>1
  <2> QED
    BY <1>2, <1>3, <2>1, <2>2
<1>5. \A j \in 1..Len(p) : Normal(q)[j] = Normal(p)[j]
  BY <1>3, <1>4, NormalIs
<1>6. Normal(q) = Normal(p)
  BY <1>3, <1>4, <1>5, NormalIs, SameSeq
<1> QED
  BY <1>1, <1>3, <1>6 DEF q

\* Tokens put before a slash.
BeforeSlash(p, i, ts) ==
    /\ i \in 1..Len(p) /\ p[i] \in {Tok("/"), <<"escape", "/">>}
    /\ ts \in Seq(Token) /\ Len(ts) \in {2, 3, 5} /\ ts[Len(ts)] = p[i]
    /\ ts[1] = Tok("/")
    /\ Len(ts) = 3 => ts[2] = Tok(".")
    /\ Len(ts) = 5 => ts[2] \in Passed /\ ts[3] = Tok("/") /\ ts[4] = Tok("..")

\* Tokens put before a slash, plain or escaped, leave what the path resolves to.
LEMMA PutBefore ==
    ASSUME NEW p \in Seq(Token), NEW i, NEW ts, BeforeSlash(p, i, ts)
    PROVE  /\ Placed(p, i, ts) \in Seq(Token)
           /\ Resolved(Normal(Placed(p, i, ts))) = Resolved(Normal(p))
<1> USE DEF BeforeSlash
<1> DEFINE q == Placed(p, i, ts)
<1>1. /\ q \in Seq(Token) /\ Len(q) = (Len(p) + Len(ts)) - 1
      /\ \A j \in 1..i - 1 : q[j] = p[j]
      /\ \A j \in 1..Len(ts) : q[(i + j) - 1] = ts[j]
      /\ \A j \in i + 1..Len(p) : q[(j + Len(ts)) - 1] = p[j]
  BY PlacedIs DEF IsPlaced
<1> HIDE DEF q
<1>2. PICK d \in {1, 2, 4} : Len(ts) = d + 1
  OBVIOUS
<1>3. Len(p) \in Nat /\ i \in Nat /\ i >= 1 /\ i <= Len(p) /\ d \in Nat /\ Len(q) = Len(p) + d
  BY <1>1, <1>2
<1>4. \A j \in i..Len(p) : q[j + d] = p[j]
  <2> SUFFICES ASSUME NEW j \in i..Len(p) PROVE q[j + d] = p[j]
    OBVIOUS
  <2>1. CASE j = i
    <3>1. (i + Len(ts)) - 1 = j + d /\ Len(ts) \in 1..Len(ts)
      BY <1>2, <1>3, <2>1
    <3> QED
      BY <1>1, <2>1, <3>1
  <2>2. CASE j # i
    <3>1. (j + Len(ts)) - 1 = j + d /\ j \in i + 1..Len(p)
      BY <1>2, <1>3, <2>2
    <3> QED
      BY <1>1, <3>1
  <2> QED
    BY <2>1, <2>2
<1>5. \A j \in 1..d + 1 : q[(i + j) - 1] = ts[j]
  BY <1>1, <1>2
<1>6. /\ q[i] = Tok("/")
      /\ d = 2 => q[i + 1] = Tok(".")
      /\ d = 4 => q[i + 1] \in Passed /\ q[i + 2] = Tok("/") /\ q[i + 3] = Tok("..")
  <2>1. (i + 1) - 1 = i /\ (i + 2) - 1 = i + 1 /\ (i + 3) - 1 = i + 2 /\ (i + 4) - 1 = i + 3
    BY <1>3
  <2> QED
    BY <1>2, <1>5, <2>1
<1>7. /\ \A x \in {"/", ".", ".."} : Lowered(Decoded(Tok(x))) = Tok(x)
      /\ \A t \in Passed : Lowered(Decoded(t)) = t
  BY PassedTokens DEF Tok, Decoded, Lowered
<1>8. Lowered(Decoded(p[i])) = Tok("/")
  BY DEF Tok, Decoded, Lowered
<1> DEFINE P == Normal(p)
           Q == Normal(q)
<1>9. /\ P \in Seq(Token) /\ Len(P) = Len(p) /\ \A j \in 1..Len(p) : P[j] = Lowered(Decoded(p[j]))
      /\ Q \in Seq(Token) /\ Len(Q) = Len(q) /\ \A j \in 1..Len(q) : Q[j] = Lowered(Decoded(q[j]))
  BY <1>1, NormalIs
<1> HIDE DEF P, Q
<1>10. P[i] = Tok("/") /\ Len(Q) = Len(P) + d
  BY <1>3, <1>8, <1>9
<1>11. (\A j \in 1..i - 1 : Q[j] = P[j]) /\ \A j \in i..Len(P) : Q[j + d] = P[j]
  <2>1. \A j \in 1..i - 1 : j \in 1..Len(p) /\ j \in 1..Len(q)
    BY <1>3
  <2>2. \A j \in i..Len(p) : j \in 1..Len(p) /\ j + d \in 1..Len(q)
    BY <1>3
  <2> QED
    BY <1>1, <1>4, <1>9, <2>1, <2>2
<1>12. /\ Q[i] = Tok("/")
       /\ d = 2 => Q[i + 1] = Tok(".")
       /\ d = 4 => Q[i + 1] \in Passed /\ Q[i + 2] = Tok("/") /\ Q[i + 3] = Tok("..")
  <2>1. i \in 1..Len(q) /\ (d = 2 => i + 1 \in 1..Len(q))
        /\ (d = 4 => i + 1 \in 1..Len(q) /\ i + 2 \in 1..Len(q) /\ i + 3 \in 1..Len(q))
    BY <1>3
  <2> QED
    BY <1>6, <1>7, <1>9, <2>1
<1>13. Resolved(Q) = Resolved(P)
  <2>1. HasPut(P, Q, i, d)
    BY <1>2, <1>3, <1>9, <1>10, <1>11, <1>12 DEF HasPut
  <2> QED
    BY <1>9, <2>1, PutIn
<1> QED
  BY <1>1, <1>13 DEF P, Q, q

\* The tokens a respelling puts in.
LEMMA Respellings ==
    ASSUME NEW t \in Token
    PROVE  /\ t[1] = "plain" => <<"escape", t[2]>> \in Token /\ Decoded(<<"escape", t[2]>>) = Decoded(t)
           /\ t[1] = "plain" /\ t[2] \in Names =>
                 /\ <<"upper", t[2]>> \in Token
                 /\ Lowered(Decoded(<<"upper", t[2]>>)) = Lowered(Decoded(t))
<1>1. CASE t \in {"upper", "bad"} \X Names
  BY <1>1
<1>2. CASE t \in {"plain", "escape", "twice"} \X (Names \cup {"/", ".", ".."})
  <2>1. PICK h \in {"plain", "escape", "twice"}, n \in Names \cup {"/", ".", ".."} : t = <<h, n>>
    BY <1>2
  <2> QED
    BY <2>1 DEF Token, Lowered, Decoded, Tok
<1> QED
  BY <1>1, <1>2 DEF Token

\* What the path of a target resolves to, each of its tokens read by itself.
Leads(u) == Resolved(Normal(u.path))

\* One change of the spelling is a target again, which resolves to the same.
LEMMA RespelledKeeps ==
    ASSUME NEW u \in Targets, NEW v \in Respelled(u)
    PROVE  v \in Targets /\ Leads(v) = Leads(u)
<1> DEFINE p == u.path
           Slash(i) == p[i] \in {Tok("/"), <<"escape", "/">>}
<1>1. p \in Seq(Token) /\ u.form \in {"origin", "absolute"} /\ u.tail \in {"none", "query", "fragment"}
      /\ DOMAIN p = 1..Len(p) /\ \A i \in 1..Len(p) : p[i] \in Token
  BY DEF Targets
<1>2. \/ \E i \in DOMAIN p : p[i][1] = "plain" /\ v = Put(u, i, << <<"escape", p[i][2]>> >>)
      \/ \E i \in DOMAIN p : p[i][1] = "plain" /\ p[i][2] \in Names /\ v = Put(u, i, << <<"upper", p[i][2]>> >>)
      \/ \E i \in DOMAIN p : Slash(i) /\ v = Put(u, i, <<Tok("/"), p[i]>>)
      \/ \E i \in DOMAIN p : Slash(i) /\ v = Put(u, i, <<Tok("/"), Tok("."), p[i]>>)
      \/ \E i \in DOMAIN p, t \in Passed :
            Slash(i) /\ v = Put(u, i, <<Tok("/"), t, Tok("/"), Tok(".."), p[i]>>)
      \/ v = [u EXCEPT !.path = Append(p, Tok("/"))]
      \/ v \in {[u EXCEPT !.form = "absolute"], [u EXCEPT !.tail = "query"], [u EXCEPT !.tail = "fragment"]}
  <2> DEFINE plain   == {i \in DOMAIN u.path : u.path[i][1] = "plain"}
             slashes == {i \in DOMAIN u.path : u.path[i] \in {Tok("/"), <<"escape", "/">>}}
             esc     == {Put(u, i, << <<"escape", u.path[i][2]>> >>) : i \in plain \ {1}}
             upp     == {Put(u, i, << <<"upper", u.path[i][2]>> >>) : i \in {j \in plain : u.path[j][2] \in Names}}
             two     == {Put(u, i, <<Tok("/"), u.path[i]>>) : i \in slashes}
             dot     == {Put(u, i, <<Tok("/"), Tok("."), u.path[i]>>) : i \in slashes}
             back    == {Put(u, i, <<Tok("/"), t, Tok("/"), Tok(".."), u.path[i]>>) : i \in slashes, t \in Passed}
             ends    == {[u EXCEPT !.path = Append(@, Tok("/"))], [u EXCEPT !.form = "absolute"]}
             tails   == {[u EXCEPT !.tail = t] : t \in {"query", "fragment"}}
  <2>1. v \in esc \cup upp \cup two \cup dot \cup back \cup ends \cup tails
    BY DEF Respelled
  <2>2. v \in esc => \E i \in DOMAIN p : p[i][1] = "plain" /\ v = Put(u, i, << <<"escape", p[i][2]>> >>)
    BY Zenon
  <2>3. v \in upp => \E i \in DOMAIN p : p[i][1] = "plain" /\ p[i][2] \in Names /\ v = Put(u, i, << <<"upper", p[i][2]>> >>)
    BY Zenon
  <2>4. v \in two => \E i \in DOMAIN p : Slash(i) /\ v = Put(u, i, <<Tok("/"), p[i]>>)
    BY Zenon
  <2>5. v \in dot => \E i \in DOMAIN p : Slash(i) /\ v = Put(u, i, <<Tok("/"), Tok("."), p[i]>>)
    BY Zenon
  <2>6. v \in back => \E i \in DOMAIN p, t \in Passed :
                          Slash(i) /\ v = Put(u, i, <<Tok("/"), t, Tok("/"), Tok(".."), p[i]>>)
    BY SMT
  <2>7. v \in ends => v \in {[u EXCEPT !.path = Append(p, Tok("/"))], [u EXCEPT !.form = "absolute"]}
    OBVIOUS
  <2>8. v \in tails => v \in {[u EXCEPT !.tail = "query"], [u EXCEPT !.tail = "fragment"]}
    OBVIOUS
  <2> HIDE DEF esc, upp, two, dot, back, ends, tails, Slash
  <2> QED
    BY Zenon, <2>1, <2>2, <2>3, <2>4, <2>5, <2>6, <2>7, <2>8
<1>3. ASSUME NEW q \in Seq(Token), v = [u EXCEPT !.path = q], Resolved(Normal(q)) = Resolved(Normal(p))
      PROVE  v \in Targets /\ Leads(v) = Leads(u)
  <2>1. v \in Targets /\ v.path = q
    BY <1>3 DEF Targets
  <2> QED
    BY <1>1, <1>3, <2>1 DEF Leads
<1>4. \A i, ts : Put(u, i, ts) = [u EXCEPT !.path = Placed(p, i, ts)]
  BY DEF Put, Placed
<1>5. ASSUME NEW i \in DOMAIN p, NEW t \in Token, Lowered(Decoded(t)) = Lowered(Decoded(p[i])), v = Put(u, i, <<t>>)
      PROVE  v \in Targets /\ Leads(v) = Leads(u)
  <2>1. Placed(p, i, <<t>>) \in Seq(Token) /\ Resolved(Normal(Placed(p, i, <<t>>))) = Resolved(Normal(p))
    <3> HIDE DEF p
    <3> QED
      BY <1>1, <1>5, SpelledOver
  <2> QED
    BY <1>3, <1>4, <1>5, <2>1
<1>6. ASSUME NEW i, NEW ts, BeforeSlash(p, i, ts), v = Put(u, i, ts)
      PROVE  v \in Targets /\ Leads(v) = Leads(u)
  <2>1. Placed(p, i, ts) \in Seq(Token) /\ Resolved(Normal(Placed(p, i, ts))) = Resolved(Normal(p))
    BY <1>1, <1>6, PutBefore
  <2> QED
    BY <1>3, <1>4, <1>6, <2>1
<1>7. CASE \E i \in DOMAIN p : p[i][1] = "plain" /\ v = Put(u, i, << <<"escape", p[i][2]>> >>)
  <2>1. PICK i \in DOMAIN p : p[i][1] = "plain" /\ v = Put(u, i, << <<"escape", p[i][2]>> >>)
    BY <1>7
  <2>2. <<"escape", p[i][2]>> \in Token /\ Lowered(Decoded(<<"escape", p[i][2]>>)) = Lowered(Decoded(p[i]))
    BY <1>1, <2>1, Respellings
  <2> QED
    BY <1>5, <2>1, <2>2
<1>8. CASE \E i \in DOMAIN p : p[i][1] = "plain" /\ p[i][2] \in Names /\ v = Put(u, i, << <<"upper", p[i][2]>> >>)
  <2>1. PICK i \in DOMAIN p : p[i][1] = "plain" /\ p[i][2] \in Names /\ v = Put(u, i, << <<"upper", p[i][2]>> >>)
    BY <1>8
  <2>2. <<"upper", p[i][2]>> \in Token /\ Lowered(Decoded(<<"upper", p[i][2]>>)) = Lowered(Decoded(p[i]))
    BY <1>1, <2>1, Respellings
  <2> QED
    BY <1>5, <2>1, <2>2
<1>9. Tok("/") \in Token /\ Tok(".") \in Token /\ Tok("..") \in Token /\ \A s \in Passed : s \in Token
  BY PassedTokens DEF Tok, Token
<1>10. ASSUME NEW i \in DOMAIN p, Slash(i)
       PROVE  /\ BeforeSlash(p, i, <<Tok("/"), p[i]>>)
              /\ BeforeSlash(p, i, <<Tok("/"), Tok("."), p[i]>>)
              /\ \A s \in Passed : BeforeSlash(p, i, <<Tok("/"), s, Tok("/"), Tok(".."), p[i]>>)
  <2>1. i \in 1..Len(p) /\ p[i] \in Token /\ Slash(i)
    BY <1>1, <1>10
  <2>2. PICK t \in Token : t = p[i]
    BY <2>1
  <2>3. PICK ts : ts = <<Tok("/"), t>>
    OBVIOUS
  <2>4. ts \in Seq(Token) /\ Len(ts) = 2 /\ ts[1] = Tok("/") /\ ts[2] = t
    BY <1>9, <2>3
  <2>5. PICK dot : dot = <<Tok("/"), Tok("."), t>>
    OBVIOUS
  <2>6. dot \in Seq(Token) /\ Len(dot) = 3 /\ dot[1] = Tok("/") /\ dot[2] = Tok(".") /\ dot[3] = t
    BY <1>9, <2>5
  <2>7. ASSUME NEW s \in Passed PROVE BeforeSlash(p, i, <<Tok("/"), s, Tok("/"), Tok(".."), t>>)
    <3>1. PICK dd : dd = <<Tok("/"), s, Tok("/"), Tok(".."), t>>
      OBVIOUS
    <3>2. /\ dd \in Seq(Token) /\ Len(dd) = 5 /\ dd[1] = Tok("/") /\ dd[2] = s
          /\ dd[3] = Tok("/") /\ dd[4] = Tok("..") /\ dd[5] = t
      BY <1>9, <3>1
    <3>3. BeforeSlash(p, i, dd)
      BY <2>1, <2>2, <3>2 DEF BeforeSlash
    <3> QED
      BY <3>1, <3>3
  <2>8. BeforeSlash(p, i, ts) /\ BeforeSlash(p, i, dot)
    BY <2>1, <2>2, <2>4, <2>6 DEF BeforeSlash
  <2> QED
    BY <2>2, <2>3, <2>5, <2>7, <2>8
<1>11. CASE \/ \E i \in DOMAIN p : Slash(i) /\ v = Put(u, i, <<Tok("/"), p[i]>>)
            \/ \E i \in DOMAIN p : Slash(i) /\ v = Put(u, i, <<Tok("/"), Tok("."), p[i]>>)
            \/ \E i \in DOMAIN p, t \in Passed :
                  Slash(i) /\ v = Put(u, i, <<Tok("/"), t, Tok("/"), Tok(".."), p[i]>>)
  BY <1>6, <1>10, <1>11, Zenon
<1>12. CASE v = [u EXCEPT !.path = Append(p, Tok("/"))]
  <2>1. PICK q : q = Append(p, Tok("/"))
    OBVIOUS
  <2>2. q \in Seq(Token) /\ Normal(p) \in Seq(Token)
    BY <1>1, <1>9, <2>1, NormalIs
  <2>3. Normal(q) = Append(Normal(p), Tok("/"))
    <3>1. Lowered(Decoded(Tok("/"))) = Tok("/")
      BY DEF Tok, Lowered, Decoded
    <3>2. /\ Len(q) = Len(p) + 1 /\ Len(p) \in Nat /\ q[Len(p) + 1] = Tok("/")
          /\ \A j \in 1..Len(p) : q[j] = p[j]
      <4> HIDE DEF p
      <4> QED
        BY <1>1, <1>9, <2>1
    <3>3. PICK a : a = Append(Normal(p), Tok("/"))
      OBVIOUS
    <3>4. /\ a \in Seq(Token) /\ Len(a) = Len(p) + 1 /\ a[Len(p) + 1] = Tok("/")
          /\ \A j \in 1..Len(p) : a[j] = Lowered(Decoded(p[j]))
      <4>1. PICK m \in Seq(Token) : m = Normal(p)
        BY <2>2
      <4>2. Len(m) = Len(p) /\ \A j \in 1..Len(p) : m[j] = Lowered(Decoded(p[j]))
        BY <1>1, <4>1, NormalIs
      <4> HIDE DEF p
      <4> QED
        BY <1>9, <3>2, <3>3, <4>1, <4>2
    <3>5. \A j \in 1..Len(q) : j \in 1..Len(p) \/ j = Len(p) + 1
      BY <3>2
    <3>6. \A j \in 1..Len(q) : Normal(q)[j] = a[j]
      BY <2>2, <3>1, <3>2, <3>4, <3>5, NormalIs
    <3>7. Normal(q) \in Seq(Token) /\ Len(Normal(q)) = Len(a)
      BY <2>2, <3>2, <3>4, NormalIs
    <3>8. Normal(q) = a
      BY <2>2, <3>4, <3>6, <3>7, NormalIs, SameSeq
    <3> QED
      BY <3>3, <3>8
  <2>4. Resolved(Normal(q)) = Resolved(Normal(p))
    BY <2>2, <2>3, SlashAtEnd
  <2> QED
    BY <1>3, <1>12, <2>1, <2>2, <2>4
<1>13. CASE v \in {[u EXCEPT !.form = "absolute"], [u EXCEPT !.tail = "query"], [u EXCEPT !.tail = "fragment"]}
  <2>1. v \in Targets /\ v.path = u.path
    BY <1>13 DEF Targets
  <2> QED
    BY <2>1 DEF Leads
<1> QED
  BY <1>2, <1>7, <1>8, <1>11, <1>12, <1>13
\* The targets of X and one change of the spelling of each.
More(X) == X \cup UNION {Respelled(v) : v \in X}

\* And so are any number of changes, by induction over their number; what they make has the
\* same canonical path.
LEMMA SpellingsKeep ==
    ASSUME NEW u \in Targets, ReadAsOne(u.path), NEW k \in Nat, NEW v \in Spellings(u, k)
    PROVE  v \in Targets /\ canonicalPath(v) = canonicalPath(u)
<1> DEFINE K == {x \in Targets : Leads(x) = Leads(u)}
           F == [i \in 1..k |-> [X \in SUBSET K |-> More(X)]]
           at == CHOOSE at : at = [i \in 0..k |-> IF i = 0 THEN {u} ELSE More(at[i - 1])]
<1>1. \A X \in SUBSET K : More(X) \in SUBSET K
  <2> SUFFICES ASSUME NEW X \in SUBSET K, NEW x \in More(X) PROVE x \in K
    OBVIOUS
  <2>1. CASE x \in X
    BY <2>1
  <2>2. CASE x \in UNION {Respelled(w) : w \in X}
    <3>1. PICK w \in X : x \in Respelled(w)
      BY <2>2
    <3>2. w \in Targets /\ Leads(w) = Leads(u)
      BY <3>1
    <3> QED
      BY <3>1, <3>2, RespelledKeeps
  <2> QED
    BY <2>1, <2>2 DEF More
<1>2. {u} \in SUBSET K
  OBVIOUS
<1>3. v \in at[k] /\ ReadAsOne(v.path)
  BY SMT DEF Spellings, More
<1>4. PICK S : S = SUBSET K
  OBVIOUS
<1> HIDE DEF K
<1>5. F \in Rounds(k, S)
  BY <1>1, <1>4 DEF Rounds
<1>6. PICK f : Makes(f, k, S, F, {u})
  BY <1>2, <1>4, <1>5, Loop
<1>7. \A i \in 1..k : f[i] = More(f[i - 1])
  <2> SUFFICES ASSUME NEW i \in 1..k PROVE f[i] = More(f[i - 1])
    OBVIOUS
  <2>1. f[i - 1] \in S
    BY <1>6 DEF Makes
  <2> QED
    BY <1>4, <1>6, <2>1 DEF Makes
<1>8. f = [i \in 0..k |-> IF i = 0 THEN {u} ELSE More(f[i - 1])]
  <2>1. \A i \in 0..k : f[i] = IF i = 0 THEN {u} ELSE More(f[i - 1])
    <3> HIDE DEF F
    <3> QED
      BY <1>6, <1>7 DEF Makes
  <2>2. f = [i \in 0..k |-> f[i]]
    BY <1>6 DEF Makes
  <2> QED
    BY <2>1, <2>2, Zenon
<1>9. at = [i \in 0..k |-> IF i = 0 THEN {u} ELSE More(at[i - 1])]
  <2>1. \E g : g = [i \in 0..k |-> IF i = 0 THEN {u} ELSE More(g[i - 1])]
    BY <1>8, Zenon
  <2> QED
    BY <2>1, Zenon
<1> HIDE DEF at, F
<1>10. \A i \in 0..k : at[i] = IF i = 0 THEN {u} ELSE More(at[i - 1])
  BY <1>9
<1>11. at[k] \in SUBSET K
  <2> DEFINE E == {i \in Nat : i <= k => at[i] \in SUBSET K}
  <2>1. 0 \in E
    BY <1>2, <1>10
  <2>2. ASSUME NEW i \in E PROVE i + 1 \in E
    BY <1>1, <1>10
  <2>3. E = Nat
    <3> HIDE DEF E
    <3>1. E \in SUBSET Nat
      BY DEF E
    <3> QED
      BY <2>1, <2>2, <3>1, Induction
  <2> QED
    BY <2>3
<1>12. v \in Targets /\ Leads(v) = Leads(u)
  BY <1>3, <1>11 DEF K
<1> QED
  BY <1>3, <1>12, CanonicalIsResolved DEF Leads, Targets

\* A request for one of the enclave's routes, however its target is spelled, stays.
LEMMA SpelledStays ==
    ASSUME NEW route \in EnclaveRoutes, NEW m \in route.methods, NEW k \in Nat,
           NEW u \in Spellings([form |-> "origin", path |-> route.path, tail |-> "none"], k)
    PROVE  routeDecision(m, u) # "proxy"
<1> DEFINE o == [form |-> "origin", path |-> route.path, tail |-> "none"]
<1>1. o \in Targets /\ ReadAsOne(o.path)
  <2>1. o \in Targets
    BY RoutesAssumption DEF Targets
  <2>2. ASSUME NEW i \in DOMAIN route.path PROVE route.path[i][1] = "plain"
    <3>1. route.path[i] \in IF i % 2 = 1 THEN {Tok("/")} ELSE {Tok(n) : n \in Names}
      BY RoutesAssumption
    <3> QED
      BY <3>1 DEF Tok
  <2> QED
    BY <2>1, <2>2 DEF ReadAsOne
<1>2. u \in Targets /\ canonicalPath(u) = Canonical(route)
  <2>1. Canonical(route) = canonicalPath(o)
    BY DEF Canonical
  <2> HIDE DEF o
  <2>2. u \in Spellings(o, k)
    BY DEF o
  <2> QED
    BY <1>1, <2>1, <2>2, SpellingsKeep
<1>3. CASE \E other \in EnclaveRoutes : Literal(u, other)
  <2>1. PICK other \in EnclaveRoutes : Literal(u, other)
    BY <1>3
  <2>2. canonicalPath(u) = Canonical(other)
    BY <2>1 DEF Canonical, canonicalPath, Literal
  <2>3. other = route
    BY <1>2, <2>2, RoutesAssumption
  <2>4. isEnclaveRoute(m, u)
    BY <2>1, <2>3 DEF isEnclaveRoute
  <2> QED
    BY <2>4 DEF routeDecision
<1>4. CASE ~\E other \in EnclaveRoutes : Literal(u, other)
  <2>1. isEnclaveRouteNearMiss(u)
    BY <1>2, <1>4 DEF isEnclaveRouteNearMiss
  <2> QED
    BY <2>1 DEF routeDecision
<1> QED
  BY <1>3, <1>4

-----------------------------------------------------------------------------
\* No target the router is asked about is passed on when it is a spelling of a route.
SpellingsStay == \A d \in Decided : d.ours \in BOOLEAN /\ (d.ours => d.to # "proxy")

\* README: a request for one of the enclave's routes is never handed to the proxy,
\* however its target is spelled.  Of a path the catch of canonicalPath leaves undecoded it
\* takes from the comment there that no other escape in it spells a route (ReadAsOne).
THEOREM RouterKeepsItsOwn == SpellingsStay
<1> SUFFICES ASSUME NEW d \in Decided PROVE d.ours \in BOOLEAN /\ (d.ours => d.to # "proxy")
  BY DEF SpellingsStay
<1> DEFINE Spelled(route) ==
             {[to |-> routeDecision(m, u), ours |-> TRUE] :
                m \in route.methods,
                u \in Spellings([form |-> "origin", path |-> route.path, tail |-> "none"], MaxRespell)}
<1>1. \/ d \in {[to |-> routeDecision(m, u), ours |-> FALSE] : m \in Methods, u \in Foreign}
      \/ d \in UNION {Spelled(route) : route \in EnclaveRoutes}
  BY DEF Decided
<1>2. CASE d \in {[to |-> routeDecision(m, u), ours |-> FALSE] : m \in Methods, u \in Foreign}
  <2>1. PICK m \in Methods, u \in Foreign : d = [to |-> routeDecision(m, u), ours |-> FALSE]
    BY <1>2
  <2> QED
    BY <2>1
<1>3. CASE d \in UNION {Spelled(route) : route \in EnclaveRoutes}
  <2>1. PICK route \in EnclaveRoutes : d \in Spelled(route)
    BY <1>3
  <2>2. PICK m \in route.methods,
             u \in Spellings([form |-> "origin", path |-> route.path, tail |-> "none"], MaxRespell) :
           d = [to |-> routeDecision(m, u), ours |-> TRUE]
    BY <2>1
  <2>3. routeDecision(m, u) # "proxy"
    BY EdgeAssumption, SpelledStays
  <2> QED
    BY <2>2, <2>3
<1> QED
  BY <1>1, <1>2, <1>3

\* The router hands an ordinary request on only when it is not one of the enclave's.
LEMMA ForeignKept ==
    ASSUME EdgeInv, HeldIsForeign, [Next]_vars PROVE HeldIsForeign'
<1>0. PassInv /\ HeldOnVia /\ ListenerInv
  BY DEF EdgeInv
<1>1. ASSUME NEW r \in Requests, NEW c \in Conns, Request(r, c) PROVE HeldIsForeign'
  <2>1. PICK d \in Decided :
           /\ ours' = [ours EXCEPT ![r] = d.ours]
           /\ IF MayProxy(c) /\ d.to = "proxy" THEN handle(r) ELSE UNCHANGED passthrough
    BY <1>1 DEF Request
  <2>2. ~held[r]
    BY <1>0, <1>1, EdgeAssumption DEF HeldOnVia, ListenerInv, LinkTypes, Request, Comes
  <2>3. d.ours \in BOOLEAN
    BY RouterKeepsItsOwn DEF SpellingsStay
  <2>4. \A q \in Requests : q # r => ours'[q] = ours[q]
    BY <2>1 DEF HeldIsForeign
  <2>5. CASE UNCHANGED passthrough
    BY <2>1, <2>2, <2>3, <2>5 DEF HeldIsForeign, passthrough
  <2>6. CASE d.to = "proxy" /\ handle(r)
    <3>1. ours'[r] = d.ours /\ ~d.ours
      BY <2>1, <2>6, RouterKeepsItsOwn DEF SpellingsStay, HeldIsForeign
    <3>2. \A q \in Requests : q # r => held'[q] = held[q] /\ kind'[q] = kind[q]
      BY <1>0, <2>6, AdmissionOfOne
    <3> QED
      BY <2>1, <2>3, <2>4, <3>1, <3>2 DEF HeldIsForeign
  <2> QED
    BY <2>1, <2>5, <2>6
<1>2. ASSUME NEW r \in Requests, NEW c \in Conns, Upgrade(r, c) PROVE HeldIsForeign'
  <2>1. CASE UNCHANGED passthrough
    BY <1>2, <2>1 DEF Upgrade, HeldIsForeign, passthrough
  <2>2. CASE upgrade(r)
    <3>1. /\ \A q \in Requests : q # r => held'[q] = held[q] /\ kind'[q] = kind[q]
          /\ kind'[r] = "upgrade"
      BY <1>0, <2>2 DEF upgrade, Overloaded, Admit, PassInv, PassTypes
    <3> QED
      BY <1>2, <3>1 DEF Upgrade, HeldIsForeign
  <2> QED
    BY <1>2, <2>1, <2>2 DEF Upgrade
<1>3. ASSUME NEW r \in Requests, Step(r), UNCHANGED ours PROVE HeldIsForeign'
  BY <1>0, <1>3, StepTakesNoSlot DEF HeldIsForeign
<1>4. CASE UNCHANGED <<passthrough, ours>>
  BY <1>4 DEF HeldIsForeign, passthrough
<1> QED
  BY <1>1, <1>2, <1>3, <1>4 DEF Next, vars

\* README: nothing leaves without a client address, and it is that of the connection's
\* own header; and no ordinary request for one of the enclave's routes leaves, however its
\* target is spelled.
THEOREM LeavesProperly == Spec => []LeavesAsItShould
<1>1. EdgeInv /\ HeldIsForeign /\ [Next]_vars => EdgeInv' /\ HeldIsForeign'
  BY EdgeKept, ForeignKept
<1>2. HeaderTakenExactly /\ ViaHasOwnAddress /\ OwnAddress /\ HeldIsForeign => LeavesAsItShould
  BY DEF OwnAddress, HeldIsForeign, LeavesAsItShould
<1> QED
  BY <1>1, <1>2, EdgeStarts, ProxiedWithOwnAddress, PTL DEF Spec
=============================================================================
