--------------------------- MODULE ProxyListener ---------------------------
(***************************************************************************)
(* The two inbound ports of a worker: the plain one, and the api port that *)
(* reads a PROXY protocol header before TLS (proxyListener.mjs and         *)
(* proxyProtocol.mjs).  Both feed one TLS server, whose secureConnection   *)
(* hook gives a connection its client address.  A header is what the       *)
(* parser can tell of it: its grammar, its length, the address it names    *)
(* and the number of bytes that prove it wrong.                            *)
(***************************************************************************)
EXTENDS Naturals, Sequences, FiniteSets

CONSTANTS
    Conns,          \* connections
    Peers,          \* remoteAddress:remotePort
    Headers,        \* what may come first on the api port
    FirstRead,      \* FIRST_READ
    HeaderFixed     \* HEADER_FIXED

\* bad is 0 for a sound header.  A v1 line is longer than its prefix and is proved wrong
\* within itself, a v2 header is at least its fixed part and proved wrong within that.
ASSUME HeaderAssumption ==
    /\ FirstRead \in Nat \ {0} /\ HeaderFixed \in Nat /\ FirstRead < HeaderFixed
    /\ \A h \in Headers :
          /\ h.grammar \in {"v1", "v2", "other"} /\ h.length \in Nat /\ h.bad \in Nat
          /\ h.grammar = "v1" => h.length > FirstRead /\ h.bad <= h.length
          /\ h.grammar = "v2" => h.length >= HeaderFixed /\ h.bad <= HeaderFixed
          /\ h.grammar = "other" => h.bad = 1

VARIABLES
    port,       \* port[c]: "none", "plain" or "api"
    peer,       \* peer[c]
    header,     \* header[c]: what the peer sends before its ClientHello
    arrived,    \* arrived[c]: bytes in while accept reads, the ClientHello counting one
    taken,      \* taken[c]: bytes accept has read
    link,       \* link[c]: "new", "reading", "handed", "secure", "closed"
    why,        \* why[c]: why accept dropped it, "none" when it did not
    byRaw,      \* the address of a raw socket
    byPeer,     \* the address of a peer tuple
    viaRaw,     \* raw sockets that came with an address
    clientIp,   \* tlsSocket.clientIp
    via         \* tlsSocket.viaProxyProtocol

listener == <<port, peer, header, arrived, taken, link, why, byRaw, byPeer, viaRaw, clientIp, via>>

\* What the plain port expects.
NoHeader == [grammar |-> "none", length |-> 0, ip |-> "none", bad |-> 0]

ListenerInit ==
    /\ port = [c \in Conns |-> "none"]
    /\ peer \in [Conns -> Peers]
    /\ header = [c \in Conns |-> NoHeader]
    /\ arrived = [c \in Conns |-> 0] /\ taken = [c \in Conns |-> 0]
    /\ link = [c \in Conns |-> "new"] /\ why = [c \in Conns |-> "none"]
    /\ byRaw = [c \in Conns |-> "none"] /\ byPeer = [p \in Peers |-> "none"]
    /\ viaRaw = {} /\ via = {}
    /\ clientIp = [c \in Conns |-> "none"]

-----------------------------------------------------------------------------
Told(status, need) == [status |-> status, need |-> need]

\* The first n bytes are enough to tell that the header is wrong.
ProvedWrong(h, n) == h.bad # 0 /\ n >= h.bad

\* Rejected as early as the bytes allow: the signature, then everything the fixed part
\* can prove wrong, before its block is asked for.
parseProxyV2(h, n) ==
    IF ProvedWrong(h, n) THEN Told("invalid", 0)
    ELSE IF n < HeaderFixed THEN Told("incomplete", HeaderFixed)
    ELSE IF n < h.length THEN Told("incomplete", h.length) ELSE Told("ok", 0)

\* Mutant of parseProxyV1: two bytes more are asked for.
parseV1ByPairs(h, n) ==
    IF ProvedWrong(h, n) THEN Told("invalid", 0)
    ELSE IF n < h.length THEN Told("incomplete", n + 2) ELSE Told("ok", 0)

\* One byte more at a time, up to the CRLF or the longest line there may be.
parseProxyV1(h, n) ==
    IF ProvedWrong(h, n) THEN Told("invalid", 0)
    ELSE IF n < h.length THEN Told("incomplete", n + 1) ELSE Told("ok", 0)

\* The grammars differ at the first byte.
parseProxyHeader(h, n) ==
    IF n = 0 THEN Told("incomplete", 1)
    ELSE IF h.grammar = "v2" THEN parseProxyV2(h, n)
    ELSE IF h.grammar = "v1" THEN parseProxyV1(h, n) ELSE Told("invalid", 0)

\* The bytes the next socket.read asks for.
Want(c) == IF taken[c] = 0 THEN FirstRead ELSE parseProxyHeader(header[c], taken[c]).need - taken[c]

\* One peer tuple may be in use once per local port.
Open(c, p) ==
    /\ link[c] = "new"
    /\ \A d \in Conns : port[d] = p /\ peer[d] = peer[c] => link[d] = "closed"
    /\ port' = [port EXCEPT ![c] = p]
    /\ link' = [link EXCEPT ![c] = IF p = "api" THEN "reading" ELSE "handed"]
    /\ \E h \in (IF p = "api" THEN Headers ELSE {NoHeader}) : header' = [header EXCEPT ![c] = h]
    /\ UNCHANGED <<peer, arrived, taken, why, byRaw, byPeer, viaRaw, clientIp, via>>

\* External: a segment of any size.
Receive(c) ==
    /\ link[c] = "reading"
    /\ \E n \in (arrived[c] + 1)..(header[c].length + 1) : arrived' = [arrived EXCEPT ![c] = n]
    /\ UNCHANGED <<port, peer, header, taken, link, why, byRaw, byPeer, viaRaw, clientIp, via>>

Drop(c, reason) ==
    /\ link' = [link EXCEPT ![c] = "closed"]
    /\ why' = [why EXCEPT ![c] = reason]
    /\ arrived' = [arrived EXCEPT ![c] = 0]
    /\ UNCHANGED <<byRaw, byPeer, viaRaw>>

\* finish, the maps of a header that names an address, and the handover.
HandOver(c) ==
    /\ link' = [link EXCEPT ![c] = "handed"]
    /\ arrived' = [arrived EXCEPT ![c] = 0]
    /\ IF header[c].ip = "none"
       THEN UNCHANGED <<byRaw, byPeer, viaRaw>>
       ELSE /\ viaRaw' = viaRaw \cup {c}
            /\ byRaw' = [byRaw EXCEPT ![c] = header[c].ip]
            /\ byPeer' = [byPeer EXCEPT ![peer[c]] = header[c].ip]
    /\ UNCHANGED why

\* One turn of onReadable's loop, with what read(want) hands back.
Read(c) ==
    /\ link[c] = "reading"
    /\ arrived[c] - taken[c] >= Want(c)
    /\ taken' = [taken EXCEPT ![c] = @ + Want(c)]
    /\ LET r == parseProxyHeader(header[c], taken'[c])
       IN  \/ r.status = "invalid" /\ Drop(c, "invalid")
           \/ r.status = "incomplete" /\ UNCHANGED <<arrived, link, why, byRaw, byPeer, viaRaw>>
           \/ r.status = "ok" /\ taken'[c] # header[c].length /\ Drop(c, "past")
           \/ r.status = "ok" /\ taken'[c] = header[c].length /\ HandOver(c)
    /\ UNCHANGED <<port, peer, header, clientIp, via>>

\* The header timeout, an early end or an error.
GiveUp(c) ==
    /\ link[c] = "reading"
    /\ Drop(c, "incomplete")
    /\ UNCHANGED <<port, peer, header, taken, clientIp, via>>

\* The address of the raw socket, else that of the peer tuple.
AddressOf(c) == IF byRaw[c] # "none" THEN byRaw[c] ELSE byPeer[peer[c]]

\* The handshake is done: the prepended secureConnection listener.
Secure(c) ==
    /\ link[c] = "handed"
    /\ link' = [link EXCEPT ![c] = "secure"]
    /\ clientIp' = [clientIp EXCEPT ![c] = AddressOf(c)]
    /\ via' = IF c \in viaRaw THEN via \cup {c} ELSE via
    /\ UNCHANGED <<port, peer, header, arrived, taken, why, byRaw, byPeer, viaRaw>>

\* The raw socket closes: a connection with an address takes its tuple with it, and
\* what was noted of the socket goes.
Close(c) ==
    /\ link[c] \in {"handed", "secure"}
    /\ link' = [link EXCEPT ![c] = "closed"]
    /\ byPeer' = IF c \in viaRaw THEN [byPeer EXCEPT ![peer[c]] = "none"] ELSE byPeer
    /\ byRaw' = [byRaw EXCEPT ![c] = "none"]
    /\ clientIp' = [clientIp EXCEPT ![c] = "none"]
    /\ header' = [header EXCEPT ![c] = NoHeader]
    /\ taken' = [taken EXCEPT ![c] = 0]
    /\ viaRaw' = viaRaw \ {c} /\ via' = via \ {c}
    /\ UNCHANGED <<port, peer, arrived, why>>

-----------------------------------------------------------------------------
\* However the bytes are cut, exactly the header is read before TLS gets the socket:
\* not one byte of the ClientHello; and only a header that is wrong is refused.
HeaderTakenExactly ==
    \A c \in Conns :
        /\ port[c] = "api" /\ link[c] \in {"handed", "secure"} =>
              taken[c] = header[c].length /\ header[c].bad = 0
        /\ why[c] \in {"invalid", "past"} => header[c].bad # 0

\* A connection that may be proxied bears the address its own header named, whatever
\* other connections share its peer tuple.
ViaHasOwnAddress ==
    \A c \in via : header[c].ip # "none" /\ clientIp[c] = header[c].ip /\ port[c] = "api"
=============================================================================
