--------------------------- MODULE ServedIdentity ---------------------------
(***************************************************************************)
(* The certificate a process presents and the key that signs a receipt on  *)
(* a connection (servedIdentity.mjs, with installIssued and SNICallback).  *)
(* Connections outlive the installs that come after them; an attestation   *)
(* commits to the certificate a connection was served.                     *)
(***************************************************************************)
EXTENDS WorkerClock

CONSTANTS
    Certs,      \* certificates that are issued; "boot" is the self-signed one
    Broken,     \* those whose key does not fit them, or does not parse
    SpkiOf,     \* SpkiOf[c]: the public key of a certificate
    Conns       \* connections

ASSUME IdentityAssumption == "boot" \notin Certs /\ Broken \subseteq Certs

VARIABLES
    current,    \* current: what the identity says it presents
    keys,       \* keysBySpki: the public keys whose private key is held
    attached,   \* a server is attached
    wire,       \* the default context of that server
    issued,     \* issuedCredentials: the certificate SNI finds, or "none"
    served      \* served[n]: the certificate a connection was served, or "none"

identity == <<current, keys, attached, wire, issued, served>>

IdentityInit ==
    /\ current = "boot" /\ keys = {SpkiOf["boot"]}
    /\ attached = FALSE /\ wire = "boot" /\ issued = "none"
    /\ served = [n \in Conns |-> "none"]

\* createServer(contextOptions()) and attach.
Listen(c) ==
    /\ ~attached /\ c = current
    /\ attached' = TRUE /\ wire' = c
    /\ UNCHANGED <<current, keys, issued, served, clock>>

\* Mutant of adopt: the identity is committed before the context is built.
adoptEarly(c) ==
    /\ current' = c
    /\ keys' = keys \cup {SpkiOf[c]}
    /\ wire' = IF attached /\ c \notin Broken THEN c ELSE wire

\* adopt: everything that can fail comes first; then the wire, the key and current.
adopt(c) ==
    \/ /\ c # current /\ c \notin Broken
       /\ wire' = IF attached THEN c ELSE wire
       /\ keys' = keys \cup {SpkiOf[c]}
       /\ current' = c
    \/ /\ c = current \/ c \in Broken
       /\ UNCHANGED <<wire, keys, current>>

\* installIssued: the names first, then the default context; an adopt that throws
\* leaves the names installed.
installIssued(c) ==
    /\ issued' = c
    /\ adopt(c)
    /\ UNCHANGED <<attached, served, clock>>

\* A handshake: SNI's context and the default are both on offer, the client's cipher
\* order picks; a name nobody knows, or a context that cannot be built, leaves the
\* default.
Handshake(n) ==
    /\ attached /\ served[n] = "none"
    /\ \E c \in {wire} \cup ({issued} \ (Broken \cup {"none"})) :
          served' = [served EXCEPT ![n] = c]
    /\ UNCHANGED <<current, keys, attached, wire, issued, clock>>

Close(n) ==
    /\ served[n] # "none"
    /\ served' = [served EXCEPT ![n] = "none"]
    /\ UNCHANGED <<current, keys, attached, wire, issued, clock>>

\* connectionSigningKey: by the SPKI of what the socket was served, or none.
signingKeyFor(n) == IF SpkiOf[served[n]] \in keys THEN SpkiOf[served[n]] ELSE "unsigned"

IdentityNext ==
    \/ \E c \in Certs \cup {"boot"} : Listen(c)
    \/ \E c \in Certs : installIssued(c)
    \/ \E n \in Conns : Handshake(n) \/ Close(n)

-----------------------------------------------------------------------------
\* The receipt of a connection is signed with the key of the certificate its client
\* saw and its attestation names, however many certificates were installed since; and
\* what /health calls the default is what the wire presents.
SignsAsServed ==
    /\ \A n \in Conns : served[n] # "none" => signingKeyFor(n) = SpkiOf[served[n]]
    /\ attached => wire = current
=============================================================================
